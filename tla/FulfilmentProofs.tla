-------------------------- MODULE FulfilmentProofs --------------------------
(***************************************************************************)
(* Proofs about Fulfilment, for any number of workers and lines, any price *)
(* and any time limits with TaskLimit < StuckAfter: two workers never      *)
(* fulfil the order at once, a retry never makes a second service for a    *)
(* line, the order agrees with its lines and its invoice, and all of it    *)
(* implements the promise of Delivery.                                     *)
(*                                                                         *)
(* Exclusion does not come from the status alone: a worker that is slow    *)
(* and a sweeper that gives up on it would break it.  It comes from two    *)
(* clocks that run together (ClockAgrees): while a worker is busy its age  *)
(* is the order's, so an order old enough to be reset has outlived every   *)
(* worker.  Exclusion in turn makes the copy of the lines a worker loaded  *)
(* once agree with the table for every line it has not come to yet         *)
(* (CopyIsFresh), and only that makes reusing the copy's service safe.     *)
(***************************************************************************)
EXTENDS Fulfilment, SequenceTheorems, TLAPS

WorkerRow ==
    [pc : {"idle", "load", "line", "complete", "ask", "term", "done", "outcome"},
     age : 0..TaskLimit, at : 0..NumLines + 1, copy : [Lines -> LineRow],
     service : Nat, failures : BOOLEAN]

\* The order has been in flight exactly as long as its worker has been at it.
ClockAgrees == \A w \in Workers : Busy(w) => worker[w].age = age

InHand == {"complete", "ask", "term", "done"}

\* The copy agrees with the table about the lines that are still to come.
FreshCopy(row, lines) ==
    /\ row.pc = "line" =>
          row.at >= 1 /\ \A n \in Lines : n >= row.at => row.copy[n] = lines[n]
    /\ row.pc \in InHand => \A n \in Lines : n > row.at => row.copy[n] = lines[n]

CopyIsFresh == \A w \in Workers : FreshCopy(worker[w], line)

\* A worker with a service in hand has the only one of its line, and has
\* brought it as far as its own place in the code says.
GoodHand(row, lines, services, over) ==
    row.pc \in InHand =>
        /\ row.at \in Lines /\ Kind[row.at] # "addon" /\ lines[row.at].status # "done"
        /\ row.service = 1 /\ Len(services[row.at]) = 1
        /\ Kind[row.at] = "hosting" =>
              /\ row.pc \in {"term", "done"} => services[row.at][1].status = "active" \/ row.at \in over
              /\ row.pc = "done" => services[row.at][1].term

ServiceInHand == \A w \in Workers : GoodHand(worker[w], line, svc, crossed)

\* A line that is done has its service, and a hosting account runs, unless a
\* cancellation that was begun earlier has crossed it.
DoneIsDelivered ==
    \A n \in Lines : line[n].status = "done" =>
        /\ Kind[n] # "addon" => line[n].service # 0
        /\ Kind[n] = "hosting" =>
              /\ svc[n][1].status = "active" \/ n \in crossed
              /\ svc[n][1].term

\* A worker that reports no failures, and an active order, leave no line.
HonestReport(row, lines) ==
    row.pc = "outcome" /\ ~row.failures => \A n \in Lines : lines[n].status = "done"

NothingLeft ==
    /\ \A w \in Workers : HonestReport(worker[w], line)
    /\ order = "active" => \A n \in Lines : line[n].status = "done"

\* What the worker does to the order's lines.
LinesInv ==
    /\ OneWorkerAtATime /\ ClockAgrees /\ OneServicePerLine
    /\ CopyIsFresh /\ ServiceInHand /\ DoneIsDelivered /\ NothingLeft

\* The invoice's status is the one its money gives it.
InvoiceIsDerived ==
    /\ inv.refunded <= inv.paid
    /\ inv.status = "cancelled" \/ inv.status = DerivedStatus(inv.paid, inv.refunded, Price)

\* An order that has once been paid, also one that failed and may be retried,
\* has a settled invoice.
OrderIsSettled ==
    /\ order \in {"paid", "provisioning", "active", "failed"} => inv.status \in SETTLED_STATUSES
    /\ order = "pending_payment" /\ inv.refunded = 0 => inv.status \notin SETTLED_STATUSES

BookInv == InvoiceIsDerived /\ OrderIsSettled

FInv == TypeOK /\ LinesInv /\ BookInv

----------------------------------------------------------------------------
(* The order and its invoice.                                               *)

\* The status table, one row at a time.
LEMMA StatusTable ==
    ASSUME order \in OrderStatus, NEW new, transition(new)
    PROVE  /\ new \in OrderStatus /\ order' = new /\ age' = 0
           /\ order = "pending_payment" => new \in {"paid", "cancelled", "fraud"}
           /\ order = "paid" => new \in {"provisioning", "fraud"}
           /\ order = "provisioning" => new \in {"active", "failed"}
           /\ order = "failed" => new \in {"provisioning", "fraud", "cancelled"}
           /\ order = "fraud" => new \in {"pending_payment", "paid", "cancelled"}
           /\ order \notin {"active", "cancelled"}
BY DEF transition, ALLOWED, OrderStatus

InvoiceRow ==
    [status : OPEN_STATUSES \cup SETTLED_STATUSES \cup {"cancelled"}, paid : 0..MaxPaid, refunded : 0..MaxPaid]

\* What an invoice is once money has come in or gone back.
LEMMA NewInvoice ==
    ASSUME inv \in InvoiceRow, InvoiceIsDerived,
           NEW p \in 0..MaxPaid, NEW r \in 0..MaxPaid, r <= p, SetInvoice(p, r)
    PROVE  /\ inv' \in InvoiceRow /\ inv'.paid = p /\ inv'.refunded = r
           /\ InvoiceIsDerived'
           /\ inv.status = "cancelled" => inv'.status = "cancelled"
           /\ inv.status # "cancelled" => inv'.status = DerivedStatus(p, r, Price)
<1> DEFINE s == IF inv.status = "cancelled" THEN "cancelled" ELSE DerivedStatus(p, r, Price)
<1>1. s \in OPEN_STATUSES \cup SETTLED_STATUSES \cup {"cancelled"}
    BY DEF DerivedStatus, OPEN_STATUSES, SETTLED_STATUSES
<1>2. inv' = [status |-> s, paid |-> p, refunded |-> r] BY DEF SetInvoice
<1> QED BY <1>1, <1>2 DEF InvoiceRow, InvoiceIsDerived

\* Money that arrives keeps a settled invoice settled, and an invoice it
\* settles is open before and paid after, unless money was given back.
LEMMA PaymentSettles ==
    ASSUME TypeOK, BookInv, NEW a \in 1..Price, PaymentArrives(a)
    PROVE  /\ inv' \in InvoiceRow /\ InvoiceIsDerived' /\ inv'.refunded = inv.refunded
           /\ inv.status \in SETTLED_STATUSES => inv'.status \in SETTLED_STATUSES
           /\ inv'.status \in SETTLED_STATUSES /\ inv.status \notin SETTLED_STATUSES /\ inv.refunded = 0 =>
                inv'.status = "paid" /\ inv.status \in OPEN_STATUSES
<1> USE FulfilmentAssumption
<1>1. inv \in InvoiceRow /\ InvoiceIsDerived /\ inv.refunded <= inv.paid
    BY DEF TypeOK, InvoiceRow, BookInv, InvoiceIsDerived
<1>2. inv.paid + a \in 0..MaxPaid /\ inv.refunded <= inv.paid + a /\ inv.refunded \in 0..MaxPaid
    BY <1>1 DEF PaymentArrives, InvoiceRow
<1>3. SetInvoice(inv.paid + a, inv.refunded) BY DEF PaymentArrives
<1>4. /\ inv' \in InvoiceRow /\ inv'.refunded = inv.refunded /\ InvoiceIsDerived'
      /\ inv.status = "cancelled" => inv'.status = "cancelled"
      /\ inv.status # "cancelled" => inv'.status = DerivedStatus(inv.paid + a, inv.refunded, Price)
    BY <1>1, <1>2, <1>3, NewInvoice
<1>5. ASSUME inv.status \in SETTLED_STATUSES PROVE inv'.status \in SETTLED_STATUSES
    <2>1. inv.paid + a >= Price
        BY <1>1, <1>5 DEF PaymentArrives, InvoiceRow, InvoiceIsDerived, DerivedStatus,
            SETTLED_STATUSES, OPEN_STATUSES
    <2> QED BY <1>1, <1>2, <1>4, <1>5, <2>1 DEF DerivedStatus, SETTLED_STATUSES, InvoiceRow
<1>6. ASSUME inv'.status \in SETTLED_STATUSES, inv.status \notin SETTLED_STATUSES, inv.refunded = 0
      PROVE  inv'.status = "paid" /\ inv.status \in OPEN_STATUSES
    BY <1>1, <1>2, <1>4, <1>6 DEF DerivedStatus, SETTLED_STATUSES, InvoiceRow
<1> QED BY <1>4, <1>5, <1>6

\* A refund never unsettles an invoice.
LEMMA RefundKeeps ==
    ASSUME TypeOK, BookInv, NEW a \in 1..Price, Refund(a)
    PROVE  /\ inv' \in InvoiceRow /\ InvoiceIsDerived' /\ inv'.refunded > 0
           /\ inv.status \in SETTLED_STATUSES => inv'.status \in SETTLED_STATUSES
<1> USE FulfilmentAssumption
<1>1. inv \in InvoiceRow /\ InvoiceIsDerived /\ inv.refunded <= inv.paid
    BY DEF TypeOK, InvoiceRow, BookInv, InvoiceIsDerived
<1>2. inv.refunded + a \in 0..MaxPaid /\ inv.refunded + a <= inv.paid /\ inv.paid \in 0..MaxPaid
    BY <1>1 DEF Refund, InvoiceRow
<1>3. /\ inv' \in InvoiceRow /\ InvoiceIsDerived' /\ inv'.refunded = inv.refunded + a
      /\ inv.status = "cancelled" => inv'.status = "cancelled"
      /\ inv.status # "cancelled" => inv'.status = DerivedStatus(inv.paid, inv.refunded + a, Price)
    BY <1>1, <1>2, NewInvoice DEF Refund
<1>4. ASSUME inv.status \in SETTLED_STATUSES PROVE inv'.status \in SETTLED_STATUSES
    <2>1. inv.paid >= Price
        BY <1>1, <1>2, <1>4 DEF InvoiceIsDerived, InvoiceRow, DerivedStatus, SETTLED_STATUSES
    <2> QED BY <1>1, <1>2, <1>3, <1>4, <2>1 DEF DerivedStatus, SETTLED_STATUSES, InvoiceRow
<1> QED BY <1>1, <1>3, <1>4 DEF InvoiceRow

\* A step of the order that no worker takes part in: whatever it does to the
\* order and the invoice, it moves the order only while nobody is at work.
OrderOnly ==
    /\ inv' \in InvoiceRow /\ queue' \in 0..MaxQueue /\ UNCHANGED <<line, svc, worker, desk, crossed>>
    /\ \/ UNCHANGED <<order, age>>
       \/ /\ order' \in OrderStatus \ {"active", "provisioning"} /\ age' = 0
          /\ \A w \in Workers : ~Busy(w)

LEMMA QueueRows ==
    ASSUME TypeOK, schedule(queue + 1) \/ UNCHANGED queue
    PROVE  queue' \in 0..MaxQueue
BY FulfilmentAssumption DEF TypeOK, schedule

\* Payments, refunds and a cancelled invoice.
LEMMA BillingSide ==
    ASSUME TypeOK, LinesInv, BookInv, BillingStep
    PROVE  OrderOnly /\ BookInv'
<1>1. /\ order \in OrderStatus /\ inv \in InvoiceRow /\ queue \in 0..MaxQueue
      /\ order # "provisioning" => \A w \in Workers : ~Busy(w)
    BY DEF TypeOK, InvoiceRow, LinesInv, OneWorkerAtATime, InFlight
<1>2. ASSUME NEW a \in 1..Price, PaymentArrives(a) PROVE OrderOnly /\ BookInv'
    <2>1. /\ inv' \in InvoiceRow /\ InvoiceIsDerived' /\ inv'.refunded = inv.refunded
          /\ inv.status \in SETTLED_STATUSES => inv'.status \in SETTLED_STATUSES
          /\ inv'.status \in SETTLED_STATUSES /\ inv.status \notin SETTLED_STATUSES /\ inv.refunded = 0 =>
               inv'.status = "paid" /\ inv.status \in OPEN_STATUSES
        BY <1>2, PaymentSettles
    <2>2. UNCHANGED <<line, svc, worker, desk, crossed>> BY <1>2 DEF PaymentArrives
    <2>3. CASE inv'.status = "paid" /\ inv.status \in OPEN_STATUSES /\ order = "pending_payment"
        <3>1. transition("paid") /\ (schedule(queue + 1) \/ UNCHANGED queue)
            BY <1>2, <2>3 DEF PaymentArrives, mark_order_paid
        <3>2. order' = "paid" /\ age' = 0 /\ queue' \in 0..MaxQueue
            BY <3>1, QueueRows DEF transition
        <3>3. OrderOnly BY <1>1, <2>1, <2>2, <2>3, <3>2 DEF OrderOnly, OrderStatus
        <3>4. OrderIsSettled' BY <2>3, <3>2 DEF OrderIsSettled, SETTLED_STATUSES
        <3> QED BY <2>1, <3>3, <3>4 DEF BookInv
    <2>4. CASE ~(inv'.status = "paid" /\ inv.status \in OPEN_STATUSES /\ order = "pending_payment")
        <3>1. UNCHANGED <<order, age, queue>>
            BY <1>2, <2>4 DEF PaymentArrives, mark_order_paid
        <3>2. OrderOnly BY <1>1, <2>1, <2>2, <3>1 DEF OrderOnly
        <3>3. OrderIsSettled' BY <2>1, <2>4, <3>1 DEF OrderIsSettled, BookInv
        <3> QED BY <2>1, <3>2, <3>3 DEF BookInv
    <2> QED BY <2>3, <2>4
<1>3. ASSUME NEW a \in 1..Price, Refund(a) PROVE OrderOnly /\ BookInv'
    <2>1. /\ inv' \in InvoiceRow /\ InvoiceIsDerived' /\ inv'.refunded > 0
          /\ inv.status \in SETTLED_STATUSES => inv'.status \in SETTLED_STATUSES
        BY <1>3, RefundKeeps
    <2>2. UNCHANGED <<order, age, line, svc, queue, worker, desk, crossed>> BY <1>3 DEF Refund
    <2> QED BY <1>1, <2>1, <2>2 DEF OrderOnly, BookInv, OrderIsSettled
<1>4. CASE CancelInvoice
    <2>1. inv' = [inv EXCEPT !.status = "cancelled"] /\ inv.status = "unpaid"
        BY <1>4 DEF CancelInvoice
    <2>2. /\ inv' \in InvoiceRow /\ InvoiceIsDerived' /\ inv'.status = "cancelled"
          /\ inv'.refunded = inv.refunded
        BY <1>1, <2>1 DEF InvoiceRow, BookInv, InvoiceIsDerived
    <2>3. UNCHANGED <<line, svc, queue, worker, desk, crossed>> BY <1>4 DEF CancelInvoice
    <2>4. order \notin {"paid", "provisioning", "active", "failed"}
        BY <2>1 DEF BookInv, OrderIsSettled, SETTLED_STATUSES
    <2>5. UNCHANGED <<order, age>> \/ (order = "pending_payment" /\ order' = "cancelled" /\ age' = 0)
        BY <1>4 DEF CancelInvoice, transition
    <2>6. OrderOnly BY <1>1, <2>2, <2>3, <2>5 DEF OrderOnly, OrderStatus
    <2>7. OrderIsSettled' BY <2>2, <2>4, <2>5 DEF OrderIsSettled, SETTLED_STATUSES
    <2> QED BY <2>2, <2>6, <2>7 DEF BookInv
<1> QED BY <1>2, <1>3, <1>4 DEF BillingStep

\* Holds, cancellation and the sweeper's reset.  An order old enough to be
\* reset has outlived every worker, because their clocks agree.
LEMMA StaffSide ==
    ASSUME TypeOK, LinesInv, BookInv, mark_fraud \/ clear_fraud \/ cancel_order \/ sweep_reset
    PROVE  OrderOnly /\ BookInv'
<1>1. /\ order \in OrderStatus /\ inv \in InvoiceRow /\ queue \in 0..MaxQueue
      /\ order # "provisioning" => \A w \in Workers : ~Busy(w)
    BY DEF TypeOK, InvoiceRow, LinesInv, OneWorkerAtATime, InFlight
<1>2. CASE mark_fraud
    <2>1. order' = "fraud" /\ age' = 0 /\ order # "provisioning"
        BY <1>1, <1>2, StatusTable DEF mark_fraud
    <2>2. UNCHANGED <<inv, line, svc, queue, worker, desk, crossed>> BY <1>2 DEF mark_fraud
    <2> QED BY <1>1, <2>1, <2>2 DEF OrderOnly, OrderStatus, BookInv, OrderIsSettled, InvoiceIsDerived
<1>3. CASE clear_fraud
    <2>1. order = "fraud" /\ UNCHANGED <<inv, line, svc, worker, desk, crossed>> BY <1>3 DEF clear_fraud
    <2>2. queue' \in 0..MaxQueue BY <1>1, <1>3, QueueRows DEF clear_fraud
    <2>3. \/ inv.status \in SETTLED_STATUSES /\ order' = "paid" /\ age' = 0
          \/ inv.status \notin SETTLED_STATUSES /\ order' = "pending_payment" /\ age' = 0
        BY <1>3 DEF clear_fraud, transition
    <2>4. OrderOnly BY <1>1, <2>1, <2>2, <2>3 DEF OrderOnly, OrderStatus
    <2> QED BY <2>1, <2>3, <2>4 DEF BookInv, OrderIsSettled, InvoiceIsDerived
<1>4. CASE cancel_order
    <2>1. /\ order' = "cancelled" /\ age' = 0 /\ order # "provisioning"
          /\ UNCHANGED <<line, svc, queue, worker, desk, crossed>>
        BY <1>4 DEF cancel_order, transition
    <2>2. inv' = inv \/ inv' = [inv EXCEPT !.status = "cancelled"]
        BY <1>4 DEF cancel_order
    <2>3. inv' \in InvoiceRow /\ InvoiceIsDerived'
        BY <1>1, <2>2 DEF InvoiceRow, BookInv, InvoiceIsDerived
    <2> QED BY <1>1, <2>1, <2>3 DEF OrderOnly, OrderStatus, BookInv, OrderIsSettled
<1>5. CASE sweep_reset
    <2>1. /\ order = "provisioning" /\ order' = "failed" /\ age' = 0 /\ age >= StuckAfter
          /\ UNCHANGED <<inv, line, svc, queue, worker, desk, crossed>>
        BY <1>5 DEF sweep_reset, transition, InFlight
    <2>2. \A w \in Workers : ~Busy(w)
        BY <2>1, FulfilmentAssumption DEF TypeOK, LinesInv, ClockAgrees
    <2> QED BY <1>1, <2>1, <2>2 DEF OrderOnly, OrderStatus, BookInv, OrderIsSettled, InvoiceIsDerived
<1> QED BY <1>2, <1>3, <1>4, <1>5

\* Such a step leaves the lines as they are.
LEMMA OrderOnlyStep ==
    ASSUME TypeOK, LinesInv, OrderOnly
    PROVE  TypeOK' /\ LinesInv'
<1>1. UNCHANGED <<line, svc, worker, desk, crossed>> BY DEF OrderOnly
<1>2. TypeOK'
    BY <1>1, FulfilmentAssumption DEF TypeOK, OrderOnly, InvoiceRow
<1>3. OneWorkerAtATime' /\ ClockAgrees'
    BY <1>1 DEF OrderOnly, LinesInv, OneWorkerAtATime, ClockAgrees, Busy, InFlight
<1>4. OneServicePerLine' /\ CopyIsFresh' /\ ServiceInHand' /\ DoneIsDelivered'
    BY <1>1 DEF LinesInv, OneServicePerLine, CopyIsFresh, ServiceInHand, DoneIsDelivered
<1>5. NothingLeft'
    BY <1>1 DEF LinesInv, NothingLeft, OrderOnly
<1> QED BY <1>2, <1>3, <1>4, <1>5 DEF LinesInv

----------------------------------------------------------------------------
(* The worker.                                                              *)

\* One worker's row is rewritten and the order stays as it is: the others are
\* idle, so only the new row has anything to show.
LEMMA WorkerEdit ==
    ASSUME TypeOK, LinesInv, NEW w \in Workers, Busy(w), NEW new \in WorkerRow,
           new.pc # "idle", new.age = worker[w].age, worker' = [worker EXCEPT ![w] = new],
           UNCHANGED <<order, age, inv, queue, desk, crossed>>,
           line' \in [Lines -> LineRow], svc' \in [Lines -> Seq(ServiceRow)],
           \A n \in Lines : Len(svc'[n]) = Len(svc[n]) \/ Len(svc[n]) = 0,
           OneServicePerLine', DoneIsDelivered',
           FreshCopy(new, line'), GoodHand(new, line', svc', crossed'), HonestReport(new, line')
    PROVE  TypeOK' /\ LinesInv'
<1>1. worker \in [Workers -> WorkerRow] BY DEF TypeOK, WorkerRow
<1>2. /\ worker' \in [Workers -> WorkerRow] /\ worker'[w] = new
      /\ \A v \in Workers : v # w => worker'[v] = worker[v]
    BY <1>1
<1>3. \A v \in Workers : v # w => worker[v].pc = "idle" /\ worker'[v].pc = "idle"
    BY <1>2 DEF LinesInv, OneWorkerAtATime, Busy
<1>4. order = "provisioning" /\ worker[w].age = age
    BY DEF LinesInv, OneWorkerAtATime, InFlight, ClockAgrees
<1>5. TypeOK'
    <2>1. worker' \in [Workers -> [pc : {"idle", "load", "line", "complete", "ask", "term", "done", "outcome"},
                               age : 0..TaskLimit, at : 0..NumLines + 1, copy : [Lines -> LineRow],
                               service : Nat, failures : BOOLEAN]]
        BY <1>2 DEF WorkerRow
    <2>2. \A n \in Lines : line'[n].service <= Len(svc'[n])
        BY DEF OneServicePerLine, LineRow
    <2>3. \A n \in Lines : desk'[n] <= Len(svc'[n])
        <3> SUFFICES ASSUME NEW n \in Lines PROVE desk[n] <= Len(svc'[n])
            OBVIOUS
        <3>1. desk[n] \in Nat /\ desk[n] <= Len(svc[n]) /\ svc'[n] \in Seq(ServiceRow) BY DEF TypeOK
        <3>2. Len(svc'[n]) \in Nat BY <3>1, LenProperties
        <3>3. Len(svc'[n]) = Len(svc[n]) \/ Len(svc[n]) = 0 OBVIOUS
        <3> HIDE DEF TypeOK
        <3> QED BY <3>1, <3>2, <3>3
    <2> QED BY <2>1, <2>2, <2>3 DEF TypeOK
<1>6. OneWorkerAtATime' /\ ClockAgrees'
    BY <1>2, <1>3, <1>4 DEF OneWorkerAtATime, ClockAgrees, Busy, InFlight
<1>7. CopyIsFresh' BY <1>2, <1>3 DEF CopyIsFresh, FreshCopy, InHand
<1>8. ServiceInHand' BY <1>2, <1>3 DEF ServiceInHand, GoodHand, InHand
<1>9. NothingLeft' BY <1>2, <1>3, <1>4 DEF NothingLeft, HonestReport
<1> QED BY <1>5, <1>6, <1>7, <1>8, <1>9 DEF LinesInv

\* The row of a worker that goes on to the next line.
LEMMA AdvanceRow ==
    ASSUME NEW row \in WorkerRow, row.at \in Lines, NEW f \in BOOLEAN
    PROVE  LET new == [row EXCEPT !.pc = "line", !.at = row.at + 1, !.service = 0,
                                  !.failures = row.failures \/ f]
           IN  /\ new \in WorkerRow /\ new.pc = "line" /\ new.at = row.at + 1
               /\ new.age = row.age /\ new.copy = row.copy
<1> DEFINE flag == row.failures \/ f
<1>1. flag \in BOOLEAN BY DEF WorkerRow
<1>2. row.at + 1 \in 0..NumLines + 1 BY FulfilmentAssumption DEF Lines
<1> HIDE DEF flag
<1>3. LET new == [row EXCEPT !.pc = "line", !.at = row.at + 1, !.service = 0, !.failures = flag]
      IN  /\ new \in WorkerRow /\ new.pc = "line" /\ new.at = row.at + 1
          /\ new.age = row.age /\ new.copy = row.copy
    BY <1>1, <1>2 DEF WorkerRow
<1> QED BY <1>3 DEF flag

\* Going on to the next line, whatever was written to this one.
LEMMA Advances ==
    ASSUME TypeOK, LinesInv, NEW w \in Workers, worker[w].pc \in {"line"} \cup InHand,
           worker[w].at \in Lines, NEW f \in BOOLEAN, Advance(w, f),
           UNCHANGED <<order, age, inv, queue, desk, crossed>>,
           line' \in [Lines -> LineRow], svc' \in [Lines -> Seq(ServiceRow)],
           \A n \in Lines : Len(svc'[n]) = Len(svc[n]) \/ Len(svc[n]) = 0,
           \A n \in Lines : n # worker[w].at => line'[n] = line[n],
           OneServicePerLine', DoneIsDelivered'
    PROVE  TypeOK' /\ LinesInv'
<1>1. worker \in [Workers -> WorkerRow] /\ worker[w] \in WorkerRow BY DEF TypeOK, WorkerRow
<1> DEFINE new == [worker[w] EXCEPT !.pc = "line", !.at = worker[w].at + 1, !.service = 0,
                                    !.failures = worker[w].failures \/ f]
<1>2. worker' = [worker EXCEPT ![w] = new] BY <1>1 DEF Advance
<1>3. /\ new \in WorkerRow /\ new.pc = "line" /\ new.at = worker[w].at + 1
      /\ new.age = worker[w].age /\ new.copy = worker[w].copy
    BY <1>1, AdvanceRow
<1> HIDE DEF new
<1>4. Busy(w) BY DEF Busy, InHand
<1>5. FreshCopy(worker[w], line) BY DEF LinesInv, CopyIsFresh
<1>6. FreshCopy(new, line')
    BY <1>3, <1>5 DEF FreshCopy, InHand, Lines
<1>7. GoodHand(new, line', svc', crossed') /\ HonestReport(new, line')
    BY <1>3 DEF GoodHand, HonestReport, InHand
<1> QED BY <1>2, <1>3, <1>4, <1>6, <1>7, WorkerEdit

\* Writing one line's status.
LEMMA LineEdit ==
    ASSUME TypeOK, LinesInv, NEW n \in Lines, NEW s \in {"done", "failed"},
           line' = [line EXCEPT ![n].status = s],
           \A m \in Lines : Len(svc'[m]) = Len(svc[m])
    PROVE  /\ line' \in [Lines -> LineRow]
           /\ line'[n].status = s /\ line'[n].service = line[n].service
           /\ \A m \in Lines : m # n => line'[m] = line[m]
           /\ OneServicePerLine'
<1> DEFINE row == [line[n] EXCEPT !.status = s]
<1>1. line \in [Lines -> LineRow] /\ line[n] \in LineRow BY DEF TypeOK
<1>2. row \in LineRow /\ row.status = s /\ row.service = line[n].service BY <1>1 DEF LineRow
<1>3. line' = [line EXCEPT ![n] = row] BY <1>1
<1> HIDE DEF row
<1>4. /\ line' \in [Lines -> LineRow] /\ line'[n] = row
      /\ \A m \in Lines : m # n => line'[m] = line[m]
    BY <1>1, <1>2, <1>3
<1>5. OneServicePerLine' BY <1>2, <1>4 DEF LinesInv, OneServicePerLine
<1> QED BY <1>2, <1>4, <1>5

\* The lines are loaded.
LEMMA LoadLinesStep ==
    ASSUME TypeOK, LinesInv, NEW w \in Workers, LoadLines(w)
    PROVE  TypeOK' /\ LinesInv'
<1>1. worker \in [Workers -> WorkerRow] /\ worker[w] \in WorkerRow BY DEF TypeOK, WorkerRow
<1> DEFINE new == [worker[w] EXCEPT !.pc = "line", !.at = 1, !.copy = line]
<1>2. worker' = [worker EXCEPT ![w] = new] /\ worker[w].pc = "load" BY <1>1 DEF LoadLines
<1>3. line \in [Lines -> LineRow] /\ svc \in [Lines -> Seq(ServiceRow)] BY DEF TypeOK
<1>4. 1 \in 0..NumLines + 1 BY FulfilmentAssumption
<1>5. new \in WorkerRow /\ new.pc = "line" /\ new.at = 1 /\ new.age = worker[w].age /\ new.copy = line
    BY <1>1, <1>3, <1>4 DEF WorkerRow
<1> HIDE DEF new
<1>6. Busy(w) /\ UNCHANGED <<order, age, inv, queue, line, svc, desk, crossed>> BY <1>2 DEF Busy, LoadLines
<1>7. FreshCopy(new, line') /\ GoodHand(new, line', svc', crossed') /\ HonestReport(new, line')
    BY <1>5, <1>6 DEF FreshCopy, GoodHand, HonestReport, InHand
<1>8. OneServicePerLine' /\ DoneIsDelivered'
    BY <1>6 DEF LinesInv, OneServicePerLine, DoneIsDelivered
<1> QED BY <1>2, <1>3, <1>5, <1>6, <1>7, <1>8, WorkerEdit

\* A line the copy says is done.
LEMMA SkipLineStep ==
    ASSUME TypeOK, LinesInv, NEW w \in Workers, SkipLine(w)
    PROVE  TypeOK' /\ LinesInv'
<1>1. /\ Advance(w, FALSE) /\ worker[w].pc = "line" /\ worker[w].at \in Lines
      /\ UNCHANGED <<order, age, inv, queue, line, svc, desk, crossed>>
    BY DEF SkipLine
<1>2. line \in [Lines -> LineRow] /\ svc \in [Lines -> Seq(ServiceRow)] BY DEF TypeOK
<1>3. OneServicePerLine' /\ DoneIsDelivered'
    BY <1>1 DEF LinesInv, OneServicePerLine, DoneIsDelivered
<1> QED BY <1>1, <1>2, <1>3, Advances

\* An add-on: done with its plan, or left as it is.
LEMMA AddonStep ==
    ASSUME TypeOK, LinesInv, NEW w \in Workers, NEW n \in Lines, fulfil_addon(w, n)
    PROVE  TypeOK' /\ LinesInv'
<1>1. /\ worker[w].pc = "line" /\ worker[w].at = n /\ Kind[n] = "addon"
      /\ UNCHANGED <<order, age, inv, svc, queue, desk, crossed>>
    BY DEF fulfil_addon, Todo
<1>2. line \in [Lines -> LineRow] /\ svc \in [Lines -> Seq(ServiceRow)] BY DEF TypeOK
<1>3. Advance(w, FALSE) /\ (UNCHANGED line \/ line' = [line EXCEPT ![n].status = "done"])
    BY <1>1 DEF fulfil_addon, LineDone
<1>4. CASE UNCHANGED line
    <2>1. OneServicePerLine' /\ DoneIsDelivered'
        BY <1>1, <1>4 DEF LinesInv, OneServicePerLine, DoneIsDelivered
    <2> QED BY <1>1, <1>2, <1>3, <1>4, <2>1, Advances
<1>5. CASE line' = [line EXCEPT ![n].status = "done"]
    <2>1. /\ line' \in [Lines -> LineRow] /\ OneServicePerLine'
          /\ line'[n].service = line[n].service
          /\ \A m \in Lines : m # n => line'[m] = line[m]
        BY <1>1, <1>5, LineEdit
    <2>2. DoneIsDelivered' BY <1>1, <2>1 DEF LinesInv, DoneIsDelivered
    <2> QED BY <1>1, <1>2, <1>3, <2>1, <2>2, Advances
<1> QED BY <1>3, <1>4, <1>5

\* A request that is refused.
LEMMA RefusedStep ==
    ASSUME TypeOK, LinesInv, NEW w \in Workers, NEW n \in Lines, RequestRefused(w, n)
    PROVE  TypeOK' /\ LinesInv'
<1>1. /\ worker[w].pc = "line" /\ worker[w].at = n
      /\ line' = [line EXCEPT ![n].status = "failed"] /\ Advance(w, TRUE)
      /\ UNCHANGED <<order, age, inv, svc, queue, desk, crossed>>
    BY DEF RequestRefused, Todo, LineFails
<1>2. svc \in [Lines -> Seq(ServiceRow)] BY DEF TypeOK
<1>3. /\ line' \in [Lines -> LineRow] /\ OneServicePerLine' /\ line'[n].status = "failed"
      /\ \A m \in Lines : m # n => line'[m] = line[m]
    BY <1>1, LineEdit
<1>4. DoneIsDelivered' BY <1>1, <1>3 DEF LinesInv, DoneIsDelivered
<1> QED BY <1>1, <1>2, <1>3, <1>4, Advances

\* Rewriting the only element of a sequence.
LEMMA OnlyElement ==
    ASSUME NEW S, NEW q \in Seq(S), Len(q) = 1, NEW r \in S
    PROVE  LET t == [q EXCEPT ![1] = r] IN t \in Seq(S) /\ Len(t) = 1 /\ t[1] = r
<1> DEFINE t == [q EXCEPT ![1] = r]
<1>1. 1 \in 1..Len(q) OBVIOUS
<1>2. t \in Seq(S) /\ Len(t) = Len(q) /\ \A j \in 1..Len(q) : t[j] = IF j = 1 THEN r ELSE q[j]
    BY <1>1, ExceptSeq
<1> HIDE DEF t
<1>3. t \in Seq(S) /\ Len(t) = 1 /\ t[1] = r BY <1>1, <1>2
<1> QED BY <1>3 DEF t

\* Rewriting the one service of a line.
LEMMA ServiceEdit ==
    ASSUME svc \in [Lines -> Seq(ServiceRow)], NEW n \in Lines, Len(svc[n]) = 1, NEW r \in ServiceRow,
           svc' = [svc EXCEPT ![n][1] = r]
    PROVE  /\ svc' \in [Lines -> Seq(ServiceRow)] /\ svc'[n][1] = r
           /\ \A m \in Lines : Len(svc'[m]) = Len(svc[m])
           /\ \A m \in Lines : m # n => svc'[m] = svc[m]
<1> DEFINE t == [svc[n] EXCEPT ![1] = r]
<1>1. svc[n] \in Seq(ServiceRow) OBVIOUS
<1>2. t \in Seq(ServiceRow) /\ Len(t) = Len(svc[n]) /\ t[1] = r BY <1>1, OnlyElement
<1>3. svc' = [svc EXCEPT ![n] = t] BY <1>1
<1> HIDE DEF t
<1> QED BY <1>2, <1>3

\* The service is made: the copy says the line has none, and the copy is
\* right, so this is its first.
LEMMA RequestStep ==
    ASSUME TypeOK, LinesInv, NEW w \in Workers, NEW n \in Lines, RequestService(w, n)
    PROVE  TypeOK' /\ LinesInv'
<1>1. worker \in [Workers -> WorkerRow] /\ worker[w] \in WorkerRow BY DEF TypeOK, WorkerRow
<1>2. /\ line \in [Lines -> LineRow] /\ svc \in [Lines -> Seq(ServiceRow)]
      /\ line[n] \in LineRow /\ svc[n] \in Seq(ServiceRow)
    BY DEF TypeOK
<1>3. /\ worker[w].pc = "line" /\ worker[w].at = n /\ Kind[n] # "addon"
      /\ worker[w].copy[n].status # "done" /\ worker[w].copy[n].service = 0
      /\ UNCHANGED <<order, age, inv, queue, desk, crossed>>
    BY DEF RequestService, Todo, NeedsService
<1>4. /\ worker[w].copy[n] = line[n]
      /\ \A m \in Lines : m > n => worker[w].copy[m] = line[m]
    BY <1>3 DEF LinesInv, CopyIsFresh, FreshCopy, Lines
<1>5. Len(svc[n]) = 0 BY <1>3, <1>4 DEF LinesInv, OneServicePerLine
<1> DEFINE made == [status |-> "pending", term |-> FALSE]
           list == Append(svc[n], made)
           row == [line[n] EXCEPT !.service = 1]
           new == [worker[w] EXCEPT !.pc = "complete", !.service = 1]
<1>6. made \in ServiceRow BY DEF ServiceRow
<1>7. list \in Seq(ServiceRow) /\ Len(list) = 1 BY <1>2, <1>5, <1>6
<1>8. svc' = [svc EXCEPT ![n] = list] BY <1>2 DEF RequestService
<1>9. row \in LineRow /\ row.service = 1 /\ row.status = line[n].status BY <1>2 DEF LineRow
<1>10. line' = [line EXCEPT ![n] = row] BY <1>2, <1>5 DEF RequestService
<1>11. worker' = [worker EXCEPT ![w] = new]
    <2>1. worker' = [worker EXCEPT ![w].pc = "complete", ![w].service = 1] BY <1>5 DEF RequestService
    <2> QED BY <1>1, <2>1
<1>12. /\ new \in WorkerRow /\ new.pc = "complete" /\ new.age = worker[w].age /\ new.at = n
       /\ new.copy = worker[w].copy /\ new.service = 1
    BY <1>1, <1>3 DEF WorkerRow
<1> HIDE DEF made, list, row, new
<1>13. /\ svc' \in [Lines -> Seq(ServiceRow)] /\ svc'[n] = list
       /\ \A m \in Lines : m # n => svc'[m] = svc[m]
    BY <1>2, <1>7, <1>8
<1>14. /\ line' \in [Lines -> LineRow] /\ line'[n] = row
       /\ \A m \in Lines : m # n => line'[m] = line[m]
    BY <1>2, <1>9, <1>10
<1>15. OneServicePerLine'
    <2>1. Len(svc'[n]) = 1 /\ line'[n].service = 1 BY <1>7, <1>9, <1>13, <1>14
    <2>2. 1 <= 1 OBVIOUS
    <2>3. Len(svc'[n]) <= 1 /\ line'[n].service = Len(svc'[n]) BY <2>1, <2>2, Zenon
    <2>4. \A m \in Lines : m # n => Len(svc'[m]) <= 1 /\ line'[m].service = Len(svc'[m])
        BY <1>13, <1>14 DEF LinesInv, OneServicePerLine
    <2> QED BY <2>3, <2>4 DEF OneServicePerLine
<1>16. DoneIsDelivered'
    BY <1>3, <1>4, <1>9, <1>13, <1>14 DEF LinesInv, DoneIsDelivered
<1>17. Busy(w) BY <1>3 DEF Busy
<1>18. FreshCopy(new, line') BY <1>4, <1>12, <1>14 DEF FreshCopy, InHand, Lines
<1>19. GoodHand(new, line', svc', crossed')
    BY <1>3, <1>4, <1>7, <1>9, <1>12, <1>13, <1>14 DEF GoodHand, InHand
<1>20. HonestReport(new, line') BY <1>12 DEF HonestReport
<1>21. \A m \in Lines : Len(svc'[m]) = Len(svc[m]) \/ Len(svc[m]) = 0 BY <1>5, <1>13
<1> QED BY <1>3, <1>11, <1>12, <1>13, <1>14, <1>15, <1>16, <1>17, <1>18, <1>19, <1>20, <1>21, WorkerEdit

\* The service the line already has is taken up again.
LEMMA ReuseStep ==
    ASSUME TypeOK, LinesInv, NEW w \in Workers, NEW n \in Lines, ReuseService(w, n)
    PROVE  TypeOK' /\ LinesInv'
<1>1. worker \in [Workers -> WorkerRow] /\ worker[w] \in WorkerRow BY DEF TypeOK, WorkerRow
<1>2. line \in [Lines -> LineRow] /\ svc \in [Lines -> Seq(ServiceRow)] BY DEF TypeOK
<1>3. /\ worker[w].pc = "line" /\ worker[w].at = n /\ Kind[n] # "addon"
      /\ worker[w].copy[n].status # "done" /\ worker[w].copy[n].service # 0
      /\ UNCHANGED <<order, age, inv, queue, line, svc, desk, crossed>>
    BY DEF ReuseService, Todo, NeedsService
<1>4. /\ worker[w].copy[n] = line[n]
      /\ \A m \in Lines : m > n => worker[w].copy[m] = line[m]
    BY <1>3 DEF LinesInv, CopyIsFresh, FreshCopy, Lines
<1>5. Len(svc[n]) = 1 /\ worker[w].copy[n].service = 1
    <2>1. line[n].service = Len(svc[n]) /\ Len(svc[n]) <= 1 BY DEF LinesInv, OneServicePerLine
    <2>2. line[n].service \in Nat BY <1>2 DEF LineRow
    <2>3. line[n].service # 0 BY <1>3, <1>4
    <2>4. \A x \in Nat : x <= 1 /\ x # 0 => x = 1 OBVIOUS
    <2>5. line[n].service <= 1 BY <2>1, Zenon
    <2>6. line[n].service = 1 BY <2>2, <2>3, <2>4, <2>5, Zenon
    <2> QED BY <1>4, <2>1, <2>6
<1> DEFINE new == [worker[w] EXCEPT !.pc = "complete", !.service = 1]
<1>6. worker' = [worker EXCEPT ![w] = new] BY <1>1, <1>5 DEF ReuseService
<1>7. /\ new \in WorkerRow /\ new.pc = "complete" /\ new.age = worker[w].age /\ new.at = n
      /\ new.copy = worker[w].copy /\ new.service = 1
    BY <1>1, <1>3 DEF WorkerRow
<1> HIDE DEF new
<1>8. OneServicePerLine' /\ DoneIsDelivered'
    BY <1>3 DEF LinesInv, OneServicePerLine, DoneIsDelivered
<1>9. Busy(w) BY <1>3 DEF Busy
<1>10. FreshCopy(new, line') BY <1>3, <1>4, <1>7 DEF FreshCopy, InHand, Lines
<1>11. GoodHand(new, line', svc', crossed') BY <1>3, <1>4, <1>5, <1>7 DEF GoodHand, InHand
<1>12. HonestReport(new, line') BY <1>7 DEF HonestReport
<1> QED BY <1>2, <1>3, <1>6, <1>7, <1>8, <1>9, <1>10, <1>11, <1>12, WorkerEdit

\* What a worker with a service in hand knows, and a line it is not done with
\* may change without touching what is done.
LEMMA HandFacts ==
    ASSUME TypeOK, LinesInv, NEW w \in Workers, worker[w].pc \in InHand
    PROVE  /\ worker[w] \in WorkerRow /\ worker \in [Workers -> WorkerRow] /\ Busy(w)
           /\ worker[w].at \in Lines /\ Kind[worker[w].at] # "addon"
           /\ line[worker[w].at].status # "done" /\ line[worker[w].at].service = 1
           /\ worker[w].service = 1 /\ Len(svc[worker[w].at]) = 1
           /\ svc[worker[w].at][1] \in ServiceRow
           /\ GoodHand(worker[w], line, svc, crossed) /\ FreshCopy(worker[w], line)
<1>1. worker[w] \in WorkerRow /\ worker \in [Workers -> WorkerRow] BY DEF TypeOK, WorkerRow
<1>2. Busy(w) BY DEF Busy, InHand
<1>3. GoodHand(worker[w], line, svc, crossed) /\ FreshCopy(worker[w], line)
    BY DEF LinesInv, ServiceInHand, CopyIsFresh
<1>4. /\ worker[w].at \in Lines /\ Kind[worker[w].at] # "addon"
      /\ line[worker[w].at].status # "done"
      /\ worker[w].service = 1 /\ Len(svc[worker[w].at]) = 1
    BY <1>3 DEF GoodHand
<1>5. line[worker[w].at].service = 1 BY <1>4 DEF LinesInv, OneServicePerLine
<1>6. svc[worker[w].at] \in Seq(ServiceRow) BY <1>4 DEF TypeOK
<1>7. svc[worker[w].at][1] \in ServiceRow
    <2>1. 1 \in 1..Len(svc[worker[w].at]) BY <1>4, <1>6
    <2> QED BY <1>6, <2>1, ElementOfSeq
<1> QED BY <1>1, <1>2, <1>3, <1>4, <1>5, <1>7

LEMMA UndoneLine ==
    ASSUME LinesInv, NEW n \in Lines, line[n].status # "done", crossed' = crossed,
           \A m \in Lines : m # n => svc'[m] = svc[m] /\ line'[m] = line[m],
           line'[n].status # "done"
    PROVE  DoneIsDelivered'
BY DEF LinesInv, DoneIsDelivered

\* The service in hand is taken a step further.
LEMMA HandMoves ==
    ASSUME TypeOK, LinesInv, NEW w \in Workers, worker[w].pc \in InHand, NEW p \in InHand,
           worker' = [worker EXCEPT ![w].pc = p], UNCHANGED <<order, age, inv, queue, line, desk, crossed>>,
           svc' \in [Lines -> Seq(ServiceRow)],
           \A m \in Lines : Len(svc'[m]) = Len(svc[m]),
           \A m \in Lines : m # worker[w].at => svc'[m] = svc[m],
           Kind[worker[w].at] = "hosting" =>
              /\ p \in {"term", "done"} => \/ svc'[worker[w].at][1].status = "active"
                                         \/ worker[w].at \in crossed
              /\ p = "done" => svc'[worker[w].at][1].term
    PROVE  TypeOK' /\ LinesInv'
<1>1. /\ worker[w] \in WorkerRow /\ worker \in [Workers -> WorkerRow] /\ Busy(w)
      /\ worker[w].at \in Lines /\ Kind[worker[w].at] # "addon"
      /\ line[worker[w].at].status # "done"
      /\ worker[w].service = 1 /\ Len(svc[worker[w].at]) = 1 /\ FreshCopy(worker[w], line)
    BY HandFacts
<1> DEFINE new == [worker[w] EXCEPT !.pc = p]
<1>2. worker' = [worker EXCEPT ![w] = new] BY <1>1
<1>3. /\ new \in WorkerRow /\ new.pc = p /\ new.age = worker[w].age /\ new.at = worker[w].at
      /\ new.copy = worker[w].copy /\ new.service = worker[w].service
    BY <1>1 DEF WorkerRow, InHand
<1> HIDE DEF new
<1>4. line \in [Lines -> LineRow] BY DEF TypeOK
<1>5. OneServicePerLine' BY DEF LinesInv, OneServicePerLine
<1>6. DoneIsDelivered' BY <1>1, UndoneLine
<1>7. FreshCopy(new, line') BY <1>1, <1>3 DEF FreshCopy, InHand
<1>8. GoodHand(new, line', svc', crossed') BY <1>1, <1>3 DEF GoodHand
<1>9. new.pc # "idle" /\ HonestReport(new, line') BY <1>3 DEF HonestReport, InHand
<1> QED BY <1>1, <1>2, <1>3, <1>4, <1>5, <1>6, <1>7, <1>8, <1>9, WorkerEdit

\* A line whose service failed, or will not be asked for.
LEMMA FailsStep ==
    ASSUME TypeOK, LinesInv, NEW w \in Workers, worker[w].pc \in InHand, LineFails(w),
           UNCHANGED <<order, age, inv, queue, desk, crossed>>,
           svc' \in [Lines -> Seq(ServiceRow)],
           \A m \in Lines : Len(svc'[m]) = Len(svc[m]),
           \A m \in Lines : m # worker[w].at => svc'[m] = svc[m]
    PROVE  TypeOK' /\ LinesInv'
<1> DEFINE n == worker[w].at
<1>1. line' = [line EXCEPT ![n].status = "failed"] /\ Advance(w, TRUE)
    BY DEF LineFails
<1>2. n \in Lines /\ line[n].status # "done"
    BY HandFacts
<1>3. /\ line' \in [Lines -> LineRow] /\ OneServicePerLine' /\ line'[n].status = "failed"
      /\ \A m \in Lines : m # n => line'[m] = line[m]
    BY <1>1, <1>2, LineEdit
<1>4. DoneIsDelivered' BY <1>2, <1>3, UndoneLine
<1> QED BY <1>1, <1>2, <1>3, <1>4, Advances

\* The row is looked at before anybody is asked.
LEMMA CompleteStep ==
    ASSUME TypeOK, LinesInv, NEW w \in Workers, NEW n \in Lines, CompleteService(w, n)
    PROVE  TypeOK' /\ LinesInv'
<1>1. /\ worker[w].pc = "complete" /\ worker[w].at = n
      /\ UNCHANGED <<order, age, inv, svc, queue, desk, crossed>>
    BY DEF CompleteService
<1>2. worker[w].service = 1 /\ worker[w].pc \in InHand /\ svc \in [Lines -> Seq(ServiceRow)]
    BY <1>1, HandFacts DEF InHand, TypeOK
<1>3. CASE /\ Kind[n] = "domain_register" \/ svc[n][1].status = "active"
           /\ worker' = [worker EXCEPT ![w].pc = "term"] /\ UNCHANGED line
    BY <1>1, <1>2, <1>3, HandMoves DEF InHand
<1>4. CASE worker' = [worker EXCEPT ![w].pc = "ask"] /\ UNCHANGED line
    BY <1>1, <1>2, <1>4, HandMoves DEF InHand
<1>5. CASE LineFails(w)
    BY <1>1, <1>2, <1>5, FailsStep
<1> QED BY <1>1, <1>2, <1>3, <1>4, <1>5 DEF CompleteService

\* The server or the registrar agrees or refuses.
LEMMA RecordStep ==
    ASSUME TypeOK, LinesInv, NEW w \in Workers, NEW n \in Lines, RecordOutcome(w, n)
    PROVE  TypeOK' /\ LinesInv' /\ UNCHANGED <<order, inv>>
           /\ \A m \in Lines : Len(svc'[m]) = Len(svc[m])
<1>1. worker[w].pc = "ask" /\ worker[w].at = n /\ UNCHANGED <<order, age, inv, queue, desk, crossed>>
    BY DEF RecordOutcome
<1>2. /\ worker[w].service = 1 /\ Len(svc[n]) = 1 /\ svc[n][1] \in ServiceRow
      /\ worker[w].pc \in InHand
    BY <1>1, HandFacts DEF InHand
<1>3. svc \in [Lines -> Seq(ServiceRow)] /\ svc[n] \in Seq(ServiceRow) BY DEF TypeOK
<1>4. PICK x \in {"active", "pending", "failed"} :
         /\ svc' = [svc EXCEPT ![n][1].status = x]
         /\ x = "pending" => Kind[n] = "domain_transfer"
         /\ \/ x # "failed" /\ worker' = [worker EXCEPT ![w].pc = "term"] /\ UNCHANGED line
            \/ LineFails(w)
    <2>1. ASSUME NEW st \in {"active"} \cup (IF Kind[n] = "domain_transfer" THEN {"pending"} ELSE {}),
                 svc' = [svc EXCEPT ![n][1].status = st],
                 worker' = [worker EXCEPT ![w].pc = "term"], UNCHANGED line
          PROVE  \E x \in {"active", "pending", "failed"} :
                     /\ svc' = [svc EXCEPT ![n][1].status = x]
                     /\ x = "pending" => Kind[n] = "domain_transfer"
                     /\ \/ x # "failed" /\ worker' = [worker EXCEPT ![w].pc = "term"] /\ UNCHANGED line
                        \/ LineFails(w)
        BY <2>1
    <2>2. ASSUME svc' = [svc EXCEPT ![n][1].status = "failed"], LineFails(w)
          PROVE  \E x \in {"active", "pending", "failed"} :
                     /\ svc' = [svc EXCEPT ![n][1].status = x]
                     /\ x = "pending" => Kind[n] = "domain_transfer"
                     /\ \/ x # "failed" /\ worker' = [worker EXCEPT ![w].pc = "term"] /\ UNCHANGED line
                        \/ LineFails(w)
        BY <2>2
    <2> QED BY <1>2, <2>1, <2>2 DEF RecordOutcome
<1> DEFINE r == [svc[n][1] EXCEPT !.status = x]
<1>5. r \in ServiceRow /\ r.status = x BY <1>2 DEF ServiceRow
<1>6. svc' = [svc EXCEPT ![n][1] = r] BY <1>3, <1>4
<1> HIDE DEF r
<1>7. /\ svc' \in [Lines -> Seq(ServiceRow)] /\ svc'[n][1].status = x
      /\ \A m \in Lines : Len(svc'[m]) = Len(svc[m])
      /\ \A m \in Lines : m # n => svc'[m] = svc[m]
    BY <1>2, <1>3, <1>5, <1>6, ServiceEdit
<1>8. CASE x # "failed" /\ worker' = [worker EXCEPT ![w].pc = "term"] /\ UNCHANGED line
    <2>1. Kind[n] = "hosting" => svc'[n][1].status = "active" BY <1>4, <1>7, <1>8
    <2>2. TypeOK' /\ LinesInv' BY <1>1, <1>2, <1>7, <1>8, <2>1, HandMoves DEF InHand
    <2> QED BY <1>1, <1>7, <2>2
<1>9. CASE LineFails(w)
    <2>1. TypeOK' /\ LinesInv' BY <1>1, <1>2, <1>7, <1>9, FailsStep
    <2> QED BY <1>1, <1>7, <2>1
<1> QED BY <1>4, <1>8, <1>9

\* The first paid term begins.
LEMMA StartTermStep ==
    ASSUME TypeOK, LinesInv, NEW w \in Workers, NEW n \in Lines, StartTerm(w, n)
    PROVE  TypeOK' /\ LinesInv'
<1>1. /\ worker[w].pc = "term" /\ worker[w].at = n /\ UNCHANGED <<order, age, inv, queue, line, desk, crossed>>
      /\ worker' = [worker EXCEPT ![w].pc = "done"]
    BY DEF StartTerm
<1>2. /\ worker[w].service = 1 /\ Len(svc[n]) = 1 /\ svc[n][1] \in ServiceRow
      /\ Kind[n] = "hosting" => svc[n][1].status = "active" \/ n \in crossed
    BY <1>1, HandFacts DEF InHand, GoodHand
<1>3. svc \in [Lines -> Seq(ServiceRow)] /\ svc[n] \in Seq(ServiceRow) BY DEF TypeOK
<1>4. CASE Kind[n] # "hosting"
    <2>1. svc' = svc BY <1>4 DEF StartTerm
    <2> QED BY <1>1, <1>3, <1>4, <2>1, HandMoves DEF InHand
<1>5. CASE Kind[n] = "hosting"
    <2> DEFINE r == [svc[n][1] EXCEPT !.term = TRUE]
    <2>1. r \in ServiceRow /\ r.term = TRUE /\ r.status = svc[n][1].status BY <1>2 DEF ServiceRow
    <2>2. svc' = [svc EXCEPT ![n][1].term = TRUE] BY <1>2, <1>5 DEF StartTerm
    <2>3. svc' = [svc EXCEPT ![n][1] = r] BY <1>3, <2>2
    <2> HIDE DEF r
    <2>4. /\ svc' \in [Lines -> Seq(ServiceRow)] /\ svc'[n][1] = r
          /\ \A m \in Lines : Len(svc'[m]) = Len(svc[m])
          /\ \A m \in Lines : m # n => svc'[m] = svc[m]
        BY <1>2, <1>3, <2>1, <2>3, ServiceEdit
    <2> QED BY <1>1, <1>2, <1>5, <2>1, <2>4, HandMoves DEF InHand
<1> QED BY <1>4, <1>5

\* The line is done.
LEMMA MarkDoneStep ==
    ASSUME TypeOK, LinesInv, NEW w \in Workers, MarkDone(w)
    PROVE  TypeOK' /\ LinesInv'
<1> DEFINE n == worker[w].at
<1>1. /\ worker[w].pc = "done" /\ UNCHANGED <<order, age, inv, svc, queue, desk, crossed>>
      /\ line' = [line EXCEPT ![n].status = "done"] /\ Advance(w, FALSE)
    BY DEF MarkDone, LineDone
<1>2. /\ n \in Lines /\ line[n].service = 1
      /\ Kind[n] = "hosting" => (svc[n][1].status = "active" \/ n \in crossed) /\ svc[n][1].term
    BY <1>1, HandFacts DEF InHand, GoodHand
<1>3. svc \in [Lines -> Seq(ServiceRow)] BY DEF TypeOK
<1>4. /\ line' \in [Lines -> LineRow] /\ OneServicePerLine' /\ line'[n].service = line[n].service
      /\ \A m \in Lines : m # n => line'[m] = line[m]
    BY <1>1, <1>2, LineEdit
<1>5. DoneIsDelivered' BY <1>1, <1>2, <1>4 DEF LinesInv, DoneIsDelivered
<1> QED BY <1>1, <1>2, <1>3, <1>4, <1>5, Advances DEF InHand

\* The lines are looked at once more.
LEMMA CheckLinesStep ==
    ASSUME TypeOK, LinesInv, NEW w \in Workers, CheckLines(w)
    PROVE  TypeOK' /\ LinesInv'
<1>1. worker \in [Workers -> WorkerRow] /\ worker[w] \in WorkerRow BY DEF TypeOK, WorkerRow
<1> DEFINE left == \E n \in Lines : line[n].status # "done"
           flag == worker[w].failures \/ left
           new == [worker[w] EXCEPT !.pc = "outcome", !.failures = flag]
<1>2. worker[w].pc = "line" /\ UNCHANGED <<order, age, inv, line, svc, queue, desk, crossed>> BY DEF CheckLines
<1>3. worker' = [worker EXCEPT ![w] = new] BY <1>1 DEF CheckLines
<1>4. flag \in BOOLEAN /\ (left => flag) BY <1>1 DEF WorkerRow
<1> HIDE DEF flag
<1>5. new \in WorkerRow /\ new.pc = "outcome" /\ new.age = worker[w].age /\ new.failures = flag
    BY <1>1, <1>4 DEF WorkerRow
<1> HIDE DEF new
<1>6. HonestReport(new, line') BY <1>2, <1>4, <1>5 DEF HonestReport
<1>7. Busy(w) /\ FreshCopy(new, line') /\ GoodHand(new, line', svc', crossed')
    BY <1>2, <1>5 DEF Busy, FreshCopy, GoodHand, InHand
<1>8. line \in [Lines -> LineRow] /\ svc \in [Lines -> Seq(ServiceRow)] BY DEF TypeOK
<1>9. OneServicePerLine' /\ DoneIsDelivered'
    BY <1>2 DEF LinesInv, OneServicePerLine, DoneIsDelivered
<1> QED BY <1>2, <1>3, <1>5, <1>6, <1>7, <1>8, <1>9, WorkerEdit

LEMMA IdleRow == Idle \in WorkerRow /\ Idle.pc = "idle"
<1>1. [n \in Lines |-> [status |-> "pending", service |-> 0]] \in [Lines -> LineRow] BY DEF LineRow
<1> QED BY <1>1, FulfilmentAssumption DEF Idle, WorkerRow

\* The one worker stops, having written the outcome or having died.
LEMMA WorkerStops ==
    ASSUME TypeOK, LinesInv, NEW w \in Workers, Busy(w), worker' = [worker EXCEPT ![w] = Idle],
           UNCHANGED <<inv, line, svc, desk, crossed>>, queue' \in 0..MaxQueue,
           order' \in OrderStatus, age' \in 0..StuckAfter,
           order' = "active" => \A n \in Lines : line[n].status = "done"
    PROVE  TypeOK' /\ LinesInv'
<1>1. worker \in [Workers -> WorkerRow] BY DEF TypeOK, WorkerRow
<1>2. worker' \in [Workers -> WorkerRow] /\ \A v \in Workers : worker'[v].pc = "idle"
    BY <1>1, IdleRow DEF LinesInv, OneWorkerAtATime, Busy
<1>3. TypeOK' BY <1>2 DEF TypeOK, WorkerRow
<1>4. OneWorkerAtATime' /\ ClockAgrees'
    BY <1>2 DEF OneWorkerAtATime, ClockAgrees, Busy
<1>5. CopyIsFresh' /\ ServiceInHand'
    BY <1>2 DEF CopyIsFresh, FreshCopy, ServiceInHand, GoodHand, InHand
<1>6. OneServicePerLine' /\ DoneIsDelivered'
    BY DEF LinesInv, OneServicePerLine, DoneIsDelivered
<1>7. NothingLeft' BY <1>2 DEF NothingLeft, HonestReport
<1> QED BY <1>3, <1>4, <1>5, <1>6, <1>7 DEF LinesInv

LEMMA OutcomeStep ==
    ASSUME TypeOK, LinesInv, NEW w \in Workers, Outcome(w)
    PROVE  TypeOK' /\ LinesInv' /\ order = "provisioning" /\ order' \in {"failed", "active"}
<1>1. /\ worker[w].pc = "outcome" /\ worker' = [worker EXCEPT ![w] = Idle]
      /\ UNCHANGED <<inv, line, svc, queue, desk, crossed>>
    BY DEF Outcome
<1>2. Busy(w) /\ order = "provisioning" BY <1>1 DEF Busy, LinesInv, OneWorkerAtATime, InFlight
<1>3. order' = (IF worker[w].failures THEN "failed" ELSE "active") /\ age' = 0
    BY <1>2 DEF Outcome, InFlight, transition
<1>4. HonestReport(worker[w], line) BY DEF LinesInv, NothingLeft
<1>5. order' = "active" => \A n \in Lines : line[n].status = "done"
    BY <1>1, <1>3, <1>4 DEF HonestReport
<1>6. order' \in OrderStatus /\ age' \in 0..StuckAfter /\ queue' \in 0..MaxQueue
    BY <1>1, <1>3, FulfilmentAssumption DEF OrderStatus, TypeOK
<1> QED BY <1>1, <1>2, <1>3, <1>5, <1>6, WorkerStops

LEMMA DiesStep ==
    ASSUME TypeOK, LinesInv, NEW w \in Workers, WorkerDies(w)
    PROVE  TypeOK' /\ LinesInv'
<1>1. Busy(w) /\ worker' = [worker EXCEPT ![w] = Idle] /\ UNCHANGED <<order, age, inv, line, svc, desk, crossed>>
    BY DEF WorkerDies
<1>2. queue' \in 0..MaxQueue BY QueueRows DEF WorkerDies
<1>3. order' = "active" => \A n \in Lines : line[n].status = "done"
    BY <1>1 DEF LinesInv, NothingLeft
<1>4. order' \in OrderStatus /\ age' \in 0..StuckAfter BY <1>1 DEF TypeOK
<1> QED BY <1>1, <1>2, <1>3, <1>4, WorkerStops

\* The claim finds nobody at work: the order is not in flight.
LEMMA ClaimStep ==
    ASSUME TypeOK, LinesInv, NEW w \in Workers, Claim(w), queue' \in 0..MaxQueue
    PROVE  TypeOK' /\ LinesInv' /\ order \in {"paid", "failed"} /\ order' = "provisioning"
<1>1. worker \in [Workers -> WorkerRow] BY DEF TypeOK, WorkerRow
<1>2. /\ order \in {"paid", "failed"} /\ order' = "provisioning" /\ age' = 0
      /\ UNCHANGED <<inv, line, svc, desk, crossed>>
    BY DEF Claim, Claimable
<1>3. \A v \in Workers : worker[v].pc = "idle"
    BY <1>2 DEF LinesInv, OneWorkerAtATime, InFlight, Busy
<1> DEFINE new == [Idle EXCEPT !.pc = "load"]
<1>4. worker' = [worker EXCEPT ![w] = new] BY DEF Claim
<1>5. new \in WorkerRow /\ new.pc = "load" BY IdleRow DEF WorkerRow
<1>6. new.age = 0 BY IdleRow DEF WorkerRow, Idle
<1> HIDE DEF new
<1>7. /\ worker' \in [Workers -> WorkerRow] /\ worker'[w] = new
      /\ \A v \in Workers : v # w => worker'[v].pc = "idle"
    BY <1>1, <1>3, <1>4, <1>5
<1>8. TypeOK' BY <1>2, <1>7, FulfilmentAssumption DEF TypeOK, WorkerRow, OrderStatus
<1>9. OneWorkerAtATime' /\ ClockAgrees'
    BY <1>2, <1>6, <1>7 DEF OneWorkerAtATime, ClockAgrees, Busy, InFlight
<1>10. CopyIsFresh' /\ ServiceInHand'
    BY <1>5, <1>7 DEF CopyIsFresh, FreshCopy, ServiceInHand, GoodHand, InHand
<1>11. OneServicePerLine' /\ DoneIsDelivered'
    BY <1>2 DEF LinesInv, OneServicePerLine, DoneIsDelivered
<1>12. NothingLeft' BY <1>2, <1>5, <1>7 DEF NothingLeft, HonestReport
<1> QED BY <1>2, <1>8, <1>9, <1>10, <1>11, <1>12 DEF LinesInv

\* Both clocks tick.
LEMMA TickStep ==
    ASSUME TypeOK, LinesInv, Tick
    PROVE  TypeOK' /\ LinesInv'
<1>1. worker \in [Workers -> WorkerRow] BY DEF TypeOK, WorkerRow
<1>2. /\ age < StuckAfter /\ age' = age + 1 /\ UNCHANGED <<order, inv, line, svc, queue, desk, crossed>>
      /\ worker' = [w \in Workers |-> IF Busy(w) THEN [worker[w] EXCEPT !.age = @ + 1] ELSE worker[w]]
      /\ \A w \in Workers : Busy(w) => worker[w].age < TaskLimit
    BY DEF Tick
<1>3. ASSUME NEW w \in Workers
      PROVE  /\ worker'[w] \in WorkerRow /\ worker'[w].pc = worker[w].pc /\ worker'[w].at = worker[w].at
             /\ worker'[w].copy = worker[w].copy /\ worker'[w].service = worker[w].service
             /\ worker'[w].failures = worker[w].failures
             /\ Busy(w) => worker'[w].age = worker[w].age + 1
    <2>1. CASE ~Busy(w) BY <1>1, <1>2, <2>1
    <2>2. CASE Busy(w)
        <3>1. worker'[w] = [worker[w] EXCEPT !.age = worker[w].age + 1] BY <1>2, <2>2
        <3>2. worker[w].age + 1 \in 0..TaskLimit
            BY <1>1, <1>2, <2>2, FulfilmentAssumption DEF WorkerRow
        <3> QED BY <1>1, <3>1, <3>2 DEF WorkerRow
    <2> QED BY <2>1, <2>2
<1>4. worker' \in [Workers -> WorkerRow] BY <1>2, <1>3
<1>5. TypeOK'
    <2>1. age' \in 0..StuckAfter BY <1>2, FulfilmentAssumption DEF TypeOK
    <2> QED BY <1>2, <1>4, <2>1 DEF TypeOK, WorkerRow
<1>6. OneWorkerAtATime' /\ ClockAgrees'
    BY <1>2, <1>3 DEF LinesInv, OneWorkerAtATime, ClockAgrees, Busy, InFlight
<1>7. CopyIsFresh' BY <1>2, <1>3 DEF LinesInv, CopyIsFresh, FreshCopy
<1>8. ServiceInHand' BY <1>2, <1>3 DEF LinesInv, ServiceInHand, GoodHand
<1>9. OneServicePerLine' /\ DoneIsDelivered'
    BY <1>2 DEF LinesInv, OneServicePerLine, DoneIsDelivered
<1>10. NothingLeft' BY <1>2, <1>3 DEF LinesInv, NothingLeft, HonestReport
<1> QED BY <1>5, <1>6, <1>7, <1>8, <1>9, <1>10 DEF LinesInv

\* Staff open a request.
LEMMA OpenRequestStep ==
    ASSUME TypeOK, LinesInv, NEW n \in Lines, OpenRequest(n)
    PROVE  TypeOK' /\ LinesInv'
<1>1. PICK s \in DOMAIN svc[n] :
        /\ desk' = [desk EXCEPT ![n] = s]
        /\ UNCHANGED <<order, age, inv, line, svc, queue, worker, crossed>>
    BY DEF OpenRequest
<1>2. svc[n] \in Seq(ServiceRow) /\ desk \in [Lines -> Nat] BY DEF TypeOK
<1>3. s \in Nat /\ s <= Len(svc[n])
    <2>1. s \in 1..Len(svc[n]) /\ Len(svc[n]) \in Nat BY <1>1, <1>2, LenProperties
    <2> QED BY <2>1
<1>4. /\ desk' \in [Lines -> Nat] /\ desk'[n] = s
      /\ \A m \in Lines : m # n => desk'[m] = desk[m]
    BY <1>1, <1>2, <1>3
<1>5. \A m \in Lines : desk'[m] <= Len(svc'[m])
    <2>1. desk'[n] <= Len(svc'[n]) BY <1>1, <1>3, <1>4
    <2>2. ASSUME NEW m \in Lines, m # n PROVE desk'[m] <= Len(svc'[m])
        <3>1. desk[m] <= Len(svc[m]) BY DEF TypeOK
        <3> QED BY <1>1, <1>4, <2>2, <3>1
    <2> QED BY <2>1, <2>2
<1>6. TypeOK' BY <1>1, <1>4, <1>5 DEF TypeOK
<1>7. OneWorkerAtATime' /\ ClockAgrees' /\ CopyIsFresh' /\ NothingLeft'
    BY <1>1 DEF LinesInv, OneWorkerAtATime, ClockAgrees, Busy, InFlight, CopyIsFresh, NothingLeft
<1>8. OneServicePerLine' /\ ServiceInHand' /\ DoneIsDelivered'
    BY <1>1 DEF LinesInv, OneServicePerLine, ServiceInHand, GoodHand, DoneIsDelivered
<1> QED BY <1>6, <1>7, <1>8 DEF LinesInv

\* Staff give up on a request they opened earlier: if it has become a running
\* account since, the line is remembered as crossed.
LEMMA CancelRequestStep ==
    ASSUME TypeOK, LinesInv, NEW n \in Lines, CancelRequest(n)
    PROVE  TypeOK' /\ LinesInv' /\ \A m \in Lines : Len(svc'[m]) = Len(svc[m])
<1>1. /\ desk[n] # 0 /\ desk' = [desk EXCEPT ![n] = 0]
      /\ svc' = [svc EXCEPT ![n][desk[n]].status = "cancelled"]
      /\ UNCHANGED <<order, age, inv, line, queue, worker>>
      /\ crossed' = IF Kind[n] = "hosting" /\ svc[n][desk[n]].status = "active"
                    THEN crossed \cup {n} ELSE crossed
    BY DEF CancelRequest
<1>2. /\ svc \in [Lines -> Seq(ServiceRow)] /\ svc[n] \in Seq(ServiceRow)
      /\ desk \in [Lines -> Nat] /\ crossed \subseteq Lines
    BY DEF TypeOK
<1>3. desk[n] = 1 /\ Len(svc[n]) = 1 /\ svc[n][1] \in ServiceRow
    <2>1. desk[n] \in Nat /\ desk[n] <= Len(svc[n]) BY DEF TypeOK
    <2>2. Len(svc[n]) <= 1 /\ Len(svc[n]) \in Nat BY <1>2, LenProperties DEF LinesInv, OneServicePerLine
    <2>3. \A d, k \in Nat : d # 0 /\ d <= k /\ k <= 1 => d = 1 /\ k = 1 OBVIOUS
    <2>4. desk[n] = 1 /\ Len(svc[n]) = 1 BY <1>1, <2>1, <2>2, <2>3, Zenon
    <2>5. 1 \in 1..Len(svc[n]) BY <2>4
    <2> QED BY <1>2, <2>4, <2>5, ElementOfSeq
<1> DEFINE r == [svc[n][1] EXCEPT !.status = "cancelled"]
<1>4. r \in ServiceRow /\ r.term = svc[n][1].term BY <1>3 DEF ServiceRow
<1>5. svc' = [svc EXCEPT ![n][1] = r] BY <1>1, <1>2, <1>3
<1> HIDE DEF r
<1>6. /\ svc' \in [Lines -> Seq(ServiceRow)] /\ svc'[n][1] = r
      /\ \A m \in Lines : Len(svc'[m]) = Len(svc[m])
      /\ \A m \in Lines : m # n => svc'[m] = svc[m]
    BY <1>2, <1>3, <1>4, <1>5, ServiceEdit
<1>7. /\ crossed' \subseteq Lines /\ crossed \subseteq crossed'
      /\ Kind[n] = "hosting" /\ svc[n][1].status = "active" => n \in crossed'
    BY <1>1, <1>2, <1>3
<1>8. TypeOK'
    <2>1. /\ desk' \in [Lines -> Nat] /\ desk'[n] = 0
          /\ \A m \in Lines : m # n => desk'[m] = desk[m]
        BY <1>1, <1>2
    <2>2. \A m \in Lines : desk'[m] <= Len(svc'[m])
        <3>1. desk'[n] <= Len(svc'[n])
            <4>1. Len(svc'[n]) = 1 /\ 0 <= 1 BY <1>3, <1>6
            <4> QED BY <2>1, <4>1
        <3>2. ASSUME NEW m \in Lines, m # n PROVE desk'[m] <= Len(svc'[m])
            <4>1. desk[m] <= Len(svc[m]) BY DEF TypeOK
            <4> QED BY <1>6, <2>1, <3>2, <4>1
        <3> QED BY <3>1, <3>2
    <2>3. \A m \in Lines : line'[m].service <= Len(svc'[m])
        <3> SUFFICES ASSUME NEW m \in Lines PROVE line'[m].service <= Len(svc'[m])
            OBVIOUS
        <3>1. line[m].service <= Len(svc[m]) BY DEF TypeOK
        <3> QED BY <1>1, <1>6, <3>1
    <2> QED BY <1>1, <1>6, <1>7, <2>1, <2>2, <2>3 DEF TypeOK
<1>9. OneWorkerAtATime' /\ ClockAgrees' /\ CopyIsFresh' /\ NothingLeft'
    BY <1>1 DEF LinesInv, OneWorkerAtATime, ClockAgrees, Busy, InFlight, CopyIsFresh, NothingLeft
<1>10. OneServicePerLine' BY <1>1, <1>6 DEF LinesInv, OneServicePerLine
<1>11. ServiceInHand'
    <2> SUFFICES ASSUME NEW w \in Workers PROVE GoodHand(worker[w], line, svc', crossed')
        BY <1>1 DEF ServiceInHand
    <2>1. GoodHand(worker[w], line, svc, crossed) BY DEF LinesInv, ServiceInHand
    <2>2. CASE worker[w].at = n BY <1>4, <1>6, <1>7, <2>1, <2>2 DEF GoodHand
    <2>3. CASE worker[w].at # n BY <1>6, <1>7, <2>1, <2>3 DEF GoodHand
    <2> QED BY <2>2, <2>3
<1>12. DoneIsDelivered' BY <1>1, <1>4, <1>6, <1>7 DEF LinesInv, DoneIsDelivered
<1> QED BY <1>6, <1>8, <1>9, <1>10, <1>11, <1>12 DEF LinesInv

----------------------------------------------------------------------------
(* The invariant.                                                           *)

LEMMA FStart == Init => FInv
<1> SUFFICES ASSUME Init PROVE FInv OBVIOUS
<1> USE FulfilmentAssumption
<1>1. worker \in [Workers -> WorkerRow] /\ \A w \in Workers : worker[w].pc = "idle"
    BY IdleRow DEF Init
<1>2. /\ line \in [Lines -> LineRow]
      /\ \A n \in Lines : line[n].status = "pending" /\ line[n].service = 0
    BY DEF Init, LineRow
<1>3. svc \in [Lines -> Seq(ServiceRow)] /\ \A n \in Lines : Len(svc[n]) = 0
    BY DEF Init
<1>4. inv \in InvoiceRow /\ inv.status = "unpaid" /\ inv.paid = 0 /\ inv.refunded = 0
    BY DEF Init, InvoiceRow, OPEN_STATUSES
<1>5. TypeOK
    BY <1>1, <1>2, <1>3, <1>4 DEF Init, TypeOK, OrderStatus, InvoiceRow, WorkerRow
<1>6. OneWorkerAtATime /\ ClockAgrees /\ CopyIsFresh /\ ServiceInHand
    BY <1>1 DEF OneWorkerAtATime, ClockAgrees, Busy, CopyIsFresh, FreshCopy, ServiceInHand, GoodHand, InHand
<1>7. OneServicePerLine /\ DoneIsDelivered
    BY <1>2, <1>3 DEF OneServicePerLine, DoneIsDelivered
<1>8. NothingLeft BY <1>1 DEF Init, NothingLeft, HonestReport
<1>9. BookInv
    BY <1>4 DEF Init, BookInv, InvoiceIsDerived, OrderIsSettled, DerivedStatus, SETTLED_STATUSES
<1> QED BY <1>5, <1>6, <1>7, <1>8, <1>9 DEF FInv, LinesInv

\* A task from the queue, the sweeper or a retry.
LEMMA StartStepKeeps ==
    ASSUME FInv, NEW w \in Workers, StartStep(w)
    PROVE  FInv'
<1> USE DEF FInv
<1>1. queue' \in 0..MaxQueue
    <2>1. queue \in 0..MaxQueue BY DEF TypeOK
    <2>2. queue' = queue \/ (queue > 0 /\ queue' = queue - 1)
        BY DEF StartStep, fulfil_order_task, sweep_paid, retry_fulfilment
    <2> QED BY <2>1, <2>2, FulfilmentAssumption
<1>2. CASE Claim(w)
    <2>1. TypeOK' /\ LinesInv' /\ order \in {"paid", "failed"} /\ order' = "provisioning"
        BY <1>1, <1>2, ClaimStep
    <2>2. UNCHANGED inv BY <1>2 DEF Claim
    <2> QED BY <2>1, <2>2 DEF BookInv, InvoiceIsDerived, OrderIsSettled
<1>3. CASE UNCHANGED <<order, age, inv, line, svc, worker, desk, crossed>>
    <2>1. OrderOnly BY <1>1, <1>3 DEF OrderOnly, TypeOK, InvoiceRow
    <2>2. TypeOK' /\ LinesInv' BY <2>1, OrderOnlyStep
    <2> QED BY <1>3, <2>2 DEF BookInv, InvoiceIsDerived, OrderIsSettled
<1> QED BY <1>2, <1>3 DEF StartStep, fulfil_order_task, sweep_paid, retry_fulfilment

LEMMA WorkStepKeeps ==
    ASSUME FInv, NEW w \in Workers, WorkStep(w) \/ WorkerDies(w)
    PROVE  FInv'
<1> USE DEF FInv
<1>1. CASE Outcome(w)
    <2>1. TypeOK' /\ LinesInv' /\ order = "provisioning" /\ order' \in {"failed", "active"}
        BY <1>1, OutcomeStep
    <2>2. UNCHANGED inv BY <1>1 DEF Outcome
    <2> QED BY <2>1, <2>2 DEF BookInv, InvoiceIsDerived, OrderIsSettled
<1>2. CASE ~Outcome(w)
    <2>1. TypeOK' /\ LinesInv'
        BY <1>2, LoadLinesStep, SkipLineStep, MarkDoneStep, CheckLinesStep, AddonStep, RequestStep, ReuseStep,
            RefusedStep, CompleteStep, RecordStep, StartTermStep, DiesStep DEF WorkStep
    <2>2. UNCHANGED <<order, inv>>
        BY <1>2 DEF WorkStep, LoadLines, SkipLine, MarkDone, CheckLines, fulfil_addon, RequestService,
            ReuseService, RequestRefused, CompleteService, RecordOutcome, StartTerm, WorkerDies
    <2> QED BY <2>1, <2>2 DEF BookInv, InvoiceIsDerived, OrderIsSettled
<1> QED BY <1>1, <1>2

LEMMA FStep == FInv /\ [Next]_vars => FInv'
<1> SUFFICES ASSUME FInv, [Next]_vars PROVE FInv' OBVIOUS
<1> USE DEF FInv
<1>1. CASE BillingStep BY <1>1, BillingSide, OrderOnlyStep
<1>2. CASE mark_fraud \/ clear_fraud \/ cancel_order \/ sweep_reset BY <1>2, StaffSide, OrderOnlyStep
<1>3. ASSUME NEW n \in Lines, OpenRequest(n) \/ CancelRequest(n) PROVE FInv'
    <2>1. UNCHANGED <<order, inv>> BY <1>3 DEF OpenRequest, CancelRequest
    <2> QED BY <1>3, <2>1, OpenRequestStep, CancelRequestStep DEF BookInv, InvoiceIsDerived, OrderIsSettled
<1>4. CASE Tick
    <2>1. UNCHANGED <<order, inv>> BY <1>4 DEF Tick
    <2> QED BY <1>4, <2>1, TickStep DEF BookInv, InvoiceIsDerived, OrderIsSettled
<1>5. ASSUME NEW w \in Workers, StartStep(w) \/ WorkStep(w) \/ WorkerDies(w) PROVE FInv'
    BY <1>5, StartStepKeeps, WorkStepKeeps
<1>6. CASE UNCHANGED vars
    <2>1. OrderOnly BY <1>6 DEF vars, OrderOnly, TypeOK, InvoiceRow
    <2>2. TypeOK' /\ LinesInv' BY <2>1, OrderOnlyStep
    <2> QED BY <1>6, <2>2 DEF vars, BookInv, InvoiceIsDerived, OrderIsSettled
<1> QED BY <1>1, <1>2, <1>3, <1>4, <1>5, <1>6 DEF Next, StaffStep

----------------------------------------------------------------------------
(* The theorems.                                                            *)

\* The inductive invariant holds of every behaviour.
THEOREM FulfilmentInvariant == Spec => []FInv
BY FStart, FStep, PTL DEF Spec

\* Whoever starts a fulfilment (the queue, the sweeper, staff) and wherever a
\* worker dies, at most one worker is at the order.
THEOREM NeverTwoWorkers == Spec => []OneWorkerAtATime
<1>1. FInv => OneWorkerAtATime BY DEF FInv, LinesInv
<1> QED BY <1>1, FulfilmentInvariant, PTL

\* However often a fulfilment is retried, a line has at most one service and
\* points at it.
THEOREM NeverTwoServices == Spec => []OneServicePerLine
<1>1. FInv => OneServicePerLine BY DEF FInv, LinesInv
<1> QED BY <1>1, FulfilmentInvariant, PTL

\* The rows are well formed, an active order was delivered (its accounts run,
\* unless staff's cancellation from an older page crossed one) and an order
\* agrees with its invoice.
THEOREM OrdersAreSound == Spec => []OrderIsSound
<1>1. ASSUME FInv PROVE OrderIsSound
    <2>1. OrderAgreesWithInvoice
        BY <1>1 DEF FInv, BookInv, OrderIsSettled, OrderAgreesWithInvoice
    <2>2. ASSUME order = "active", NEW n \in Lines
          PROVE  /\ line[n].status = "done"
                 /\ Kind[n] # "addon" => line[n].service # 0
                 /\ Kind[n] = "hosting" =>
                       /\ svc[n][line[n].service].term
                       /\ svc[n][line[n].service].status = "active" \/ n \in crossed
        <3>1. /\ line[n].status = "done" /\ (Kind[n] # "addon" => line[n].service # 0)
              /\ Kind[n] = "hosting" => /\ svc[n][1].status = "active" \/ n \in crossed
                                        /\ svc[n][1].term
            BY <1>1, <2>2 DEF FInv, LinesInv, NothingLeft, DoneIsDelivered
        <3>2. CASE Kind[n] = "hosting"
            <4>1. svc[n] \in Seq(ServiceRow) /\ line[n].service \in Nat
                BY <1>1 DEF FInv, TypeOK, LineRow
            <4>2. line[n].service = Len(svc[n]) /\ Len(svc[n]) <= 1 /\ line[n].service # 0
                BY <1>1, <3>1, <3>2 DEF FInv, LinesInv, OneServicePerLine
            <4>3. \A k \in Nat : k <= 1 /\ k # 0 => k = 1 OBVIOUS
            <4>4. line[n].service = 1 /\ Len(svc[n]) = 1 BY <4>1, <4>2, <4>3, Zenon
            <4> QED BY <3>1, <3>2, <4>2, <4>4
        <3> QED BY <3>1, <3>2
    <2>3. ActiveMeansDelivered BY <2>2 DEF ActiveMeansDelivered
    <2> QED BY <1>1, <2>1, <2>3 DEF FInv, OrderIsSound
<1> QED BY <1>1, FulfilmentInvariant, PTL

----------------------------------------------------------------------------
(* The refinement of Delivery.                                              *)

MadeLines == {n \in Lines : svc[n] # <<>>}

ReadyLines == {n \in Lines : line[n].status = "done"}

Settled == inv.status \in SETTLED_STATUSES

\* What the customer sees of each status.
LEMMA Stages ==
    /\ order = "provisioning" => OrderStage = "working"
    /\ order = "active" => OrderStage = "delivered"
    /\ order = "cancelled" => OrderStage = "closed"
    /\ order \notin {"provisioning", "active", "cancelled"} => OrderStage = "waiting"
BY DEF OrderStage

LEMMA StagesNext ==
    /\ order' = "provisioning" => OrderStage' = "working"
    /\ order' = "active" => OrderStage' = "delivered"
    /\ order' = "cancelled" => OrderStage' = "closed"
    /\ order' \notin {"provisioning", "active", "cancelled"} => OrderStage' = "waiting"
BY DEF OrderStage

\* Which lines have goods is a matter of length.
LEMMA MadeByLength ==
    ASSUME svc \in [Lines -> Seq(ServiceRow)], svc' \in [Lines -> Seq(ServiceRow)],
           \A n \in Lines : Len(svc'[n]) = Len(svc[n])
    PROVE  MadeLines' = MadeLines
<1>1. ASSUME NEW n \in Lines PROVE (svc'[n] = <<>>) <=> (svc[n] = <<>>)
    BY <1>1, EmptySeq
<1> QED BY <1>1 DEF MadeLines

\* A step of which the customer sees nothing.
LEMMA Unseen ==
    ASSUME OrderStage' = OrderStage, Settled' <=> Settled,
           MadeLines' = MadeLines, ReadyLines' = ReadyLines
    PROVE  UNCHANGED Customer!vars
BY DEF Customer!vars, Settled, MadeLines, ReadyLines

\* Money settles the invoice, a cancelled invoice closes an order that awaits
\* payment, holds are not seen, a reset gives up.
LEMMA SeenOrder ==
    ASSUME FInv, FInv', BillingStep \/ mark_fraud \/ clear_fraud \/ cancel_order \/ sweep_reset
    PROVE  [Customer!Next]_(Customer!vars)
<1>1. /\ order \in OrderStatus /\ TypeOK /\ BookInv /\ LinesInv
      /\ inv \in InvoiceRow
    BY DEF FInv, TypeOK, InvoiceRow
<1>2. UNCHANGED <<line, svc>>
    BY DEF BillingStep, PaymentArrives, Refund, CancelInvoice, mark_fraud, clear_fraud, cancel_order, sweep_reset
<1>3. MadeLines' = MadeLines /\ ReadyLines' = ReadyLines BY <1>2 DEF MadeLines, ReadyLines
<1>4. ASSUME OrderStage' = OrderStage, Settled => Settled' PROVE [Customer!Next]_(Customer!vars)
    <2>1. CASE Settled' <=> Settled BY <1>3, <1>4, <2>1, Unseen
    <2>2. CASE ~Settled /\ Settled'
        <3>1. Customer!Settle
            BY <1>3, <1>4, <2>2 DEF Customer!Settle, Settled, MadeLines, ReadyLines
        <3> QED BY <3>1 DEF Customer!Next
    <2> QED BY <1>4, <2>1, <2>2
<1>5. ASSUME OrderStage = "waiting", OrderStage' = "closed", Settled' <=> Settled
      PROVE  [Customer!Next]_(Customer!vars)
    <2>1. Customer!Close
        BY <1>3, <1>5 DEF Customer!Close, Settled, MadeLines, ReadyLines
    <2> QED BY <2>1 DEF Customer!Next
<1>6. ASSUME NEW a \in 1..Price, PaymentArrives(a) PROVE [Customer!Next]_(Customer!vars)
    <2>1. Settled => Settled' BY <1>1, <1>6, PaymentSettles DEF Settled
    <2>2. UNCHANGED order \/ (order = "pending_payment" /\ order' = "paid")
        BY <1>6 DEF PaymentArrives, mark_order_paid, transition
    <2>3. OrderStage' = OrderStage BY <2>2, Stages, StagesNext DEF OrderStage
    <2> QED BY <1>4, <2>1, <2>3
<1>7. ASSUME NEW a \in 1..Price, Refund(a) PROVE [Customer!Next]_(Customer!vars)
    <2>1. Settled => Settled' BY <1>1, <1>7, RefundKeeps DEF Settled
    <2>2. OrderStage' = OrderStage BY <1>7 DEF Refund, OrderStage
    <2> QED BY <1>4, <2>1, <2>2
<1>8. CASE CancelInvoice
    <2>1. inv' = [inv EXCEPT !.status = "cancelled"] /\ inv.status = "unpaid"
        BY <1>8 DEF CancelInvoice
    <2>2. inv'.status = "cancelled" BY <1>1, <2>1 DEF InvoiceRow
    <2>3. ~Settled /\ ~Settled' BY <2>1, <2>2 DEF Settled, SETTLED_STATUSES
    <2>4. UNCHANGED order \/ (order = "pending_payment" /\ order' = "cancelled")
        BY <1>8 DEF CancelInvoice, transition
    <2>5. OrderStage' = OrderStage \/ (OrderStage = "waiting" /\ OrderStage' = "closed")
        BY <2>4, Stages, StagesNext DEF OrderStage
    <2> QED BY <1>4, <1>5, <2>3, <2>5
<1>9. CASE mark_fraud \/ clear_fraud
    <2>1. UNCHANGED inv BY <1>9 DEF mark_fraud, clear_fraud
    <2>2. order \notin {"provisioning", "active", "cancelled"}
        BY <1>1, <1>9, StatusTable DEF mark_fraud, clear_fraud
    <2>3. order' \notin {"provisioning", "active", "cancelled"}
        BY <1>9 DEF mark_fraud, clear_fraud, transition
    <2>4. OrderStage' = OrderStage BY <2>2, <2>3, Stages, StagesNext
    <2> QED BY <1>4, <2>1, <2>4 DEF Settled
<1>10. CASE cancel_order
    <2>1. OrderStage = "waiting" /\ OrderStage' = "closed"
        BY <1>10, Stages, StagesNext DEF cancel_order, transition
    <2>2. CASE inv.status \notin OPEN_STATUSES
        BY <1>5, <1>10, <2>1, <2>2 DEF cancel_order, Settled
    <2>3. CASE inv.status \in OPEN_STATUSES
        <3>1. inv' = [inv EXCEPT !.status = "cancelled"] BY <1>10, <2>3 DEF cancel_order
        <3>2. inv'.status = "cancelled" BY <1>1, <3>1 DEF InvoiceRow
        <3>3. ~Settled /\ ~Settled' BY <2>3, <3>2 DEF Settled, SETTLED_STATUSES, OPEN_STATUSES
        <3> QED BY <1>5, <2>1, <3>3
    <2> QED BY <2>2, <2>3
<1>11. CASE sweep_reset
    <2>1. OrderStage = "working" /\ OrderStage' = "waiting" /\ UNCHANGED inv
        BY <1>11, Stages, StagesNext DEF sweep_reset, transition, InFlight
    <2>2. Customer!GiveUp
        BY <1>3, <2>1 DEF Customer!GiveUp, MadeLines, ReadyLines
    <2> QED BY <2>2 DEF Customer!Next
<1> QED BY <1>6, <1>7, <1>8, <1>9, <1>10, <1>11 DEF BillingStep

\* A claim starts the work of an order whose invoice is settled.
LEMMA SeenStart ==
    ASSUME FInv, NEW w \in Workers, StartStep(w)
    PROVE  [Customer!Next]_(Customer!vars)
<1>1. CASE Claim(w)
    <2>1. order \in {"paid", "failed"} /\ order' = "provisioning" /\ UNCHANGED <<inv, line, svc>>
        BY <1>1 DEF Claim, Claimable
    <2>2. OrderStage = "waiting" /\ OrderStage' = "working" BY <2>1, Stages, StagesNext
    <2>3. Settled BY <2>1 DEF FInv, BookInv, OrderIsSettled, Settled
    <2>4. Customer!Start BY <2>1, <2>2, <2>3 DEF Customer!Start, Settled
    <2> QED BY <2>4 DEF Customer!Next
<1>2. CASE UNCHANGED <<order, age, inv, line, svc, worker>>
    BY <1>2, Unseen DEF OrderStage, Settled, MadeLines, ReadyLines
<1> QED BY <1>1, <1>2 DEF StartStep, fulfil_order_task, sweep_paid, retry_fulfilment

\* A step in which neither the order nor its lines' outcomes nor the number
\* of services change.
LEMMA SeenNothing ==
    ASSUME FInv, FInv', UNCHANGED <<order, inv>>,
           \A n \in Lines : (line'[n].status = "done") <=> (line[n].status = "done"),
           \A n \in Lines : Len(svc'[n]) = Len(svc[n])
    PROVE  [Customer!Next]_(Customer!vars)
<1>1. OrderStage' = OrderStage /\ (Settled' <=> Settled) BY DEF OrderStage, Settled
<1>2. ReadyLines' = ReadyLines BY DEF ReadyLines
<1>3. MadeLines' = MadeLines BY MadeByLength DEF FInv, TypeOK
<1> QED BY <1>1, <1>2, <1>3, Unseen

\* One line becomes done: it is an add-on, or its goods were made.
LEMMA SeenReady ==
    ASSUME FInv, FInv', UNCHANGED <<order, inv, svc>>, order = "provisioning",
           NEW n \in Lines, line[n].status # "done",
           line' = [line EXCEPT ![n].status = "done"],
           Kind[n] = "addon" \/ Len(svc[n]) = 1
    PROVE  [Customer!Next]_(Customer!vars)
<1>1. /\ line'[n].status = "done" /\ \A m \in Lines : m # n => line'[m] = line[m]
    BY LineEdit DEF FInv
<1>2. OrderStage = "working" /\ OrderStage' = OrderStage BY Stages DEF OrderStage
<1>3. ReadyLines' = ReadyLines \cup {n} /\ n \notin ReadyLines BY <1>1 DEF ReadyLines
<1>4. Kind[n] # "addon" => svc[n] # <<>>
    <2>1. Len(<<>>) = 0 BY EmptySeq
    <2> QED BY <2>1
<1>5. Customer!Ready(n)
    BY <1>2, <1>3, <1>4 DEF Customer!Ready, ReadyLines
<1> QED BY <1>5 DEF Customer!Next

\* A line is worked on: nothing is seen, or its goods are made.
LEMMA SeenWork ==
    ASSUME FInv, FInv', NEW w \in Workers, WorkStep(w)
    PROVE  [Customer!Next]_(Customer!vars)
<1>1. TypeOK /\ LinesInv BY DEF FInv
<1>2. CASE LoadLines(w) \/ SkipLine(w) \/ CheckLines(w)
    BY <1>2, SeenNothing DEF LoadLines, SkipLine, CheckLines
<1>3. CASE MarkDone(w)
    <2>1. /\ UNCHANGED <<order, inv, svc>> /\ worker[w].pc \in InHand
          /\ line' = [line EXCEPT ![worker[w].at].status = "done"]
        BY <1>3 DEF MarkDone, LineDone, InHand
    <2>2. /\ worker[w].at \in Lines /\ line[worker[w].at].status # "done"
          /\ Len(svc[worker[w].at]) = 1 /\ Busy(w)
        BY <1>1, <2>1, HandFacts
    <2>3. order = "provisioning" BY <1>1, <2>2 DEF LinesInv, OneWorkerAtATime, InFlight
    <2> QED BY <2>1, <2>2, <2>3, SeenReady
<1>4. CASE Outcome(w)
    <2>1. order = "provisioning" /\ order' \in {"failed", "active"} BY <1>1, <1>4, OutcomeStep
    <2>2. UNCHANGED <<inv, line, svc>> BY <1>4 DEF Outcome
    <2>3. CASE order' = "failed"
        <3>1. Customer!GiveUp BY <2>1, <2>2, <2>3, Stages, StagesNext DEF Customer!GiveUp
        <3> QED BY <3>1 DEF Customer!Next
    <2>4. CASE order' = "active"
        <3>1. \A n \in Lines : line'[n].status = "done" BY <2>4 DEF FInv, LinesInv, NothingLeft
        <3>2. ReadyLines = Lines BY <2>2, <3>1 DEF ReadyLines
        <3>3. Customer!Finish
            BY <2>1, <2>2, <2>4, <3>2, Stages, StagesNext DEF Customer!Finish, ReadyLines
        <3> QED BY <3>3 DEF Customer!Next
    <2> QED BY <2>1, <2>3, <2>4
<1>5. ASSUME NEW n \in Lines, worker[w].pc = "line", worker[w].at = n
      PROVE  /\ worker[w].copy[n] = line[n] /\ order = "provisioning"
    BY <1>1, <1>5 DEF LinesInv, CopyIsFresh, FreshCopy, Lines, OneWorkerAtATime, Busy, InFlight
<1>6. ASSUME NEW n \in Lines, fulfil_addon(w, n) PROVE [Customer!Next]_(Customer!vars)
    <2>1. /\ worker[w].pc = "line" /\ worker[w].at = n /\ Kind[n] = "addon"
          /\ worker[w].copy[n].status # "done" /\ UNCHANGED <<order, inv, svc>>
          /\ UNCHANGED line \/ line' = [line EXCEPT ![n].status = "done"]
        BY <1>6 DEF fulfil_addon, Todo, LineDone
    <2>2. line[n].status # "done" /\ order = "provisioning" BY <1>5, <2>1
    <2>3. CASE UNCHANGED line BY <2>1, <2>3, SeenNothing
    <2>4. CASE line' = [line EXCEPT ![n].status = "done"] BY <2>1, <2>2, <2>4, SeenReady
    <2> QED BY <2>1, <2>3, <2>4
<1>7. ASSUME NEW n \in Lines, line[n].status # "done", UNCHANGED <<order, inv>>,
             line' = [line EXCEPT ![n].status = "failed"],
             \A m \in Lines : Len(svc'[m]) = Len(svc[m])
      PROVE  [Customer!Next]_(Customer!vars)
    <2>1. line'[n].status = "failed" /\ \A m \in Lines : m # n => line'[m] = line[m]
        BY <1>1, <1>7, LineEdit
    <2> QED BY <1>7, <2>1, SeenNothing
<1>8. ASSUME NEW n \in Lines, RequestRefused(w, n) PROVE [Customer!Next]_(Customer!vars)
    <2>1. /\ worker[w].pc = "line" /\ worker[w].at = n /\ worker[w].copy[n].status # "done"
          /\ UNCHANGED <<order, inv, svc>> /\ line' = [line EXCEPT ![n].status = "failed"]
        BY <1>8 DEF RequestRefused, Todo, LineFails
    <2> QED BY <1>5, <1>7, <2>1
<1>9. ASSUME NEW n \in Lines, ReuseService(w, n) PROVE [Customer!Next]_(Customer!vars)
    BY <1>9, SeenNothing DEF ReuseService
<1>10. ASSUME NEW n \in Lines, RequestService(w, n) PROVE [Customer!Next]_(Customer!vars)
    <2>1. /\ worker[w].pc = "line" /\ worker[w].at = n /\ Kind[n] # "addon"
          /\ worker[w].copy[n].service = 0 /\ UNCHANGED <<order, inv>>
          /\ svc' = [svc EXCEPT ![n] = Append(@, [status |-> "pending", term |-> FALSE])]
          /\ line' = [line EXCEPT ![n].service = Len(svc[n]) + 1]
        BY <1>10 DEF RequestService, Todo, NeedsService
    <2>2. line[n].service = 0 /\ order = "provisioning" BY <1>5, <2>1
    <2>3. Len(svc[n]) = 0 /\ svc[n] \in Seq(ServiceRow) /\ svc \in [Lines -> Seq(ServiceRow)]
        BY <1>1, <2>2 DEF LinesInv, OneServicePerLine, TypeOK
    <2>4. svc[n] = <<>> BY <2>3, EmptySeq
    <2>5. svc'[n] # <<>> /\ \A m \in Lines : m # n => svc'[m] = svc[m] BY <2>1, <2>3
    <2>6. MadeLines' = MadeLines \cup {n} /\ n \notin MadeLines BY <2>4, <2>5 DEF MadeLines
    <2>7. \A m \in Lines : line'[m].status = line[m].status
        BY <1>1, <2>1 DEF TypeOK, LineRow
    <2>8. ReadyLines' = ReadyLines BY <2>7 DEF ReadyLines
    <2>9. OrderStage = "working" /\ OrderStage' = OrderStage BY <2>1, <2>2, Stages DEF OrderStage
    <2>10. Customer!Make(n)
        BY <2>1, <2>6, <2>8, <2>9 DEF Customer!Make, MadeLines, ReadyLines
    <2> QED BY <2>10 DEF Customer!Next
<1>11. ASSUME NEW n \in Lines, CompleteService(w, n) \/ RecordOutcome(w, n) \/ StartTerm(w, n)
       PROVE  [Customer!Next]_(Customer!vars)
    <2>1. UNCHANGED <<order, inv>> /\ worker[w].at = n /\ worker[w].pc \in InHand
        BY <1>11 DEF CompleteService, RecordOutcome, StartTerm, InHand
    <2>2. line[n].status # "done" BY <1>1, <2>1, HandFacts
    <2>3. UNCHANGED line \/ line' = [line EXCEPT ![n].status = "failed"]
        BY <1>11, <2>1 DEF CompleteService, RecordOutcome, StartTerm, LineFails
    <2>4. \A m \in Lines : line[m].service = Len(svc[m]) /\ line'[m].service = Len(svc'[m])
        BY DEF FInv, LinesInv, OneServicePerLine
    <2>5. \A m \in Lines : line'[m].service = line[m].service
        <3>1. line \in [Lines -> LineRow] BY <1>1 DEF TypeOK
        <3>2. CASE line' = [line EXCEPT ![n].status = "failed"]
            <4>1. line' = [line EXCEPT ![n] = [line[n] EXCEPT !.status = "failed"]] BY <3>1, <3>2
            <4>2. [line[n] EXCEPT !.status = "failed"].service = line[n].service BY <3>1 DEF LineRow
            <4> QED BY <3>1, <4>1, <4>2
        <3> QED BY <2>3, <3>2
    <2>6. \A m \in Lines : Len(svc'[m]) = Len(svc[m]) BY <2>4, <2>5
    <2>7. CASE UNCHANGED line BY <2>1, <2>6, <2>7, SeenNothing
    <2>8. CASE line' = [line EXCEPT ![n].status = "failed"] BY <1>7, <2>1, <2>2, <2>6, <2>8
    <2> QED BY <2>3, <2>7, <2>8
<1> QED BY <1>2, <1>3, <1>4, <1>6, <1>8, <1>9, <1>10, <1>11 DEF WorkStep

\* Every step of fulfilment is a step of Delivery or one it does not see.
LEMMA SeenStep == FInv /\ FInv' /\ [Next]_vars => [Customer!Next]_(Customer!vars)
<1> SUFFICES ASSUME FInv, FInv', [Next]_vars PROVE [Customer!Next]_(Customer!vars) OBVIOUS
<1>1. ASSUME NEW n \in Lines, OpenRequest(n) \/ CancelRequest(n) PROVE [Customer!Next]_(Customer!vars)
    <2>1. UNCHANGED <<order, inv, line>> BY <1>1 DEF OpenRequest, CancelRequest
    <2>2. \A m \in Lines : Len(svc'[m]) = Len(svc[m])
        BY <2>1 DEF FInv, LinesInv, OneServicePerLine
    <2> QED BY <2>1, <2>2, SeenNothing
<1>2. ASSUME NEW w \in Workers, WorkerDies(w) PROVE [Customer!Next]_(Customer!vars)
    BY <1>2, SeenNothing DEF WorkerDies
<1>3. CASE Tick BY <1>3, SeenNothing DEF Tick
<1>4. CASE UNCHANGED vars BY <1>4, SeenNothing DEF vars
<1> QED BY <1>1, <1>2, <1>3, <1>4, SeenOrder, SeenStart, SeenWork DEF Next, StaffStep

\* The initial state is one of Delivery.
LEMMA SeenInit == Init => Customer!Init
<1> SUFFICES ASSUME Init PROVE Customer!Init OBVIOUS
<1>1. OrderStage = "waiting" BY Stages DEF Init
<1>2. inv.status \notin SETTLED_STATUSES BY DEF Init, SETTLED_STATUSES
<1>3. {n \in Lines : svc[n] # <<>>} = {} /\ {n \in Lines : line[n].status = "done"} = {} BY DEF Init
<1> QED BY <1>1, <1>2, <1>3 DEF Customer!Init

\* Fulfilment, with its queue, retries, crashes, holds and sweeps, implements
\* the promise of Delivery.
THEOREM FulfilmentKeepsPromise == Spec => KeepsPromise
BY SeenInit, SeenStep, FulfilmentInvariant, PTL DEF Spec, KeepsPromise, Customer!Spec
=============================================================================
