----------------------------- MODULE Fulfilment -----------------------------
(***************************************************************************)
(* One order from payment to service: apps/orders/fulfilment.py with the   *)
(* order's status table (lifecycle.py), the reactions to its invoice       *)
(* (signals.py), the staff's holds and retries (staff_actions.py) and      *)
(* cancellation (services.cancel_order).                                   *)
(*                                                                         *)
(* The claim and the outcome of a fulfilment are transactions under the    *)
(* order's row lock; everything in between runs outside any lock, line by  *)
(* line, on a copy of the lines loaded once, and the worker may die at any *)
(* point.  A worker lives for at most TaskLimit (Celery's hard limit) and  *)
(* the sweeper resets an order only after it has been in flight for        *)
(* StuckAfter; age counts time since the order's last status change.       *)
(***************************************************************************)
EXTENDS InvoiceRules, Sequences, FiniteSets

CONSTANTS
    Workers,        \* Celery workers, web requests and the sweeper that run fulfil_order
    NumLines,       \* order lines, in the order they are fulfilled
    Kind,           \* the kind of each line
    Parent,         \* the plan an add-on line belongs to (0: none)
    Price,          \* the invoice's total
    MaxPaid,        \* bound on the money that arrives
    MaxQueue,       \* bound on queued fulfilment tasks
    MaxPages,       \* bound on requests staff have open at once
    TaskLimit,      \* the longest a worker lives
    StuckAfter      \* how long an order is in flight before the sweeper resets it

Lines == 1..NumLines
Kinds == {"hosting", "addon", "domain_register", "domain_transfer"}

ASSUME FulfilmentAssumption ==
    /\ NumLines \in Nat \ {0} /\ Kind \in [Lines -> Kinds]
    /\ Parent \in [Lines -> 0..NumLines] /\ \A n \in Lines : Parent[n] < n
    /\ Price \in Nat \ {0} /\ MaxPaid \in Nat /\ MaxQueue \in Nat /\ MaxPages \in Nat
    /\ TaskLimit \in Nat /\ StuckAfter \in Nat /\ TaskLimit < StuckAfter

VARIABLES
    order,    \* the order's status
    age,      \* time since its last status change, up to StuckAfter
    inv,      \* its invoice: status, paid, refunded
    line,     \* the order lines in the database
    svc,      \* the services each line has created, oldest first
    queue,    \* queued fulfil_order tasks
    worker,   \* what each worker is doing
    desk,     \* the request of each line that staff have open (0: none)
    crossed   \* history: lines whose account was cancelled after it had become active

vars == <<order, age, inv, line, svc, queue, worker, desk, crossed>>

----------------------------------------------------------------------------
OrderStatus == {"pending_payment", "paid", "provisioning", "active", "fraud", "failed", "cancelled"}

\* Processing is left in the transaction that enters it, so no other
\* transaction ever sees it.  What staff do with an active order afterwards
\* (suspend, terminate) is not part of fulfilment.
ALLOWED ==
    [pending_payment |-> {"paid", "cancelled", "fraud"},
     paid            |-> {"provisioning", "fraud"},
     provisioning    |-> {"active", "failed"},
     active          |-> {},
     failed          |-> {"provisioning", "fraud", "cancelled"},
     fraud           |-> {"pending_payment", "paid", "cancelled"},
     cancelled       |-> {}]

InFlight == order = "provisioning"

transition(new) == new \in ALLOWED[order] /\ order' = new /\ age' = 0

\* A line's fulfilment status and the service it became (an index into svc).
LineRow == [status : {"pending", "done", "failed"}, service : Nat]

\* A service's status, and whether its first paid term has begun.
ServiceRow == [status : {"pending", "active", "failed", "cancelled"}, term : BOOLEAN]

\* Bound: services made for one line are followed up to this many.
ServiceBound == 2

LIVE_STATUSES == {"pending", "active"}

Idle == [pc |-> "idle", age |-> 0, at |-> 0, copy |-> [n \in Lines |-> [status |-> "pending", service |-> 0]],
         service |-> 0, failures |-> FALSE]

Busy(w) == worker[w].pc # "idle"

----------------------------------------------------------------------------
(* The invoice, as Billing moves it, and what the order makes of it.        *)

SetInvoice(paid, refunded) ==
    inv' = [status |-> IF inv.status = "cancelled" THEN "cancelled"
                       ELSE DerivedStatus(paid, refunded, Price),
            paid |-> paid, refunded |-> refunded]

schedule(queued) == queue' = IF queue < MaxQueue THEN queued ELSE queue

\* The broker may be down: the order is paid and nothing is queued.
mark_order_paid ==
    IF order = "pending_payment"
    THEN transition("paid") /\ (schedule(queue + 1) \/ UNCHANGED queue)
    ELSE UNCHANGED <<order, age, queue>>

\* Money arrives.  By hand it is at most the balance of an open invoice.  From
\* a gateway it is recorded whatever became of the invoice, and it is the whole
\* balance of when that payment was begun: what was paid since only adds to it.
PaymentArrives(amount) ==
    /\ \/ inv.status \in OPEN_STATUSES /\ amount <= Price - inv.paid
       \/ inv.paid + amount >= Price
    /\ inv.paid + amount <= MaxPaid
    /\ SetInvoice(inv.paid + amount, inv.refunded)
    /\ IF inv'.status = "paid" /\ inv.status \in OPEN_STATUSES
       THEN mark_order_paid ELSE UNCHANGED <<order, age, queue>>
    /\ UNCHANGED <<line, svc, worker, desk, crossed>>

Refund(amount) ==
    /\ inv.refunded + amount <= inv.paid
    /\ SetInvoice(inv.paid, inv.refunded + amount)
    /\ UNCHANGED <<order, age, line, svc, queue, worker, desk, crossed>>

\* cancel_unpaid_order: the order goes with its invoice if it awaits payment.
CancelInvoice ==
    /\ inv.status = "unpaid" /\ inv.paid = 0
    /\ inv' = [inv EXCEPT !.status = "cancelled"]
    /\ IF order = "pending_payment" THEN transition("cancelled") ELSE UNCHANGED <<order, age>>
    /\ UNCHANGED <<line, svc, queue, worker, desk, crossed>>

----------------------------------------------------------------------------
(* Holds and cancellation.                                                  *)

mark_fraud ==
    /\ transition("fraud")
    /\ UNCHANGED <<inv, line, svc, queue, worker, desk, crossed>>

clear_fraud ==
    /\ order = "fraud"
    /\ IF inv.status \in SETTLED_STATUSES
       THEN transition("paid") /\ (schedule(queue + 1) \/ UNCHANGED queue)
       ELSE transition("pending_payment") /\ UNCHANGED queue
    /\ UNCHANGED <<inv, line, svc, worker, desk, crossed>>

\* By the customer or sweep_abandoned_orders from pending payment, by staff
\* also after fraud or failure.  An open invoice is cancelled with it; one
\* that holds a partial payment refuses, and everything is rolled back.
cancel_order ==
    /\ order \in {"pending_payment", "fraud", "failed"}
    /\ transition("cancelled")
    /\ inv.status \in OPEN_STATUSES => inv.paid = 0
    /\ inv' = IF inv.status \in OPEN_STATUSES THEN [inv EXCEPT !.status = "cancelled"] ELSE inv
    /\ UNCHANGED <<line, svc, queue, worker, desk, crossed>>

\* Staff open a request that has not been completed and give up on it
\* (cancel_request, cancel_domain_request).  The row they loaded is checked
\* and saved without a lock: what has become of the service since is
\* overwritten.
OpenRequest(n) ==
    /\ Cardinality({m \in Lines : desk[m] # 0}) < MaxPages /\ desk[n] = 0
    /\ \E s \in DOMAIN svc[n] :
          /\ svc[n][s].status \in {"pending", "failed"}
          /\ desk' = [desk EXCEPT ![n] = s]
    /\ UNCHANGED <<order, age, inv, line, svc, queue, worker, crossed>>

CancelRequest(n) ==
    /\ desk[n] # 0
    /\ svc' = [svc EXCEPT ![n][desk[n]].status = "cancelled"]
    /\ crossed' = IF Kind[n] = "hosting" /\ svc[n][desk[n]].status = "active"
                  THEN crossed \cup {n} ELSE crossed
    /\ desk' = [desk EXCEPT ![n] = 0]
    /\ UNCHANGED <<order, age, inv, line, queue, worker>>

----------------------------------------------------------------------------
(* fulfil_order.                                                            *)

Claimable == order \in {"paid", "failed"}

Claim(w) ==
    /\ ~Busy(w) /\ Claimable
    /\ order' = "provisioning" /\ age' = 0
    /\ worker' = [worker EXCEPT ![w] = [Idle EXCEPT !.pc = "load"]]
    /\ UNCHANGED <<inv, line, svc, desk, crossed>>

\* A queued task: a task that finds the order in another state does nothing.
fulfil_order_task(w) ==
    /\ queue > 0 /\ queue' = queue - 1
    /\ \/ Claim(w)
       \/ ~Claimable /\ UNCHANGED <<order, age, inv, line, svc, worker, desk, crossed>>

\* The sweeper's first loop picks up an order that has been paid for a while
\* (STUCK_PAID_AFTER, less than StuckAfter); staff retry a failed one.
sweep_paid(w) == order = "paid" /\ age > 0 /\ Claim(w) /\ UNCHANGED queue

retry_fulfilment(w) == order = "failed" /\ Claim(w) /\ UNCHANGED queue

LoadLines(w) ==
    /\ worker[w].pc = "load"
    /\ worker' = [worker EXCEPT ![w].pc = "line", ![w].at = 1, ![w].copy = line]
    /\ UNCHANGED <<order, age, inv, line, svc, queue, desk, crossed>>

Advance(w, failed) ==
    worker' = [worker EXCEPT ![w].pc = "line", ![w].at = @ + 1, ![w].service = 0,
                             ![w].failures = @ \/ failed]

\* Fault: a line whose service failed is marked done all the same.
LineFails_done(w) ==
    /\ line' = [line EXCEPT ![worker[w].at].status = "done"]
    /\ Advance(w, FALSE)

LineFails(w) ==
    /\ line' = [line EXCEPT ![worker[w].at].status = "failed"]
    /\ Advance(w, TRUE)

LineDone(w) ==
    /\ line' = [line EXCEPT ![worker[w].at].status = "done"]
    /\ Advance(w, FALSE)

SkipLine(w) ==
    /\ worker[w].pc = "line" /\ worker[w].at \in Lines
    /\ worker[w].copy[worker[w].at].status = "done"
    /\ Advance(w, FALSE)
    /\ UNCHANGED <<order, age, inv, line, svc, queue, desk, crossed>>

Todo(w, n) ==
    worker[w].pc = "line" /\ n = worker[w].at /\ worker[w].copy[n].status # "done"

\* An add-on reads its plan's outcome from the database; one that has to wait
\* stays as it is.
fulfil_addon(w, n) ==
    /\ Todo(w, n) /\ Kind[n] = "addon"
    /\ IF Parent[n] # 0 /\ line[Parent[n]].status = "done"
       THEN LineDone(w)
       ELSE Advance(w, FALSE) /\ UNCHANGED line
    /\ UNCHANGED <<order, age, inv, svc, queue, desk, crossed>>

\* Fault: a retry does not look for the service the line already has.
NeedsService_always(w, n) == TRUE

NeedsService(w, n) == worker[w].copy[n].service = 0

\* A domain name with a live record cannot be requested again; a hosting
\* account carries a generated username, so nothing stops a second one.
MayRequest(n) ==
    Kind[n] # "hosting" => \A s \in DOMAIN svc[n] : svc[n][s].status \notin LIVE_STATUSES

\* Make the service and link it to the line, in one transaction.
RequestService(w, n) ==
    /\ Todo(w, n) /\ Kind[n] # "addon"
    /\ NeedsService(w, n) /\ MayRequest(n)
    /\ Len(svc[n]) < ServiceBound
    /\ svc' = [svc EXCEPT ![n] = Append(@, [status |-> "pending", term |-> FALSE])]
    /\ line' = [line EXCEPT ![n].service = Len(svc[n]) + 1]
    /\ worker' = [worker EXCEPT ![w].pc = "complete", ![w].service = Len(svc[n]) + 1]
    /\ UNCHANGED <<order, age, inv, queue, desk, crossed>>

ReuseService(w, n) ==
    /\ Todo(w, n) /\ Kind[n] # "addon" /\ ~NeedsService(w, n)
    /\ worker' = [worker EXCEPT ![w].pc = "complete", ![w].service = worker[w].copy[n].service]
    /\ UNCHANGED <<order, age, inv, line, svc, queue, desk, crossed>>

\* The request itself is refused (no package, domain unavailable, ...).
RequestRefused(w, n) ==
    /\ Todo(w, n) /\ Kind[n] # "addon" /\ NeedsService(w, n)
    /\ LineFails(w)
    /\ UNCHANGED <<order, age, inv, svc, queue, desk, crossed>>

\* complete_provisioning, complete_registration, complete_transfer look at the
\* row first: nothing to do, no (active) server or registrar, withdrawn by
\* staff, or to be asked for.  A registration is left to staff while
\* DomainSettings.auto_register is off, which staff may change at any time.
CompleteService(w, n) ==
    LET s == worker[w].service
    IN  /\ worker[w].pc = "complete" /\ n = worker[w].at
        /\ \/ /\ Kind[n] = "domain_register" \/ svc[n][s].status = "active"
              /\ worker' = [worker EXCEPT ![w].pc = "term"]
              /\ UNCHANGED line
           \/ /\ svc[n][s].status \in {"pending", "failed"}
              /\ worker' = [worker EXCEPT ![w].pc = "ask"]
              /\ UNCHANGED line
           \/ /\ svc[n][s].status # "active"
              /\ LineFails(w)
        /\ UNCHANGED <<order, age, inv, svc, queue, desk, crossed>>

\* The server or registrar agrees (a transfer may be left to the registry for
\* days) or refuses, and the answer is saved whatever the row says by now.
RecordOutcome(w, n) ==
    LET Save(st) == svc' = [svc EXCEPT ![n][worker[w].service].status = st]
    IN  /\ worker[w].pc = "ask" /\ n = worker[w].at
        /\ \/ /\ \E st \in {"active"} \cup (IF Kind[n] = "domain_transfer" THEN {"pending"} ELSE {}) : Save(st)
              /\ worker' = [worker EXCEPT ![w].pc = "term"]
              /\ UNCHANGED line
           \/ Save("failed") /\ LineFails(w)
        /\ UNCHANGED <<order, age, inv, queue, desk, crossed>>

\* start_hosting_term leaves a term that has begun alone.
StartTerm(w, n) ==
    /\ worker[w].pc = "term" /\ n = worker[w].at
    /\ svc' = IF Kind[n] = "hosting" THEN [svc EXCEPT ![n][worker[w].service].term = TRUE] ELSE svc
    /\ worker' = [worker EXCEPT ![w].pc = "done"]
    /\ UNCHANGED <<order, age, inv, line, queue, desk, crossed>>

MarkDone(w) ==
    /\ worker[w].pc = "done"
    /\ LineDone(w)
    /\ UNCHANGED <<order, age, inv, svc, queue, desk, crossed>>

\* After the loop: a line that is still not done counts as a failure.
CheckLines(w) ==
    /\ worker[w].pc = "line" /\ worker[w].at > NumLines
    /\ worker' = [worker EXCEPT ![w].pc = "outcome",
                                ![w].failures = @ \/ \E n \in Lines : line[n].status # "done"]
    /\ UNCHANGED <<order, age, inv, line, svc, queue, desk, crossed>>

\* Fault: the failures of the run are not looked at.
Outcome_optimistic(w) ==
    /\ worker[w].pc = "outcome"
    /\ IF InFlight THEN transition("active") ELSE UNCHANGED <<order, age>>
    /\ worker' = [worker EXCEPT ![w] = Idle]
    /\ UNCHANGED <<inv, line, svc, queue, desk, crossed>>

\* Under the order's lock again; an order changed meanwhile is left alone.
Outcome(w) ==
    /\ worker[w].pc = "outcome"
    /\ IF InFlight THEN transition(IF worker[w].failures THEN "failed" ELSE "active")
       ELSE UNCHANGED <<order, age>>
    /\ worker' = [worker EXCEPT ![w] = Idle]
    /\ UNCHANGED <<inv, line, svc, queue, desk, crossed>>

----------------------------------------------------------------------------
(* Time, crashes and the sweeper.                                           *)

\* The process is killed; Celery requeues a task whose worker was lost.
WorkerDies(w) ==
    /\ Busy(w)
    /\ worker' = [worker EXCEPT ![w] = Idle]
    /\ schedule(queue + 1) \/ UNCHANGED queue
    /\ UNCHANGED <<order, age, inv, line, svc, desk, crossed>>

\* No worker outlives TaskLimit.  Time is followed where a sweep or a worker
\* depends on it.
Tick ==
    /\ order \in {"paid", "provisioning"} \/ \E w \in Workers : Busy(w)
    /\ \A w \in Workers : Busy(w) => worker[w].age < TaskLimit
    /\ age < StuckAfter
    /\ age' = age + 1
    /\ worker' = [w \in Workers |-> IF Busy(w) THEN [worker[w] EXCEPT !.age = @ + 1] ELSE worker[w]]
    /\ UNCHANGED <<order, inv, line, svc, queue, desk, crossed>>

\* Fault: the sweeper does not wait before it resets an order.
sweep_reset_early ==
    /\ InFlight
    /\ transition("failed")
    /\ UNCHANGED <<inv, line, svc, queue, worker, desk, crossed>>

\* Fault: the sweeper's second loop filters on the wrong status.
sweep_reset_paid ==
    /\ order = "paid" /\ age >= StuckAfter
    /\ transition("failed")
    /\ UNCHANGED <<inv, line, svc, queue, worker, desk, crossed>>

sweep_reset ==
    /\ InFlight /\ age >= StuckAfter
    /\ transition("failed")
    /\ UNCHANGED <<inv, line, svc, queue, worker, desk, crossed>>

----------------------------------------------------------------------------
Init ==
    /\ order = "pending_payment" /\ age = 0
    /\ inv = [status |-> "unpaid", paid |-> 0, refunded |-> 0]
    /\ line = [n \in Lines |-> [status |-> "pending", service |-> 0]]
    /\ svc = [n \in Lines |-> <<>>]
    /\ queue = 0
    /\ worker = [w \in Workers |-> Idle]
    /\ desk = [n \in Lines |-> 0] /\ crossed = {}

BillingStep == (\E a \in 1..Price : PaymentArrives(a) \/ Refund(a)) \/ CancelInvoice

StaffStep ==
    \/ mark_fraud \/ clear_fraud \/ cancel_order
    \/ \E n \in Lines : OpenRequest(n) \/ CancelRequest(n)

StartStep(w) == fulfil_order_task(w) \/ sweep_paid(w) \/ retry_fulfilment(w)

WorkStep(w) ==
    \/ LoadLines(w) \/ SkipLine(w) \/ MarkDone(w) \/ CheckLines(w) \/ Outcome(w)
    \/ \E n \in Lines : \/ fulfil_addon(w, n) \/ RequestService(w, n) \/ ReuseService(w, n)
                        \/ RequestRefused(w, n) \/ CompleteService(w, n) \/ RecordOutcome(w, n)
                        \/ StartTerm(w, n)

Next ==
    \/ BillingStep \/ StaffStep \/ Tick \/ sweep_reset
    \/ \E w \in Workers : StartStep(w) \/ WorkStep(w) \/ WorkerDies(w)

Spec == Init /\ [][Next]_vars

\* The sweeper runs every five minutes, so it is fair, and so are time and a
\* worker that has begun; nothing makes staff, customers or the queue act.
FairSpec ==
    /\ Spec
    /\ WF_vars(Tick) /\ WF_vars(sweep_reset)
    /\ \A w \in Workers : WF_vars(sweep_paid(w)) /\ WF_vars(WorkStep(w) \/ WorkerDies(w))

----------------------------------------------------------------------------
(* Correctness.                                                             *)

\* Statuses, lines, services and worker states are the ones the code has.
TypeOK ==
    /\ order \in OrderStatus /\ age \in 0..StuckAfter
    /\ inv \in [status : OPEN_STATUSES \cup SETTLED_STATUSES \cup {"cancelled"},
                paid : 0..MaxPaid, refunded : 0..MaxPaid]
    /\ line \in [Lines -> LineRow]
    /\ \A n \in Lines : line[n].service <= Len(svc[n])
    /\ svc \in [Lines -> Seq(ServiceRow)]
    /\ queue \in 0..MaxQueue
    /\ worker \in [Workers -> [pc : {"idle", "load", "line", "complete", "ask", "term", "done", "outcome"},
                               age : 0..TaskLimit, at : 0..NumLines + 1, copy : [Lines -> LineRow],
                               service : Nat, failures : BOOLEAN]]
    /\ desk \in [Lines -> Nat] /\ \A n \in Lines : desk[n] <= Len(svc[n])
    /\ crossed \subseteq Lines

\* Two workers never fulfil the order at once, whichever of the queue, the
\* sweeper and the staff's retry start them and wherever they die; a worker
\* that is busy works on an order that is in flight.
OneWorkerAtATime ==
    /\ \A v, w \in Workers : Busy(v) /\ Busy(w) => v = w
    /\ \A w \in Workers : Busy(w) => InFlight

\* A retry never makes a second hosting account or domain for a line, and a
\* line always points at the service made for it.
OneServicePerLine ==
    \A n \in Lines : Len(svc[n]) <= 1 /\ line[n].service = Len(svc[n])

\* An active order has every line done, every domain recorded, and every
\* hosting account made, with its term begun and running; not running is only
\* an account whose request staff cancelled from a page opened before it was
\* provisioned.  (What staff do to a running account, suspending or
\* terminating it, is not part of fulfilment.)
ActiveMeansDelivered ==
    order = "active" =>
        \A n \in Lines :
            /\ line[n].status = "done"
            /\ Kind[n] # "addon" => line[n].service # 0
            /\ Kind[n] = "hosting" =>
                  /\ svc[n][line[n].service].term
                  /\ svc[n][line[n].service].status = "active" \/ n \in crossed

\* verify_order's first checks: an order that is paid for or being delivered
\* has a settled invoice, one that awaits payment does not (unless money was
\* given back before it was paid: recompute_invoice then settles the invoice
\* without telling the order).
OrderAgreesWithInvoice ==
    /\ order \in {"paid", "provisioning", "active"} => inv.status \in SETTLED_STATUSES
    /\ order = "pending_payment" /\ inv.refunded = 0 => inv.status \notin SETTLED_STATUSES

\* The rows are well formed; an active order was delivered, whatever the
\* queue, crashes, resets and stale pages of staff did on the way; and an order
\* agrees with its invoice, up to the case of money given back early.
OrderIsSound == TypeOK /\ ActiveMeansDelivered /\ OrderAgreesWithInvoice

\* A paid order is picked up even when the broker lost its task, and a
\* fulfilment ends, also when its worker dies.
OrderMovesOn == (order = "paid" ~> order # "paid") /\ (InFlight ~> ~InFlight)

\* The order as its customer sees it.
OrderStage ==
    CASE order = "provisioning" -> "working"
      [] order = "active" -> "delivered"
      [] order = "cancelled" -> "closed"
      [] OTHER -> "waiting"

Customer == INSTANCE Delivery WITH
    NeedsGoods <- {n \in Lines : Kind[n] # "addon"},
    stage      <- OrderStage,
    settled    <- inv.status \in SETTLED_STATUSES,
    made       <- {n \in Lines : svc[n] # <<>>},
    ready      <- {n \in Lines : line[n].status = "done"}

\* All of fulfilment, with its queue, retries, crashes, holds and sweeps,
\* implements the simple promise of Delivery.
KeepsPromise == Customer!Spec
=============================================================================
