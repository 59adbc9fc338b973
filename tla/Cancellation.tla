---------------------------- MODULE Cancellation ----------------------------
(***************************************************************************)
(* Ending a hosting account or a domain on request:                        *)
(* apps/lifecycle/services.py (request, approve, reject, withdraw,         *)
(* execute, retry, daily job) with the table of legal moves                *)
(* (transitions.py), the renewal invoice that approval closes and the      *)
(* auto-renewal of a domain that it switches off.                          *)
(*                                                                         *)
(* Reviewing is one transaction under the request's and the service's row  *)
(* locks.  Carrying a request out is not: a worker claims it with one      *)
(* conditional update, asks the server to remove the account, gives the    *)
(* refund, then completes the request.  It may fail or die at each step; a *)
(* claim older than ClaimTimeout counts for nothing.                       *)
(***************************************************************************)
EXTENDS Integers

CONSTANTS
    Requests,      \* cancellation requests for the service
    Workers,       \* processes that carry requests out
    Paid,          \* what the customer paid for the service
    ClaimTimeout,  \* CLAIM_TIMEOUT
    WorkLimit,     \* the longest a worker lives once it has claimed
    MaxCrashes     \* bound on workers that die

ASSUME CancellationAssumption ==
    /\ Paid \in Nat /\ MaxCrashes \in Nat
    /\ ClaimTimeout \in Nat /\ WorkLimit \in Nat /\ WorkLimit < ClaimTimeout

VARIABLES
    kind,      \* the service: "hosting" or "domain"
    live,      \* the account is active or suspended, the domain active
    auto,      \* Domain.auto_renew, "on" or "off"
    wanted,    \* history: how the customer set it; "mixed": while a request was approved
    renewal,   \* its open renewal invoice, "none" if there is none
    cr,        \* the cancellation requests
    worker,    \* what each worker is doing
    given,     \* money given back on account of each request
    returned,  \* money given back in all
    crashes    \* workers that died

service == <<kind, live, auto, wanted>>
vars == <<service, renewal, cr, worker, given, returned, crashes>>

----------------------------------------------------------------------------
CancellationStatus == {"pending", "approved", "completed", "rejected", "withdrawn"}

OPEN_STATUSES == {"pending", "approved"}

TRANSITIONS ==
    [none      |-> {},
     pending   |-> {"approved", "rejected", "withdrawn"},
     approved  |-> {"completed", "withdrawn"},
     completed |-> {}, rejected |-> {}, withdrawn |-> {}]

CanTransition(r, to) == to \in TRANSITIONS[cr[r].status]

NotClaimed == -1

\* due: effective_at has come; claim: the age of claimed_at; tx: whether
\* refund_transaction is set; error: whether last_error is; before:
\* auto_renew_before, "none" if not set.
NoRequest == [status |-> "none", due |-> FALSE, refund |-> 0, claim |-> NotClaimed,
              tx |-> FALSE, error |-> FALSE, before |-> "none"]

RequestRow == [status : CancellationStatus \cup {"none"}, due : BOOLEAN, refund : 0..Paid,
               claim : NotClaimed..ClaimTimeout, tx : BOOLEAN, error : BOOLEAN,
               before : {"none", "on", "off"}]

IdleWorker == [pc |-> "idle", request |-> "none", age |-> 0, tx |-> FALSE]

HasOpenRequest == \E r \in Requests : cr[r].status \in OPEN_STATUSES

FreshClaim(r) == cr[r].claim # NotClaimed /\ cr[r].claim < ClaimTimeout

----------------------------------------------------------------------------
(* The renewal of the service, as far as ending it is concerned.            *)

\* Refused while a cancellation request is open; one invoice at a time.
create_renewal ==
    /\ live /\ ~HasOpenRequest /\ renewal = "none"
    /\ renewal' = "unpaid"
    /\ UNCHANGED <<service, cr, worker, given, returned, crashes>>

PayPart ==
    /\ renewal = "unpaid" /\ renewal' = "partly_paid"
    /\ UNCHANGED <<service, cr, worker, given, returned, crashes>>

\* Paid in full: applied, or kept as failed (see ServiceLife and Domains).
PayRenewal ==
    /\ renewal \in {"unpaid", "partly_paid"} /\ renewal' = "none"
    /\ UNCHANGED <<service, cr, worker, given, returned, crashes>>

----------------------------------------------------------------------------
(* Requesting and reviewing.                                                *)

Approved == {r \in Requests : cr[r].status = "approved"}

\* The customer's switch; it does not ask about cancellations.  (Of a domain
\* that has ended nothing depends on it.)
set_auto_renew ==
    /\ kind = "domain" /\ live
    /\ auto' \in {"on", "off"} \ {auto}
    /\ wanted' = IF Approved = {} THEN auto' ELSE "mixed"
    /\ UNCHANGED <<kind, live, renewal, cr, worker, given, returned, crashes>>

request_cancellation(r) ==
    /\ cr[r].status = "none" /\ live /\ ~HasOpenRequest
    /\ cr' = [cr EXCEPT ![r].status = "pending"]
    /\ UNCHANGED <<service, renewal, worker, given, returned, crashes>>

\* An unpaid renewal invoice is cancelled, one with money on it left to staff.
cancel_open_renewals == renewal' = IF renewal = "unpaid" THEN "none" ELSE renewal

\* The amount was checked against the payment before the transaction; a
\* refund goes with an immediate end only, which a domain does not have.  If
\* the end has come, the same process goes on to carry the request out.
approve(w, r, immediate, refund) ==
    /\ worker[w].pc = "idle"
    /\ CanTransition(r, "approved") /\ live
    /\ refund > 0 => immediate /\ kind = "hosting" /\ refund <= Paid - returned
    /\ cancel_open_renewals
    /\ cr' = [cr EXCEPT ![r].status = "approved", ![r].due = immediate, ![r].refund = refund,
                        ![r].error = FALSE, ![r].before = IF kind = "domain" THEN auto ELSE @]
    /\ auto' = "off"
    /\ worker' = IF immediate
                 THEN [worker EXCEPT ![w] = [IdleWorker EXCEPT !.pc = "claim", !.request = r]]
                 ELSE worker
    /\ UNCHANGED <<kind, live, wanted, given, returned, crashes>>

reject(r) ==
    /\ CanTransition(r, "rejected")
    /\ cr' = [cr EXCEPT ![r].status = "rejected"]
    /\ UNCHANGED <<service, renewal, worker, given, returned, crashes>>

\* Fault: a request that is being carried out can be withdrawn.
withdraw_anytime(r) ==
    /\ CanTransition(r, "withdrawn")
    /\ cr' = [cr EXCEPT ![r].status = "withdrawn"]
    /\ auto' = IF cr[r].before = "none" THEN auto ELSE cr[r].before
    /\ UNCHANGED <<kind, live, wanted, renewal, worker, given, returned, crashes>>

\* Not while it is being carried out; a domain renews again as it did before.
withdraw(r) ==
    /\ CanTransition(r, "withdrawn")
    /\ ~(cr[r].status = "approved" /\ FreshClaim(r))
    /\ cr' = [cr EXCEPT ![r].status = "withdrawn"]
    /\ auto' = IF cr[r].before = "none" THEN auto ELSE cr[r].before
    /\ UNCHANGED <<kind, live, wanted, renewal, worker, given, returned, crashes>>

\* The day an end-of-term request takes effect.
EffectiveDay(r) ==
    /\ cr[r].status = "approved" /\ ~cr[r].due
    /\ cr' = [cr EXCEPT ![r].due = TRUE]
    /\ UNCHANGED <<service, renewal, worker, given, returned, crashes>>

----------------------------------------------------------------------------
(* Carrying a request out.                                                  *)

Begin(w, r) ==
    /\ worker[w].pc = "idle" /\ cr[r].status = "approved"
    /\ worker' = [worker EXCEPT ![w] = [IdleWorker EXCEPT !.pc = "claim", !.request = r]]
    /\ UNCHANGED <<service, renewal, cr, given, returned, crashes>>

\* Fault: the daily job overlooks a request that failed before.
run_due_cancellations_fresh(w, r) == cr[r].due /\ cr[r].claim = NotClaimed /\ Begin(w, r)

\* The daily job finds what is due; staff may carry out any approved request
\* ("Carry out now").
run_due_cancellations(w, r) == cr[r].due /\ Begin(w, r)

retry(w, r) == Begin(w, r)

\* Fault: the request is claimed whoever has it.
MayClaim_always(r) == cr[r].status = "approved"

MayClaim(r) == cr[r].status = "approved" /\ ~FreshClaim(r)

\* One conditional update (the worker's age counts from it); a caller that does not get the claim goes away.
claim(w) ==
    LET r == worker[w].request
    IN  /\ worker[w].pc = "claim"
        /\ IF MayClaim(r)
           THEN /\ cr' = [cr EXCEPT ![r].claim = 0]
                /\ worker' = [worker EXCEPT ![w].pc = "end", ![w].tx = cr[r].tx, ![w].age = 0]
           ELSE /\ worker' = [worker EXCEPT ![w] = IdleWorker]
                /\ UNCHANGED cr
        /\ UNCHANGED <<service, renewal, given, returned, crashes>>

\* The server removes the account, or the domain is marked as cancelled; if
\* that fails the claim is released with the error, and the request stays
\* approved.  Nothing is done to what has ended before.
end_service(w) ==
    /\ worker[w].pc = "end"
    /\ \/ /\ live' = FALSE /\ auto' = IF live THEN "off" ELSE auto
          /\ worker' = [worker EXCEPT ![w].pc = "refund"]
          /\ UNCHANGED cr
       \/ /\ live
          /\ cr' = [cr EXCEPT ![worker[w].request].claim = NotClaimed, ![worker[w].request].error = TRUE]
          /\ worker' = [worker EXCEPT ![w] = IdleWorker]
          /\ UNCHANGED <<live, auto>>
    /\ UNCHANGED <<kind, wanted, renewal, given, returned, crashes>>

\* Skipped if nothing was promised or it was given; a refusal is noted and
\* the request goes on.
give_refund(w) ==
    LET r == worker[w].request
    IN  /\ worker[w].pc = "refund"
        /\ \/ /\ cr[r].refund > 0 /\ ~worker[w].tx /\ cr[r].refund <= Paid - returned
              /\ given' = [given EXCEPT ![r] = @ + cr[r].refund]
              /\ returned' = returned + cr[r].refund
              /\ worker' = [worker EXCEPT ![w].pc = "complete", ![w].tx = TRUE]
           \/ /\ worker' = [worker EXCEPT ![w].pc = "complete"]
              /\ UNCHANGED <<given, returned>>
        /\ UNCHANGED <<service, renewal, cr, crashes>>

\* Refused, with nothing written, if the request was withdrawn meanwhile.
complete(w) ==
    LET r == worker[w].request
    IN  /\ worker[w].pc = "complete"
        /\ cr' = IF CanTransition(r, "completed")
                 THEN [cr EXCEPT ![r].status = "completed", ![r].claim = NotClaimed,
                                 ![r].tx = worker[w].tx, ![r].error = FALSE]
                 ELSE cr
        /\ worker' = [worker EXCEPT ![w] = IdleWorker]
        /\ UNCHANGED <<service, renewal, given, returned, crashes>>

Die(w) ==
    /\ worker[w].pc # "idle" /\ crashes < MaxCrashes
    /\ worker' = [worker EXCEPT ![w] = IdleWorker]
    /\ crashes' = crashes + 1
    /\ UNCHANGED <<service, renewal, cr, given, returned>>

Tick ==
    /\ \A w \in Workers : worker[w].pc # "idle" => worker[w].age < WorkLimit
    /\ cr' = [r \in Requests |-> IF FreshClaim(r) THEN [cr[r] EXCEPT !.claim = @ + 1] ELSE cr[r]]
    /\ worker' = [w \in Workers |-> IF worker[w].pc = "idle" THEN worker[w]
                                    ELSE [worker[w] EXCEPT !.age = @ + 1]]
    /\ UNCHANGED <<service, renewal, given, returned, crashes>>

----------------------------------------------------------------------------
Init ==
    /\ kind \in {"hosting", "domain"} /\ live = TRUE /\ renewal = "none"
    /\ auto \in IF kind = "domain" THEN {"on", "off"} ELSE {"off"}
    /\ wanted = auto
    /\ cr = [r \in Requests |-> NoRequest]
    /\ worker = [w \in Workers |-> IdleWorker]
    /\ given = [r \in Requests |-> 0] /\ returned = 0 /\ crashes = 0

ReviewNext ==
    \E r \in Requests :
        \/ request_cancellation(r) \/ reject(r) \/ withdraw(r) \/ EffectiveDay(r)
        \/ \E w \in Workers, immediate \in BOOLEAN, refund \in 0..Paid : approve(w, r, immediate, refund)

Work(w) == claim(w) \/ end_service(w) \/ give_refund(w) \/ complete(w)

WorkNext ==
    \E w \in Workers :
        \/ Work(w) \/ Die(w)
        \/ \E r \in Requests : run_due_cancellations(w, r) \/ retry(w, r)

Next == create_renewal \/ PayPart \/ PayRenewal \/ set_auto_renew \/ ReviewNext \/ WorkNext \/ Tick

Spec == Init /\ [][Next]_vars

\* The job runs every day, a process that has begun goes on (or dies), time
\* passes; nobody has to review, pay or withdraw.
FairSpec ==
    /\ Spec /\ WF_vars(Tick)
    /\ \A w \in Workers : WF_vars(Work(w))
    /\ \A r \in Requests : WF_vars(\E w \in Workers : run_due_cancellations(w, r))

----------------------------------------------------------------------------
(* Correctness.                                                             *)

\* Rows and worker states are the ones the code has.
TypeOK ==
    /\ kind \in {"hosting", "domain"} /\ live \in BOOLEAN
    /\ auto \in {"on", "off"} /\ wanted \in {"on", "off", "mixed"}
    /\ renewal \in {"none", "unpaid", "partly_paid"}
    /\ cr \in [Requests -> RequestRow]
    /\ worker \in [Workers -> [pc : {"idle", "claim", "end", "refund", "complete"},
                               request : Requests \cup {"none"}, age : 0..WorkLimit, tx : BOOLEAN]]
    /\ given \in [Requests -> Nat] /\ returned \in 0..Paid /\ crashes \in 0..MaxCrashes

Executing(w) == worker[w].pc \in {"end", "refund", "complete"}

\* "two workers never end it twice": at most one worker is past the claim of
\* a request, also when earlier ones died and their claims ran out.
OneExecutor ==
    \A v, w \in Workers :
        Executing(v) /\ Executing(w) /\ worker[v].request = worker[w].request => v = w

\* A request is complete, and money given for it, only once the service has
\* ended.
EndedFirst ==
    \A r \in Requests : cr[r].status = "completed" \/ given[r] > 0 => ~live

\* While no worker dies, a request gives back what was approved at most once,
\* however often it fails, is retried or is carried out by hand and by the
\* job at the same time.
RefundedOnce == crashes = 0 => \A r \in Requests : given[r] <= cr[r].refund

\* While no worker dies, a request that was withdrawn or rejected had no
\* effect: a withdrawal cannot overtake the worker that ends the service.
WithdrawnHadNoEffect ==
    crashes = 0 =>
        \A r \in Requests :
            cr[r].status \in {"withdrawn", "rejected"} =>
                /\ given[r] = 0
                /\ ~ \E w \in Workers : Executing(w) /\ worker[w].request = r

\* Nobody is asked to pay for the renewal of a service that is being ended.
NoInvoiceForEndingService == Approved # {} => renewal # "unpaid"

\* A domain that is being ended does not renew by itself, and one that is kept
\* after all renews as the customer had it, whatever was requested, rejected
\* and withdrawn in between (unless the customer set it meanwhile).
AutoRenewIsKept ==
    kind = "domain" /\ live /\ wanted # "mixed" =>
        auto = IF Approved = {} THEN wanted ELSE "off"

\* What a request did to the service, its invoices and the money is what its
\* status says, and the rows are well formed.
EffectsMatchStatus ==
    TypeOK /\ EndedFirst /\ RefundedOnce /\ WithdrawnHadNoEffect /\ NoInvoiceForEndingService /\ AutoRenewIsKept

\* A request whose day has come is carried out, taken back, or shows an error
\* for staff to act on; a dead worker's claim does not block it for ever.
DueIsAttempted ==
    \A r \in Requests :
        (cr[r].status = "approved" /\ cr[r].due) ~> (cr[r].status # "approved" \/ cr[r].error)

\* execute: "Idempotent and safe to run twice": also after a worker died, a
\* request does not give back more than was approved.
RefundedOnceEver == \A r \in Requests : given[r] <= cr[r].refund
=============================================================================
