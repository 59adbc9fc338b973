----------------------------- MODULE ServiceLife -----------------------------
(***************************************************************************)
(* The paid term of one hosting account: renewals and upgrades that are   *)
(* invoiced, paid and applied (apps/renewals/services.py), the daily       *)
(* lifecycle run that warns, suspends, backs up and terminates an unpaid   *)
(* account (run_lifecycle in apps/lifecycle/services.py), and staff acting *)
(* on the account (apps/hosting/services.py).                              *)
(*                                                                         *)
(* The run and staff work on a copy of the account's row that they loaded  *)
(* earlier: they call the server first and write the row afterwards,       *)
(* without a lock.  A payment is applied in one transaction that locks the *)
(* row.  Dates are kept as days from today: left is the paid-through date. *)
(***************************************************************************)
EXTENDS Integers, FiniteSets

CONSTANTS
    MaxChanges,     \* bound on the renewals and upgrades that are invoiced
    Term,           \* days a renewal buys
    LeadDays,       \* BillingSettings.renewal_invoice_days
    GraceAfter,     \* LifecycleSettings.grace_after_days
    SuspendAfter,   \* LifecycleSettings.suspend_after_days
    TerminateAfter, \* LifecycleSettings.terminate_after_days
    BackupFirst     \* LifecycleSettings.backup_before_terminate

Changes == 1..MaxChanges

ASSUME ServiceLifeAssumption ==
    /\ MaxChanges \in Nat
    /\ Term \in Nat \ {0} /\ LeadDays \in Nat /\ BackupFirst \in BOOLEAN
    /\ GraceAfter \in Nat \ {0} /\ SuspendAfter \in Nat /\ TerminateAfter \in Nat
    /\ GraceAfter < SuspendAfter /\ SuspendAfter < TerminateAfter

VARIABLES
    acct,    \* the account's row
    srv,     \* the account on its server
    change,  \* the ServiceChange rows
    job,     \* the daily run, with its copy of the row
    staff,   \* a staff request, with its copy of the row
    ran,     \* the daily run has happened today
    noticed, \* a final notice exists for the current term
    history  \* what the properties need to know of the past

vars == <<acct, srv, change, job, staff, ran, noticed, history>>

----------------------------------------------------------------------------
(* Rows.                                                                    *)

\* Days further in the past than this are all alike.
Floor == -TerminateAfter
\* No account is paid further ahead than by its first term and all changes.
Ceiling == Term * (MaxChanges + 1)

Plans == {"small", "large"}
HostingStatus == {"active", "suspended", "terminated"}
ChangeStatus == {"none", "pending", "applied", "failed", "void"}
StaffOps == {"suspend", "unsuspend", "terminate"}

\* term counts the changes of expires_at, so that two dates can be compared.
AccountRow == [status : HostingStatus, suspended_for_nonpayment : BOOLEAN, left : Floor..Ceiling,
               term : 0..MaxChanges, plan : Plans, backup_requested : BOOLEAN]

\* The last backup of the server: none; asked for by the daily run in this
\* unpaid period, today or on an earlier day; or another one, by staff or from
\* an unpaid period that was paid since.
ServerAccount == [status : {"active", "suspended", "gone"},
                  backup : {"none", "other", "today", "earlier"}]

\* expected is the term an upgrade was priced for, moved whether applying the
\* change moved expires_at.
ChangeRow == [kind : {"none", "renewal", "upgrade"}, status : ChangeStatus, reported : BOOLEAN,
              expected : 0..MaxChanges, moved : BOOLEAN]

\* What the daily run uses of the row it loaded.
Copy == [left : Floor..Ceiling, term : 0..MaxChanges, backup_requested : BOOLEAN]
Loaded(a) == [left |-> a.left, term |-> a.term, backup_requested |-> a.backup_requested]
NoCopy == [left |-> 0, term |-> 0, backup_requested |-> FALSE]

JobSteps == {"idle", "lapsed", "suspend", "save_suspended", "stale", "end", "save_ended"}
IdleStaff == [pc |-> "idle", op |-> "suspend"]

\* Staff suspended the account and have not lifted that; the server refused to
\* lift a suspension after a payment; or, for good, row and server went ways
\* of their own: the row was written while somebody held a copy to write from,
\* or a call took effect and the row was not written (the answer was lost, or
\* the process died in between).
Histories == {"plain", "held", "liftFailed", "crossed"}
held == history = "held"
liftFailed == history = "liftFailed"
crossed == history = "crossed"

Remember(crosses, new) == history' = IF crossed \/ crosses THEN "crossed" ELSE new

NoChange == [kind |-> "none", status |-> "none", reported |-> FALSE,
             expected |-> 0, moved |-> FALSE]

Void == [NoChange EXCEPT !.status = "void"]

TypeOK ==
    /\ acct \in AccountRow /\ srv \in ServerAccount
    /\ change \in [Changes -> ChangeRow]
    /\ job \in [pc : JobSteps, copy : Copy]
    /\ staff \in [pc : {"idle", "call", "save"}, op : StaffOps]
    /\ {ran, noticed} \subseteq BOOLEAN /\ history \in Histories

Init ==
    /\ acct = [status |-> "active", suspended_for_nonpayment |-> FALSE, left |-> Term, term |-> 0,
               plan |-> "small", backup_requested |-> FALSE]
    /\ srv = [status |-> "active", backup |-> "none"]
    /\ change = [c \in Changes |-> NoChange]
    /\ job = [pc |-> "idle", copy |-> NoCopy]
    /\ staff = IdleStaff
    /\ ran = FALSE /\ noticed = FALSE
    /\ history = "plain"

JobHolds == job.pc \notin {"idle", "stale"}
StaffHolds == staff.pc # "idle"
Copied == JobHolds \/ StaffHolds

----------------------------------------------------------------------------
(* Invoicing renewals and upgrades.                                         *)

pending_change == \E c \in Changes : change[c].status = "pending"

\* The invoice and the change are made together, under the account's lock.
SaveChange(c, kind) ==
    /\ ~pending_change
    /\ change[c].status = "none" /\ \A d \in 1..(c - 1) : change[d].status # "none"
    /\ change' = [change EXCEPT ![c] = [NoChange EXCEPT !.kind = kind, !.status = "pending",
                                                        !.expected = IF kind = "upgrade" THEN acct.term ELSE 0]]
    /\ UNCHANGED <<acct, srv, job, staff, ran, noticed, history>>

\* A customer or staff; one invoice is given however often they ask.
create_hosting_renewal(c) ==
    /\ acct.status \in {"active", "suspended"}
    /\ SaveChange(c, "renewal")

\* The daily job.
generate_renewal_invoices(c) ==
    /\ acct.status = "active" /\ acct.left <= LeadDays
    /\ SaveChange(c, "renewal")

\* Only to a dearer plan.
create_upgrade(c) ==
    /\ acct.status = "active" /\ acct.plan = "small"
    /\ SaveChange(c, "upgrade")

\* The customer reports a payment; staff may reject it.
report_payment(c) ==
    /\ change[c].status = "pending" /\ ~change[c].reported
    /\ change' = [change EXCEPT ![c].reported = TRUE]
    /\ UNCHANGED <<acct, srv, job, staff, ran, noticed, history>>

reject_payment(c) ==
    /\ change[c].status = "pending" /\ change[c].reported
    /\ change' = [change EXCEPT ![c].reported = FALSE]
    /\ Remember(JobHolds, history)
    /\ UNCHANGED <<acct, srv, job, staff, ran, noticed>>

\* The invoice is cancelled.
void_changes(c) ==
    /\ change[c].status = "pending"
    /\ change' = [change EXCEPT ![c] = Void]
    /\ Remember(JobHolds, history)
    /\ UNCHANGED <<acct, srv, job, staff, ran, noticed>>

dismiss_change(c) ==
    /\ change[c].status = "failed"
    /\ change' = [change EXCEPT ![c] = Void]
    /\ UNCHANGED <<acct, srv, job, staff, ran, noticed, history>>

----------------------------------------------------------------------------
(* Applying a paid change, in the transaction that records the payment.     *)

\* Fault: a renewal always starts a fresh term today.
Extended_fresh(a) == [a EXCEPT !.left = Term, !.term = @ + 1]

\* A term that has not run out is extended, another starts today.
Extended(a) == [a EXCEPT !.left = IF a.left > 0 THEN a.left + Term ELSE Term, !.term = @ + 1]

\* Fault: the flag is not looked at.
LiftsSuspension_any(a) == a.status = "suspended" /\ a.left > 0

LiftsSuspension(a) == a.status = "suspended" /\ a.suspended_for_nonpayment /\ a.left > 0

Active(a) == [a EXCEPT !.status = "active", !.suspended_for_nonpayment = FALSE]

\* What applying c writes about c itself.
Applied(c, moves) ==
    change' = [change EXCEPT ![c].status = "applied", ![c].reported = FALSE, ![c].moved = moves]

\* With the term that begins, a backup belongs to an earlier unpaid period.
OfThePast(s) == [s EXCEPT !.backup = IF @ = "none" THEN @ ELSE "other"]

\* A renewal, and the lifting of a suspension made for non-payment, which the
\* server may do without its answer coming back.
apply_renewal(c) ==
    LET a == Extended(acct)
    IN  /\ change[c].kind = "renewal" /\ acct.status \in {"active", "suspended"}
        /\ Applied(c, TRUE)
        /\ noticed' = FALSE
        /\ \/ /\ LiftsSuspension(a) /\ srv.status # "gone"
              /\ srv' = [OfThePast(srv) EXCEPT !.status = "active"]
              /\ \/ acct' = Active(a) /\ Remember(Copied, IF liftFailed THEN "plain" ELSE history)
                 \/ acct' = a /\ Remember(TRUE, history)
           \/ /\ acct' = a /\ srv' = OfThePast(srv)
              /\ Remember(Copied, IF LiftsSuspension(a) THEN "liftFailed" ELSE history)

UpgradeStands(c) ==
    acct.status = "active" /\ acct.plan = "small" /\ acct.term = change[c].expected

\* An upgrade leaves a running term alone; an expired one starts afresh.
apply_upgrade(c) ==
    /\ change[c].kind = "upgrade" /\ UpgradeStands(c) /\ srv.status # "gone"
    /\ Applied(c, acct.left <= 0)
    /\ acct' = [IF acct.left > 0 THEN acct ELSE Extended(acct) EXCEPT !.plan = "large"]
    /\ srv' = IF acct.left > 0 THEN srv ELSE OfThePast(srv)
    /\ noticed' = (noticed /\ acct.left > 0)
    /\ Remember(Copied, history)

\* Refused by the rules or the server, or an unexpected error: the payment
\* stands and the change needs attention.
ApplyFails(c) ==
    /\ change' = [change EXCEPT ![c].status = "failed", ![c].reported = FALSE]
    /\ Remember(Copied, history)
    /\ UNCHANGED <<acct, srv, noticed>>

apply(c) ==
    /\ apply_renewal(c) \/ apply_upgrade(c) \/ ApplyFails(c)
    /\ UNCHANGED <<job, staff, ran>>

apply_paid_invoice(c) == change[c].status = "pending" /\ apply(c)

\* Fault: a change that was applied can be retried too.
retry_change_any(c) == change[c].status \in {"failed", "applied"} /\ apply(c)

retry_change(c) == change[c].status = "failed" /\ apply(c)

\* The process dies after the server lifted the suspension: the payment's
\* transaction is rolled back, the server's work is not.
LiftRolledBack(c) ==
    /\ change[c].status \in {"pending", "failed"} /\ change[c].kind = "renewal"
    /\ LiftsSuspension(Extended(acct)) /\ srv.status # "gone"
    /\ srv' = [srv EXCEPT !.status = "active"] /\ Remember(TRUE, history)
    /\ UNCHANGED <<acct, change, job, staff, ran, noticed>>

----------------------------------------------------------------------------
(* The daily run (run_lifecycle).                                           *)

payment_awaiting_confirmation == \E c \in Changes : change[c].status = "pending" /\ change[c].reported

DaysPast == -job.copy.left

Goto(pc) == job' = [job EXCEPT !.pc = pc]
Leave(pc) == job' = [pc |-> pc, copy |-> NoCopy]

\* The query for lapsed accounts loads the row.
JobStart ==
    /\ job.pc = "idle" /\ ~ran
    /\ ran' = TRUE
    /\ job' = IF acct.status = "active" /\ acct.left <= 0
              THEN [pc |-> "lapsed", copy |-> Loaded(acct)] ELSE [pc |-> "stale", copy |-> NoCopy]
    /\ UNCHANGED <<acct, srv, change, staff, noticed, history>>

send_grace_notice == DaysPast >= GraceAfter /\ ~payment_awaiting_confirmation

JobNotice ==
    /\ job.pc = "lapsed" /\ Goto("suspend")
    /\ noticed' = (noticed \/ (send_grace_notice /\ acct.term = job.copy.term))
    /\ UNCHANGED <<acct, srv, change, staff, ran, history>>

\* Fault: suspension is tried on one day only.
ShouldSuspend_once == DaysPast = SuspendAfter /\ ~payment_awaiting_confirmation

ShouldSuspend == DaysPast >= SuspendAfter /\ ~payment_awaiting_confirmation

JobSuspend ==
    /\ job.pc = "suspend" /\ ShouldSuspend
    /\ srv.status # "gone" /\ srv' = [srv EXCEPT !.status = "suspended"]
    /\ Goto("save_suspended")
    /\ UNCHANGED <<acct, change, staff, ran, noticed, history>>

\* Nothing to do yet, or the server refused: the next account.
JobNoSuspend ==
    /\ job.pc = "suspend" /\ Leave("stale")
    /\ UNCHANGED <<acct, srv, change, staff, ran, noticed, history>>

JobSaveSuspended ==
    /\ job.pc = "save_suspended" /\ Leave("stale")
    /\ acct' = [acct EXCEPT !.status = "suspended", !.suspended_for_nonpayment = TRUE]
    /\ Remember(StaffHolds, history)
    /\ UNCHANGED <<srv, change, staff, ran, noticed>>

\* What the server did is not written: an exception, and the run goes on, or
\* the run is killed.
JobNotSaved ==
    /\ job.pc \in {"save_suspended", "save_ended"} /\ Remember(TRUE, history)
    /\ Leave("idle") \/ (job.pc = "save_suspended" /\ Leave("stale"))
    /\ UNCHANGED <<acct, srv, change, staff, ran, noticed>>

\* The query for accounts that stayed suspended for non-payment.
IsStale ==
    /\ acct.status = "suspended" /\ acct.suspended_for_nonpayment
    /\ acct.left <= -TerminateAfter

JobStale ==
    /\ job.pc = "stale"
    /\ job' = IF IsStale THEN [pc |-> "end", copy |-> Loaded(acct)] ELSE [pc |-> "idle", copy |-> NoCopy]
    /\ UNCHANGED <<acct, srv, change, staff, ran, noticed, history>>

BackupDue == BackupFirst /\ ~job.copy.backup_requested

\* backup_requested_at, which nothing resets.  (A backup whose answer is lost
\* is only asked for again.)
BackupRecorded == acct' = [acct EXCEPT !.backup_requested = TRUE]

\* A backup is asked for on one run, termination on a later one.
JobEnd ==
    /\ job.pc = "end"
    /\ \/ /\ srv.status # "gone" /\ BackupDue
          /\ srv' = [srv EXCEPT !.backup = "today"] /\ Leave("idle")
          /\ BackupRecorded
       \/ /\ srv.status # "gone" /\ ~BackupDue
          /\ srv' = [srv EXCEPT !.status = "gone"] /\ Goto("save_ended")
          /\ UNCHANGED acct
       \/ Leave("idle") /\ UNCHANGED <<srv, acct>>
    /\ UNCHANGED <<change, staff, ran, noticed, history>>

JobSaveEnd ==
    /\ job.pc = "save_ended" /\ Leave("idle")
    /\ acct' = [acct EXCEPT !.status = "terminated"]
    /\ Remember(StaffHolds, history)
    /\ UNCHANGED <<srv, change, staff, ran, noticed>>

\* A run and a request take less than a day: the task's time limit is five
\* minutes.  Days are counted while the account is on its server.
NextDay ==
    /\ job.pc = "idle" /\ staff.pc = "idle" /\ srv.status # "gone"
    /\ acct' = [acct EXCEPT !.left = IF @ > Floor THEN @ - 1 ELSE @]
    /\ srv' = [srv EXCEPT !.backup = IF @ = "today" THEN "earlier" ELSE @]
    /\ ran' = FALSE
    /\ UNCHANGED <<change, job, staff, noticed, history>>

----------------------------------------------------------------------------
(* Staff: load the page's account, call the server, write the row.          *)

Allowed(op, status) ==
    CASE op = "suspend"   -> status = "active"
      [] op = "unsuspend" -> status = "suspended"
      [] op = "terminate" -> status \in {"active", "suspended"}

\* The service function checks the status of the copy it was given.
StaffLoad(op) ==
    /\ staff.pc = "idle" /\ Allowed(op, acct.status)
    /\ staff' = [IdleStaff EXCEPT !.pc = "call", !.op = op]
    /\ UNCHANGED <<acct, srv, change, job, ran, noticed, history>>

StaffCall ==
    /\ staff.pc = "call" /\ srv.status # "gone"
    /\ staff' = [staff EXCEPT !.pc = "save"]
    /\ srv' = [srv EXCEPT !.status = CASE staff.op = "suspend"   -> "suspended"
                                       [] staff.op = "unsuspend" -> "active"
                                       [] staff.op = "terminate" -> "gone"]
    /\ Remember(FALSE, IF held /\ staff.op # "suspend" THEN "plain" ELSE history)
    /\ UNCHANGED <<acct, change, job, ran, noticed>>

StaffFails ==
    /\ staff.pc = "call" /\ staff' = IdleStaff
    /\ UNCHANGED <<acct, srv, change, job, ran, noticed, history>>

StaffSave ==
    /\ staff.pc = "save" /\ staff' = IdleStaff
    /\ acct' = CASE staff.op = "suspend"   -> [acct EXCEPT !.status = "suspended",
                                                           !.suspended_for_nonpayment = FALSE]
                 [] staff.op = "unsuspend" -> Active(acct)
                 [] staff.op = "terminate" -> [acct EXCEPT !.status = "terminated"]
    /\ Remember(JobHolds, IF staff.op = "suspend" THEN "held" ELSE "plain")
    /\ UNCHANGED <<srv, change, job, ran, noticed>>

StaffNotSaved ==
    /\ staff.pc = "save" /\ staff' = IdleStaff /\ Remember(TRUE, history)
    /\ UNCHANGED <<acct, srv, change, job, ran, noticed>>

\* The server's answer is written whatever the row says, without touching the
\* reason for a suspension. (Provisioning has the answer outdated by the time
\* it is written.)
sync_status ==
    /\ srv.status # "gone"
    /\ acct' = [acct EXCEPT !.status = srv.status]
    /\ Remember(Copied, history)
    /\ UNCHANGED <<srv, change, job, staff, ran, noticed>>

\* Asking for a backup touches columns nobody else writes, so the call and
\* the write are one step.  It does not take away one the run asked for before.
backup_account ==
    /\ srv.status # "gone"
    /\ srv' = [srv EXCEPT !.backup = IF @ = "earlier" THEN @ ELSE "other"]
    /\ BackupRecorded
    /\ UNCHANGED <<change, job, staff, ran, noticed, history>>

----------------------------------------------------------------------------
Job == JobStart \/ JobNotice \/ JobSuspend \/ JobNoSuspend \/ JobSaveSuspended
       \/ JobStale \/ JobEnd \/ JobSaveEnd \/ JobNotSaved

Next ==
    \/ \E c \in Changes :
          \/ create_hosting_renewal(c) \/ generate_renewal_invoices(c) \/ create_upgrade(c)
          \/ report_payment(c) \/ reject_payment(c) \/ void_changes(c)
          \/ apply_paid_invoice(c) \/ retry_change(c) \/ dismiss_change(c)
          \/ LiftRolledBack(c)
    \/ Job \/ NextDay
    \/ \E op \in StaffOps : StaffLoad(op)
    \/ StaffCall \/ StaffFails \/ StaffSave \/ StaffNotSaved \/ sync_status \/ backup_account

Spec == Init /\ [][Next]_vars

\* Days pass, the run is started every day and goes on (Celery beat and its
\* time limit), staff requests end, and a server that is asked day after day
\* to suspend the account does so in the end, and the run lives to record it.
FairSpec ==
    /\ Spec /\ SF_vars(NextDay) /\ WF_vars(Job) /\ SF_vars(JobSuspend) /\ SF_vars(JobSaveSuspended)
    /\ WF_vars(StaffCall \/ StaffFails \/ StaffSave \/ StaffNotSaved)

----------------------------------------------------------------------------
(* Properties.                                                              *)

\* Every change of the paid-through date was bought by a change that is
\* applied: no payment is applied twice, by payment, retry or both
\* (apply_paid_invoice, retry_change).
TermsWerePaidFor ==
    acct.term = Cardinality({c \in Changes : change[c].status = "applied" /\ change[c].moved})

\* Only the passing of a day shortens the paid period, and a change that moves
\* its end adds a whole term to what was left: "no time is lost", whether the
\* change was applied by payment or by a later retry.
NoTimeIsLost ==
    [][/\ acct'.left < acct.left => ~ran' /\ acct'.left = acct.left - 1
       /\ acct'.term # acct.term => acct'.left = Term + (IF acct.left > 0 THEN acct.left ELSE 0)]_vars

\* Once a renewal is paid the account is not left suspended for non-payment,
\* unless the server refused, two writers crossed or what the server did was
\* not recorded (lift_suspension_after_payment).
PaidIsUp ==
    acct.status = "suspended" /\ acct.suspended_for_nonpayment /\ acct.left > 0
        => crossed \/ liftFailed

\* A non-payment suspension comes after the final notice for that term
\* (run_lifecycle checks for reported payments twice).
WarnedFirst ==
    acct.status = "suspended" /\ acct.suspended_for_nonpayment /\ acct.left <= 0
        => noticed \/ crossed \/ liftFailed

\* The daily run removes an account that has no other backup only after one it
\* asked for itself, in this unpaid period, on an earlier day
\* (backup_before_terminate: request a backup first, and wait a day).  The code
\* takes every other backup for that one, as backup_requested_at is never
\* reset: staff's, however old or of the same day, and the run's own from an
\* unpaid period that was paid since.
BackupBeforeRemoval ==
    [][job.pc = "end" /\ job'.pc = "save_ended" /\ BackupFirst
          => srv.backup \in {"earlier", "other"}]_vars

\* A suspension staff made stays until staff lift it or end the account,
\* unless two writers crossed or what the server did was not recorded: no
\* payment lifts it and no run removes it.
StaffHoldStays == held => acct.status = "suspended" \/ crossed

\* Whoever is suspended is so for a reason: unpaid and warned, or by staff
\* (up to what is said of crossed writers, refusals and lost answers above);
\* and the rows are well formed.
SuspensionIsFair == TypeOK /\ PaidIsUp /\ WarnedFirst /\ StaffHoldStays

\* No paid time goes missing, and the run removes no account that has no other
\* backup before the one it owes it.
NothingIsLost == NoTimeIsLost /\ BackupBeforeRemoval

\* An account that stays unpaid and unreported is suspended in the end, if it
\* still is on its server.
UnpaidIsSuspended ==
    (acct.status = "active" /\ acct.left <= -SuspendAfter /\ ~payment_awaiting_confirmation)
        ~> (\/ acct.status # "active" \/ acct.left > 0
            \/ payment_awaiting_confirmation \/ srv.status = "gone")
=============================================================================
