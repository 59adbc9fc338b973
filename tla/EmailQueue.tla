----------------------------- MODULE EmailQueue -----------------------------
(***************************************************************************)
(* The email queue of apps/notifications/services.py and its tasks.        *)
(*                                                                         *)
(* An email is a row and a Celery task.  deliver counts the attempt under  *)
(* the row lock, talks to the mail server without it, and writes the       *)
(* outcome from its copy.  The task is retried; a sweep queues another     *)
(* task for a row that has not changed for a while; staff resend, delete   *)
(* and purge; a daily job wipes secrets that were not delivered.           *)
(***************************************************************************)
EXTENDS Integers, FiniteSetsExt

CONSTANTS
    Emails,            \* emails the portal records
    Workers,           \* Celery workers
    MaxRetries,        \* max_retries of the delivery task
    SweepMaxAttempts,  \* SWEEP_MAX_ATTEMPTS
    MaxQueue,          \* bound: tasks that wait for one email
    MaxFaults,         \* bound: workers that die and tasks the broker loses
    MaxResends         \* bound: staff resends

ASSUME EmailQueueAssumption ==
    /\ MaxRetries \in Nat /\ SweepMaxAttempts \in Nat
    /\ MaxQueue \in Nat /\ MaxFaults \in Nat /\ MaxResends \in Nat

VARIABLES
    row,       \* EmailMessage: status, attempts, is_sensitive, sensitive_body, ages
    queue,     \* tasks waiting: email and number of retries so far -> how many
    worker,    \* what each worker is doing, with the copy it loaded
    mails,     \* external: what the mail server accepted
    faults,    \* deaths and losses so far
    resends    \* staff resends so far

bounds == <<faults, resends>>
queueVars == <<row, queue, worker, mails, bounds>>

----------------------------------------------------------------------------
NoRow == [status |-> "none", attempts |-> 0, sensitive |-> FALSE, secret |-> FALSE,
          quiet |-> FALSE, old |-> FALSE]

\* quiet: unchanged for SWEEP_AFTER.  old: created longer ago than SENSITIVE_KEEP_FAILED.
QueuedRow(sensitive) == [NoRow EXCEPT !.status = "queued", !.sensitive = sensitive, !.secret = sensitive]

IdleWorker == [pc |-> "idle"]

Exists(e) == row[e].status \in {"queued", "sent", "failed"}

Waiting(e) == FoldSet(LAMBDA r, n : n + queue[e, r], 0, 0..MaxRetries)

\* A sensitive email whose secret was removed.
Wiped(e) == row[e].sensitive /\ ~row[e].secret

\* deliver_email.delay.
Enqueued(e, retries) == [queue EXCEPT ![<<e, retries>>] = @ + 1]

\* A worker has the task.
Taken(e, retries) == [queue EXCEPT ![<<e, retries>>] = @ - 1]

\* An exception: autoretry queues the task again while it has retries left.
Retried(q, e, retries) == IF retries < MaxRetries THEN [q EXCEPT ![<<e, retries + 1>>] = @ + 1] ELSE q

\* Fault, not of this code: the broker or the caller ends before the task is queued.
OneFault == faults < MaxFaults /\ faults' = faults + 1

\* The task is queued once the transaction has committed, unless the process
\* or the broker ends in between.
EnqueueOnCommit(e) ==
    \/ queue' = Enqueued(e, 0) /\ UNCHANGED faults
    \/ OneFault /\ UNCHANGED queue

send_email(e, sensitive) ==
    /\ row[e] = NoRow
    /\ row' = [row EXCEPT ![e] = QueuedRow(sensitive)]
    /\ EnqueueOnCommit(e)
    /\ UNCHANGED <<worker, mails, resends>>

----------------------------------------------------------------------------
(* Time.                                                                    *)

\* SENSITIVE_KEEP_FAILED passes since the email was recorded.
SecretGrowsOld(e) ==
    /\ row[e].secret /\ ~row[e].old
    /\ row' = [row EXCEPT ![e].old = TRUE]
    /\ UNCHANGED <<queue, worker, mails, bounds>>

\* SWEEP_AFTER passes since the row was last changed.
GoQuiet(e) ==
    /\ row[e].status \in {"queued", "failed"} /\ ~row[e].quiet
    /\ row' = [row EXCEPT ![e].quiet = TRUE]
    /\ UNCHANGED <<queue, worker, mails, bounds>>

----------------------------------------------------------------------------
(* Delivery.                                                                *)

\* The task ends for good.
EndTask(w) == worker' = [worker EXCEPT ![w] = IdleWorker]

Raise(w) == EndTask(w) /\ queue' = Retried(queue, worker[w].e, worker[w].retries)

\* Fault: the attempt is counted with its outcome, not before it.
deliver_late(w, e, retries) ==
    /\ worker[w] = IdleWorker /\ queue[e, retries] > 0
    /\ Exists(e) /\ row[e].status # "sent"
    /\ queue' = Taken(e, retries)
    /\ worker' = [worker EXCEPT ![w] = [pc |-> "send", e |-> e, retries |-> retries, blank |-> Wiped(e)]]
    /\ UNCHANGED <<row, mails, bounds>>

\* A worker takes a task.  Under the row lock: nothing to do if it was sent,
\* otherwise the attempt is counted.  A row that is gone is an exception.
deliver(w, e, retries) ==
    /\ worker[w] = IdleWorker /\ queue[e, retries] > 0
    /\ \/ /\ Exists(e) /\ row[e].status # "sent"
          /\ queue' = Taken(e, retries)
          /\ row' = [row EXCEPT ![e].attempts = @ + 1, ![e].quiet = FALSE]
          /\ worker' = [worker EXCEPT ![w] =
                           [pc |-> "send", e |-> e, retries |-> retries, blank |-> Wiped(e)]]
       \/ /\ row[e].status = "sent"
          /\ queue' = Taken(e, retries)
          /\ UNCHANGED <<row, worker>>
       \/ /\ row[e].status = "deleted"
          /\ queue' = Retried(Taken(e, retries), e, retries)
          /\ UNCHANGED <<row, worker>>
    /\ UNCHANGED <<mails, bounds>>

\* The content of the copy, and the mail server: it accepts, it refuses, or
\* it accepts and the answer is lost.  A wiped secret is refused here.
Send(w) ==
    /\ worker[w].pc = "send"
    /\ LET e == worker[w].e
       IN  \/ /\ ~worker[w].blank
              /\ mails' = [mails EXCEPT ![e] = @ + 1]
              /\ \E outcome \in {"accepted", "failed"} : worker' = [worker EXCEPT ![w].pc = outcome]
           \/ /\ worker' = [worker EXCEPT ![w].pc = "failed", ![w].blank = FALSE]
              /\ UNCHANGED mails
    /\ UNCHANGED <<row, queue, bounds>>

\* save(update_fields=...): over whatever the row says by now.  A row that
\* was deleted meanwhile cannot be updated, which is an exception.
RecordSent(w) ==
    /\ worker[w].pc = "accepted"
    /\ LET e == worker[w].e
       IN  \/ /\ Exists(e)
              /\ row' = [row EXCEPT ![e].status = "sent", ![e].quiet = FALSE, ![e].secret = FALSE]
              /\ EndTask(w) /\ UNCHANGED queue
           \/ ~Exists(e) /\ Raise(w) /\ UNCHANGED row
    /\ UNCHANGED <<mails, bounds>>

RecordFailed(w) ==
    /\ worker[w].pc = "failed"
    /\ LET e == worker[w].e
       IN  /\ row' = IF Exists(e) THEN [row EXCEPT ![e].status = "failed", ![e].quiet = FALSE] ELSE row
           /\ Raise(w)
    /\ UNCHANGED <<mails, bounds>>

\* A worker dies or is stopped by the time limit; its task is delivered again.
WorkerDies(w) ==
    /\ worker[w].pc # "idle" /\ OneFault
    /\ EndTask(w)
    /\ queue' = Enqueued(worker[w].e, worker[w].retries)
    /\ UNCHANGED <<row, mails, resends>>

\* The broker loses a task.
Lose(e, retries) ==
    /\ queue[e, retries] > 0 /\ OneFault
    /\ queue' = Taken(e, retries)
    /\ UNCHANGED <<row, worker, mails, resends>>

----------------------------------------------------------------------------
(* The sweep, staff, and the daily wipe.                                    *)

\* Fault: only emails that failed are picked up.
Stuck_failed(e) ==
    /\ row[e].status = "failed" /\ row[e].quiet /\ row[e].attempts < SweepMaxAttempts
    /\ ~Wiped(e)

Stuck(e) ==
    /\ row[e].status \in {"queued", "failed"} /\ row[e].quiet /\ row[e].attempts < SweepMaxAttempts
    /\ ~Wiped(e)

sweep_stuck(e) ==
    /\ Stuck(e) /\ Waiting(e) < MaxQueue
    /\ queue' = Enqueued(e, 0)
    /\ UNCHANGED <<row, worker, mails, bounds>>

resend(e) ==
    /\ row[e].status \in {"queued", "failed"} /\ ~Wiped(e)
    /\ resends < MaxResends /\ resends' = resends + 1 /\ Waiting(e) < MaxQueue
    /\ row' = [row EXCEPT ![e].status = "queued", ![e].quiet = FALSE]
    /\ EnqueueOnCommit(e)
    /\ UNCHANGED <<worker, mails>>

\* delete_email and purge_emails: never an email that waits to be sent.
delete_email(e) ==
    /\ row[e].status \in {"sent", "failed"}
    /\ row' = [row EXCEPT ![e] = [NoRow EXCEPT !.status = "deleted"]]
    /\ UNCHANGED <<queue, worker, mails, bounds>>

\* Fault: a secret that waits in the queue is kept.
purge_sensitive_failed(e) ==
    /\ row[e].status = "failed" /\ row[e].secret /\ row[e].old
    /\ row' = [row EXCEPT ![e].secret = FALSE]
    /\ UNCHANGED <<queue, worker, mails, bounds>>

\* An update: it does not touch updated_at.
purge_sensitive(e) ==
    /\ row[e].status \in {"queued", "failed"} /\ row[e].secret /\ row[e].old
    /\ row' = [row EXCEPT ![e].secret = FALSE]
    /\ UNCHANGED <<queue, worker, mails, bounds>>

----------------------------------------------------------------------------
QueueInit ==
    /\ row = [e \in Emails |-> NoRow]
    /\ queue = [t \in Emails \X (0..MaxRetries) |-> 0]
    /\ worker = [w \in Workers |-> IdleWorker]
    /\ mails = [e \in Emails |-> 0]
    /\ faults = 0 /\ resends = 0

WorkerNext(w) ==
    \/ \E e \in Emails, retries \in 0..MaxRetries : deliver(w, e, retries)
    \/ Send(w) \/ RecordSent(w) \/ RecordFailed(w)

QueueNext ==
    \/ \E w \in Workers : WorkerNext(w) \/ WorkerDies(w)
    \/ \E e \in Emails : \/ \E sensitive \in BOOLEAN : send_email(e, sensitive)
                         \/ GoQuiet(e) \/ SecretGrowsOld(e) \/ sweep_stuck(e) \/ resend(e)
                         \/ delete_email(e) \/ purge_sensitive(e)
                         \/ \E retries \in 0..MaxRetries : Lose(e, retries)

QueueSpec == QueueInit /\ [][QueueNext]_queueVars

\* Workers work, the beat runs the sweep and the wipe, and time passes.
QueueFairSpec ==
    /\ QueueSpec
    /\ \A w \in Workers : WF_queueVars(WorkerNext(w))
    /\ \A e \in Emails : /\ WF_queueVars(GoQuiet(e)) /\ WF_queueVars(SecretGrowsOld(e))
                         /\ WF_queueVars(sweep_stuck(e)) /\ WF_queueVars(purge_sensitive(e))

----------------------------------------------------------------------------
(* Correctness.                                                             *)

\* The email log can be believed: every mail that left was counted as an
\* attempt, also when its worker died; "sent" means a mail left, and
\* "delivered: the secret is no longer kept anywhere in our database".
LogIsTrue ==
    \A e \in Emails : Exists(e) =>
        /\ mails[e] <= row[e].attempts
        /\ row[e].status = "sent" => mails[e] > 0 /\ ~row[e].secret
        /\ row[e].status = "failed" => row[e].attempts > 0

\* An email that waits is tried, whatever died or was lost: the sweep finds
\* it.  Given up are secrets that were wiped, and resends past the last attempt.
QueuedIsTried ==
    \A e \in Emails : row[e].status = "queued" ~>
        row[e].status # "queued" \/ Wiped(e) \/ row[e].attempts >= SweepMaxAttempts

\* A secret leaves the database: by delivery, by deletion, or by the daily wipe.
SecretIsWiped == \A e \in Emails : row[e].secret ~> ~row[e].secret
=============================================================================
