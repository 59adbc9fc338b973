------------------------------ MODULE Tickets ------------------------------
(***************************************************************************)
(* Support tickets: apps/support/services.py and lifecycle.py.             *)
(*                                                                         *)
(* A customer's form is sent, perhaps more than once, by web requests that *)
(* share its one-time token: a cache key, added before the ticket is       *)
(* written and visible before it is committed.  Replies and changes of     *)
(* status lock the ticket's row, so each is one step; the two daily jobs   *)
(* look first and act on each ticket they found later.                     *)
(*                                                                         *)
(* Seconds pass while a form is being sent, days while the ticket lives;   *)
(* the two clocks run independently, which allows more than can happen.    *)
(* A second copy of a reply within seconds returns the first: no step.     *)
(***************************************************************************)
EXTENDS Integers

CONSTANTS
    Requests,     \* web requests that carry the form
    KeyLife,      \* seconds the token's key lives
    WorkLimit,    \* assumed: the longest a request takes to write a ticket
    LookBack,     \* how young a ticket is taken for the twin's
    Patience,     \* how long a twin waits for it
    MaxTickets,   \* bound: tickets opened from the form
    CloseAfter,   \* AUTO_CLOSE_AFTER, in days
    ReplyWindow,  \* CLOSED_REPLY_WINDOW
    KeepFiles     \* ATTACHMENT_RETENTION_AFTER

ASSUME TicketsAssumption ==
    /\ KeyLife \in Nat /\ WorkLimit \in Nat /\ WorkLimit < KeyLife
    /\ LookBack \in Nat /\ Patience \in Nat /\ MaxTickets \in Nat
    /\ CloseAfter \in Nat /\ ReplyWindow \in Nat /\ KeepFiles \in Nat

VARIABLES
    key,       \* seconds the token's key has left; 0: absent
    req,       \* what each request is doing, and for how long
    opened,    \* tickets made from the form
    newest,    \* seconds since the last of them
    ticket,    \* Ticket: status, days since resolved_at and closed_at
    files,     \* whether the ticket's attachments are stored
    job,       \* the daily jobs: "todo", "busy" with the ticket, or "done"
    awaiting   \* history: the customer wrote and no person acted since

formVars == <<key, req, opened, newest>>
vars == <<formVars, ticket, files, job, awaiting>>

----------------------------------------------------------------------------
TicketStatus == {"open", "agent_reply", "customer_reply", "pending", "resolved", "closed"}

Never == -1
MaxDays == KeepFiles + CloseAfter + 1
Older(days) == IF days = Never \/ days > MaxDays THEN days ELSE days + 1

NoTicket == [status |-> "none", resolved |-> Never, closed |-> Never]
IdleRequest == [pc |-> "idle", clock |-> 0]
Exists == ticket # NoTicket
Is(status) == ticket.status = status

----------------------------------------------------------------------------
(* Opening: the form and its token.                                         *)

\* Fault: the key is set whether or not it is there.
AddKey_set(q) == key' = KeyLife /\ req' = [req EXCEPT ![q].pc = "write"]

\* cache.add: the first request writes the ticket, the others look for it.
AddKey(q) ==
    IF key = 0 THEN key' = KeyLife /\ req' = [req EXCEPT ![q].pc = "write"]
    ELSE UNCHANGED key /\ req' = [req EXCEPT ![q].pc = "look"]

open_ticket(q) ==
    /\ req[q] = IdleRequest /\ AddKey(q)
    /\ UNCHANGED <<opened, newest, ticket, files, job, awaiting>>

\* The ticket with its first message and attachments.
CommitTicket(q) ==
    /\ req[q].pc = "write" /\ opened < MaxTickets
    /\ opened' = opened + 1 /\ newest' = 0
    /\ ticket' = IF Exists THEN ticket ELSE [NoTicket EXCEPT !.status = "open"]
    /\ files' \in IF Exists THEN {files} ELSE BOOLEAN
    /\ req' = [req EXCEPT ![q] = IdleRequest]
    /\ UNCHANGED <<key, job, awaiting>>

\* An upload or the database fails: all is undone but the key.
RollBack(q) ==
    /\ req[q].pc = "write" /\ req' = [req EXCEPT ![q] = IdleRequest]
    /\ UNCHANGED <<key, opened, newest, ticket, files, job, awaiting>>

\* The twin's ticket is found, or the customer is told to wait.
already_sent(q) ==
    /\ req[q].pc = "look"
    /\ (opened > 0 /\ newest < LookBack) \/ req[q].clock >= Patience
    /\ req' = [req EXCEPT ![q] = IdleRequest]
    /\ UNCHANGED <<key, opened, newest, ticket, files, job, awaiting>>

PassSecond ==
    /\ \A q \in Requests : /\ req[q].pc = "write" => req[q].clock < WorkLimit
                           /\ req[q].pc = "look" => req[q].clock < Patience
    /\ key' = IF key > 0 THEN key - 1 ELSE 0
    /\ newest' = IF newest < KeyLife THEN newest + 1 ELSE newest
    /\ req' = [q \in Requests |-> IF req[q] = IdleRequest THEN req[q] ELSE [req[q] EXCEPT !.clock = @ + 1]]
    /\ key' # key \/ newest' # newest \/ req' # req
    /\ UNCHANGED <<opened, ticket, files, job, awaiting>>

----------------------------------------------------------------------------
(* The conversation.                                                        *)

\* A closed ticket can only be reopened.
can_transition(new) == Is(new) \/ (Is("closed") => new = "open")

\* Fault: the day it was resolved is not stored.
Moved_undated(row, new) ==
    [row EXCEPT !.status = new, !.resolved = Never, !.closed = IF new = "closed" THEN 0 ELSE Never]

Moved(row, new) ==
    [row EXCEPT !.status = new,
                !.resolved = CASE new = "resolved" -> 0 [] new = "closed" -> row.resolved [] OTHER -> Never,
                !.closed = IF new = "closed" THEN 0 ELSE Never]

\* A move to the status it has is a quiet no-op, dates included.
transition(new) ==
    /\ Exists /\ can_transition(new)
    /\ ticket' = IF Is(new) THEN ticket ELSE Moved(ticket, new)

customer_can_reply == Is("closed") => ticket.closed <= ReplyWindow

\* A customer's reply reopens what is closed, and waits for an agent.
CustomerReply ==
    /\ Exists /\ customer_can_reply
    /\ ticket' = IF Is("customer_reply") THEN ticket ELSE Moved(ticket, "customer_reply")
    /\ files' \in {files, TRUE} /\ awaiting' = TRUE
    /\ UNCHANGED <<formVars, job>>

\* A public answer moves the ticket as the agent chooses, agent_reply if not said.
StaffReply(new) ==
    /\ ~Is("closed") /\ transition(new)
    /\ files' \in {files, TRUE} /\ awaiting' = FALSE
    /\ UNCHANGED <<formVars, job>>

\* Staff, with or without an internal note; a note alone changes nothing here.
SetStatus(new) ==
    /\ transition(new) /\ awaiting' = FALSE
    /\ UNCHANGED <<formVars, files, job>>

CustomerCloses ==
    /\ ~Is("closed") /\ transition("closed") /\ awaiting' = FALSE
    /\ UNCHANGED <<formVars, files, job>>

----------------------------------------------------------------------------
(* The daily jobs.                                                          *)

\* The query, and the ticket is among what it found or not.
auto_close_resolved ==
    /\ job.close = "todo"
    /\ job' = [job EXCEPT !.close = IF Is("resolved") /\ ticket.resolved > CloseAfter THEN "busy" ELSE "done"]
    /\ UNCHANGED <<formVars, ticket, files, awaiting>>

\* Fault: the ticket is closed as it was found.
CloseFound_blind ==
    /\ job.close = "busy" /\ job' = [job EXCEPT !.close = "done"]
    /\ ticket' = Moved(ticket, "closed")
    /\ UNCHANGED <<formVars, files, awaiting>>

\* Under the row's lock, if it still is resolved.
CloseFound ==
    /\ job.close = "busy" /\ job' = [job EXCEPT !.close = "done"]
    /\ ticket' = IF Is("resolved") THEN Moved(ticket, "closed") ELSE ticket
    /\ UNCHANGED <<formVars, files, awaiting>>

purge_stale_attachments ==
    /\ job.purge = "todo"
    /\ job' = [job EXCEPT !.purge = IF Is("closed") /\ ticket.closed > KeepFiles /\ files THEN "busy" ELSE "done"]
    /\ UNCHANGED <<formVars, ticket, files, awaiting>>

\* Without looking again.
PurgeFound ==
    /\ job.purge = "busy" /\ job' = [job EXCEPT !.purge = "done"]
    /\ files' = FALSE
    /\ UNCHANGED <<formVars, ticket, awaiting>>

\* The worker is stopped before it reached the ticket.
JobDies ==
    /\ \E j \in {"close", "purge"} : job[j] = "busy" /\ job' = [job EXCEPT ![j] = "done"]
    /\ UNCHANGED <<formVars, ticket, files, awaiting>>

\* No job lasts into the next day.
NextDay ==
    /\ Exists /\ "busy" \notin {job.close, job.purge}
    /\ job' = [close |-> "todo", purge |-> "todo"]
    /\ ticket' = [ticket EXCEPT !.resolved = Older(@), !.closed = Older(@)]
    /\ UNCHANGED <<formVars, files, awaiting>>

----------------------------------------------------------------------------
Init ==
    /\ key = 0 /\ req = [q \in Requests |-> IdleRequest]
    /\ opened = 0 /\ newest = 0
    /\ ticket = NoTicket /\ files = FALSE /\ awaiting = FALSE
    /\ job = [close |-> "todo", purge |-> "todo"]

Next ==
    \/ \E q \in Requests : open_ticket(q) \/ CommitTicket(q) \/ RollBack(q) \/ already_sent(q)
    \/ \E new \in TicketStatus : StaffReply(new) \/ SetStatus(new)
    \/ CustomerReply \/ CustomerCloses
    \/ auto_close_resolved \/ CloseFound \/ purge_stale_attachments \/ PurgeFound \/ JobDies
    \/ PassSecond \/ NextDay

Spec == Init /\ [][Next]_vars

\* Time passes, requests end, the jobs are started every day, and the worker
\* is not stopped every day just before the ticket.
\* Nobody has to write.
FairSpec ==
    /\ Spec /\ WF_vars(PassSecond) /\ SF_vars(NextDay)
    /\ \A q \in Requests : WF_vars(RollBack(q)) /\ WF_vars(already_sent(q))
    /\ WF_vars(auto_close_resolved) /\ SF_vars(CloseFound)
    /\ WF_vars(purge_stale_attachments) /\ WF_vars(PurgeFound \/ JobDies)

----------------------------------------------------------------------------
(* Correctness.                                                             *)

\* "a double click is the same ticket, not another": however the copies of a
\* form interleave, fail and wait, two tickets of one form are further apart
\* than the key's life less the time a request takes.
TwinsAreOne ==
    [][opened > 0 /\ opened' > opened => newest >= KeyLife - WorkLimit]_vars

\* What a customer wrote waits for an agent until a person acts: no daily job
\* that looked before the reply closes the ticket over it.
CustomerIsHeard == awaiting => Is("customer_reply")

\* "Resolved ... otherwise it closes by itself": a resolved ticket does not
\* stay so, although the job may find it and be stopped.
ResolvedEnds == Is("resolved") ~> ~Is("resolved")
=============================================================================
