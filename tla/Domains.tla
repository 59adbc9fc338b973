------------------------------ MODULE Domains -------------------------------
(***************************************************************************)
(* One domain: apps/domains/services.py with the registrar behind          *)
(* domains/adapters/, and the paid renewals of apps/renewals/services.py.  *)
(*                                                                         *)
(* Every operation loads a copy of the row, asks the registrar, and saves  *)
(* the fields it is about, whatever the row says by then.  Registration    *)
(* and transfer run under single_flight, each under a key of its own (see  *)
(* SingleFlight for the lock itself), and read the row again inside it.  A *)
(* paid renewal holds the row's database lock from its load to the commit  *)
(* of the payment; saves wait for that lock, reads do not.                 *)
(*                                                                         *)
(* The registrar may do what it was asked and the answer be lost, and a    *)
(* process may die between any two steps; a renewal whose outcome is lost  *)
(* that way is not counted in bought.                                      *)
(***************************************************************************)
EXTENDS Integers, FiniteSets

CONSTANTS
    Requests,    \* requests and tasks that run at the same time
    Poller,      \* the hourly job
    MaxRenewals, \* bound: renewals invoiced
    MaxYears     \* a registry keeps no name further ahead than this (ten years)

ASSUME DomainsAssumption ==
    Poller \notin Requests /\ MaxRenewals \in Nat /\ MaxYears \in Nat

Procs == Requests \cup {Poller}
Changes == 1..MaxRenewals

VARIABLES
    kind,     \* how the client gets the domain: "register" or "transfer"
    row,      \* Domain: status, whether it has a provider_ref, expires_at in years
    registry, \* external: where the name is, and until which year
    proc,     \* what each process does, and what the registrar answered it
    change,   \* the status of each ServiceChange, one for a renewal invoice
    bought    \* history: renewals the registrar carried out for each change, and
              \* told of, without those whose outcome was lost

domainsVars == <<kind, row, registry, proc, change, bought>>

DomainStatus == {"pending_registration", "pending_transfer_in", "active", "cancelled", "failed"}

Ops == {"register", "transfer", "poll", "renew", "sync", "cancel", "apply"}

----------------------------------------------------------------------------
Requested(status) == [status |-> status, ref |-> FALSE, expires |-> 0]

\* for is the change that is applied.
Idle == [op |-> "none", pc |-> "idle", for |-> 0, looks |-> FALSE, answer |-> "none", until |-> 0]

Runs(op) == \E p \in Procs : proc[p].op = op /\ proc[p].pc # "choice"

\* The row lock of a payment's transaction.
RowFree == \A p \in Procs : ~(proc[p].op = "apply" /\ proc[p].pc # "idle")

Begin(p, op, pc) == proc' = [proc EXCEPT ![p] = [Idle EXCEPT !.op = op, !.pc = pc]]

End(p) == proc' = [proc EXCEPT ![p] = Idle]

----------------------------------------------------------------------------
(* The operations, up to the question to the registrar.                     *)

\* The order's fulfilment, or the staff page's one button: it completes a
\* transfer if the row it loaded is a pending transfer, else a registration.
Choose(p, op) ==
    /\ proc[p].pc = "idle"
    /\ op = kind \/ op = (IF row.status = "pending_transfer_in" THEN "transfer" ELSE "register")
    /\ Begin(p, op, "choice")
    /\ UNCHANGED <<row, registry, change, bought>>

\* single_flight, refresh_from_db and the checks.  A transfer the registrar
\* already has is only asked about.
EnterFlight(p) ==
    LET op == proc[p].op
        pending == IF op = "register" THEN "pending_registration" ELSE "pending_transfer_in"
    IN  /\ proc[p].pc = "choice" /\ ~Runs(op)
        /\ IF row.status \notin {pending, "failed"} THEN End(p)
           ELSE IF op = "transfer" /\ row.status = pending /\ row.ref
           THEN proc' = [proc EXCEPT ![p].pc = "look", ![p].looks = TRUE]
           ELSE proc' = [proc EXCEPT ![p].pc = "ask"]
        /\ UNCHANGED <<row, registry, change, bought>>

TurnAway(p) ==
    /\ proc[p].pc = "choice" /\ Runs(proc[p].op) /\ End(p)
    /\ UNCHANGED <<row, registry, change, bought>>

\* The hourly job: every transfer that was sent to the registrar.
poll_pending_transfers ==
    /\ proc[Poller].pc = "idle" /\ row.status = "pending_transfer_in" /\ row.ref
    /\ Begin(Poller, "poll", "look")
    /\ UNCHANGED <<row, registry, change, bought>>

\* Every click of staff is a renewal: only the status is checked.
renew_domain(p) ==
    /\ proc[p].pc = "idle" /\ row.status = "active"
    /\ Begin(p, "renew", "ask")
    /\ UNCHANGED <<row, registry, change, bought>>

sync_domain(p) ==
    /\ proc[p].pc = "idle" /\ row.ref
    /\ Begin(p, "sync", "look")
    /\ UNCHANGED <<row, registry, change, bought>>

\* The view has loaded the row; the write is a step of its own.
cancel_domain_request(p) ==
    /\ proc[p].pc = "idle" /\ row.status \in {"pending_registration", "pending_transfer_in", "failed"}
    /\ Begin(p, "cancel", "save")
    /\ UNCHANGED <<row, registry, change, bought>>

----------------------------------------------------------------------------
(* Paid renewals.                                                           *)

pending_change == \E c \in Changes : change[c] = "pending"

\* Under the domain's lock; asking again gives the invoice that is open.
create_domain_renewal(c) ==
    /\ row.status = "active" /\ ~pending_change /\ RowFree
    /\ change[c] = "none" /\ \A d \in 1..(c - 1) : change[d] # "none"
    /\ change' = [change EXCEPT ![c] = "pending"]
    /\ UNCHANGED <<row, registry, proc, bought>>

\* Fault: a change that was applied can be retried.
MayApply_again(c) == change[c] \in {"pending", "failed", "applied"}

\* apply_paid_invoice takes pending changes, retry_change failed ones.
MayApply(c) == change[c] \in {"pending", "failed"}

\* The payment's transaction, or the retry's, locks the change and the domain.
Apply(p, c) ==
    /\ proc[p].pc = "idle" /\ MayApply(c) /\ RowFree
    /\ proc' = [proc EXCEPT ![p] = [Idle EXCEPT !.op = "apply", !.for = c,
                                               !.pc = IF row.status = "active" THEN "ask" ELSE "save"]]
    /\ UNCHANGED <<row, registry, change, bought>>

ChangeFree(c) == \A p \in Procs : ~(proc[p].op = "apply" /\ proc[p].for = c)

dismiss_change(c) ==
    /\ change[c] = "failed" /\ ChangeFree(c)
    /\ change' = [change EXCEPT ![c] = "void"]
    /\ UNCHANGED <<row, registry, proc, bought>>

void_changes(c) ==
    /\ change[c] = "pending" /\ ChangeFree(c)
    /\ change' = [change EXCEPT ![c] = "void"]
    /\ UNCHANGED <<row, registry, proc, bought>>

----------------------------------------------------------------------------
(* The registrar.                                                           *)

Answered(p, answer, until) ==
    proc' = [proc EXCEPT ![p].pc = "save", ![p].answer = answer, ![p].until = until]

Refused(p) == Answered(p, "error", 0) /\ UNCHANGED <<registry, bought>>

register_domain(p) ==
    /\ proc[p].op = "register" /\ registry.at = "free"
    /\ registry' = [at |-> "ours", until |-> 1]
    /\ Answered(p, "ok", 1) \/ Answered(p, "error", 0)
    /\ UNCHANGED bought

\* OnlineNIC starts the transfer; a registrar without an interface of its own
\* is taken to have done it.
transfer_domain(p) ==
    /\ proc[p].op = "transfer" /\ registry.at \in {"elsewhere", "moving"}
    /\ \/ /\ registry' = [registry EXCEPT !.at = "moving"]
          /\ Answered(p, "pending", 0) \/ Answered(p, "error", 0)
       \/ /\ registry' = [at |-> "ours", until |-> 1]
          /\ Answered(p, "ok", 1)
    /\ UNCHANGED bought

\* The registrar's own date comes back.
RenewAtRegistrar(p) ==
    /\ proc[p].op \in {"renew", "apply"} /\ registry.at = "ours" /\ registry.until < MaxYears
    /\ registry' = [registry EXCEPT !.until = @ + 1]
    /\ \/ /\ Answered(p, "ok", registry.until + 1)
          /\ bought' = IF proc[p].op = "apply" THEN [bought EXCEPT ![proc[p].for] = @ + 1] ELSE bought
       \/ Answered(p, "error", 0) /\ UNCHANGED bought

Ask(p) ==
    /\ proc[p].pc = "ask"
    /\ register_domain(p) \/ transfer_domain(p) \/ RenewAtRegistrar(p) \/ Refused(p)
    /\ UNCHANGED <<row, change>>

\* Fault: a transfer the registrar knows about is taken to be finished.
get_domain_early(p) ==
    /\ proc[p].pc = "look"
    /\ Answered(p, "ok", registry.until)
    /\ UNCHANGED <<row, registry, change, bought>>

\* infoDomain: the registrar describes a domain it has, and fails otherwise.
get_domain(p) ==
    /\ proc[p].pc = "look"
    /\ (registry.at = "ours" /\ Answered(p, "ok", registry.until)) \/ Answered(p, "error", 0)
    /\ UNCHANGED <<row, registry, change, bought>>

\* The registry finishes or refuses the transfer, days later.
TransferEnds ==
    /\ registry.at = "moving"
    /\ registry' \in {[at |-> "ours", until |-> 1], [registry EXCEPT !.at = "elsewhere"]}
    /\ UNCHANGED <<row, proc, change, bought>>

----------------------------------------------------------------------------
(* The outcome is saved.                                                    *)

Renewed(p) == IF proc[p].answer = "ok" THEN [row EXCEPT !.expires = proc[p].until] ELSE row

\* complete_registration, complete_transfer.
Completed(p) ==
    CASE proc[p].answer = "ok" -> [status |-> "active", ref |-> TRUE, expires |-> proc[p].until]
      [] proc[p].answer = "pending" -> [row EXCEPT !.status = "pending_transfer_in", !.ref = TRUE]
      [] OTHER -> [row EXCEPT !.status = "failed"]

\* poll_transfer, also when complete_transfer calls it.
Polling(p) == proc[p].op = "poll" \/ proc[p].looks

\* Fault: the status is not among the fields that are saved.
poll_transfer_fields(p) ==
    IF proc[p].answer = "ok" THEN [row EXCEPT !.expires = proc[p].until] ELSE row

poll_transfer(p) ==
    IF proc[p].answer = "ok" THEN [row EXCEPT !.status = "active", !.expires = proc[p].until] ELSE row

Save(p) ==
    /\ proc[p].pc = "save" /\ proc[p].op # "apply" /\ RowFree
    /\ row' = CASE Polling(p) -> poll_transfer(p)
                [] proc[p].op \in {"register", "transfer"} /\ ~Polling(p) -> Completed(p)
                [] proc[p].op \in {"renew", "sync"} -> Renewed(p)
                [] proc[p].op = "cancel" -> [row EXCEPT !.status = "cancelled"]
    /\ End(p)
    /\ UNCHANGED <<registry, change, bought>>

\* The transaction commits: the new date, the outcome of the change and, if it
\* was pending, its payment.
ApplyCommits(p) ==
    /\ proc[p].pc = "save" /\ proc[p].op = "apply"
    /\ row' = Renewed(p)
    /\ change' = [change EXCEPT ![proc[p].for] = IF proc[p].answer = "ok" THEN "applied" ELSE "failed"]
    /\ End(p)
    /\ UNCHANGED <<registry, bought>>

\* A paid renewal that was carried out and is not yet committed.
Renewing(p) == proc[p].op = "apply" /\ proc[p].pc = "save" /\ proc[p].answer = "ok"

\* The process ends here; a transaction rolls back, the registrar does not.
\* (For the hourly job that is the same as an error from the registrar.)
Dies(p) ==
    /\ proc[p].pc # "idle" /\ End(p)
    /\ bought' = IF Renewing(p) THEN [bought EXCEPT ![proc[p].for] = @ - 1] ELSE bought
    /\ UNCHANGED <<row, registry, change>>

----------------------------------------------------------------------------
\* request_registration asks whether the name is free; a transfer has an
\* authorization code for a name that is elsewhere.
DomainsInit ==
    /\ \/ kind = "register" /\ row = Requested("pending_registration") /\ registry = [at |-> "free", until |-> 0]
       \/ kind = "transfer" /\ row = Requested("pending_transfer_in") /\ registry = [at |-> "elsewhere", until |-> 0]
    /\ proc = [p \in Procs |-> Idle]
    /\ change = [c \in Changes |-> "none"] /\ bought = [c \in Changes |-> 0]

Works(p) == EnterFlight(p) \/ TurnAway(p) \/ Ask(p) \/ get_domain(p) \/ Save(p) \/ ApplyCommits(p)

DomainsNext ==
    /\ \/ \E p \in Requests :
             \/ \E op \in {"register", "transfer"} : Choose(p, op)
             \/ \E c \in Changes : Apply(p, c)
             \/ renew_domain(p) \/ sync_domain(p) \/ cancel_domain_request(p) \/ Dies(p)
       \/ \E p \in Procs : Works(p)
       \/ poll_pending_transfers
       \/ \E c \in Changes : create_domain_renewal(c) \/ dismiss_change(c) \/ void_changes(c)
       \/ TransferEnds
    /\ UNCHANGED kind

DomainsSpec == DomainsInit /\ [][DomainsNext]_domainsVars

\* What was begun goes on, and the hourly job runs; it is not for ever
\* refused by the registrar or kept from the row.
DomainsFairSpec ==
    /\ DomainsSpec /\ \A p \in Requests : WF_domainsVars(Works(p) /\ UNCHANGED kind)
    /\ WF_domainsVars(poll_pending_transfers /\ UNCHANGED kind)
    /\ WF_domainsVars(Works(Poller) /\ UNCHANGED kind) /\ SF_domainsVars(Save(Poller) /\ UNCHANGED kind)
    /\ SF_domainsVars(registry.at = "ours" /\ get_domain(Poller) /\ proc'[Poller].answer = "ok" /\ UNCHANGED kind)

----------------------------------------------------------------------------
(* Correctness.                                                             *)

\* Statuses, operations and answers are the ones the code has.
TypeOK ==
    /\ row \in [status : DomainStatus, ref : BOOLEAN, expires : Nat]
    /\ registry \in [at : {"free", "elsewhere", "moving", "ours"}, until : Nat]
    /\ \A p \in Procs : /\ proc[p].op \in Ops \cup {"none"}
                        /\ proc[p].pc \in {"idle", "choice", "ask", "look", "save"}
    /\ change \in [Changes -> {"none", "pending", "applied", "failed", "void"}]

\* A domain the panel shows as active is registered for the client, and the
\* registrar keeps it at least as long as the panel says; the rows are well formed.
PanelPromisesLess ==
    TypeOK /\ (row.status = "active" => registry.at = "ours" /\ row.expires <= registry.until)

\* A payment buys one renewal, none before it is made, and one for each change
\* recorded as applied, by payment, retry or both.  Two things are left out, as
\* the code does them: a renewal whose outcome was lost is bought again by a
\* retry, and each click of staff on a domain that is active buys another.
RenewalsWerePaidFor ==
    \A c \in Changes :
        bought[c] = IF change[c] = "applied" \/ \E p \in Procs : Renewing(p) /\ proc[p].for = c THEN 1 ELSE 0

\* A transfer that is over at the registry ends in the panel too: the hourly
\* job finds it, unless somebody cancelled it or a retry failed it meanwhile.
TransferFinishes ==
    row.status = "pending_transfer_in" /\ row.ref /\ registry.at = "ours" ~> row.status # "pending_transfer_in"
=============================================================================
