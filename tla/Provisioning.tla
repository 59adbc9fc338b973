---------------------------- MODULE Provisioning ----------------------------
(***************************************************************************)
(* Making a hosting account on its server: complete_provisioning in        *)
(* apps/hosting/services.py under the single_flight lock, with what        *)
(* touches the same row without it (cancel_request, sync_status,           *)
(* terminate_account) and WHM calls that may time out after they took      *)
(* effect.  Suspension is ServiceLife's.                                   *)
(*                                                                         *)
(* The row is read, the server is asked, the row is written: three steps,  *)
(* no database lock.  Inside single_flight the row is read again; staff    *)
(* requests work on the copy their view loaded.                            *)
(***************************************************************************)
EXTENDS SingleFlight

CONSTANT
    Staff  \* requests of staff: cancel, sync or terminate the account

ASSUME ProvisioningAssumption == Callers \cap Staff = {}

VARIABLES
    status,     \* HostingAccount.status
    server,     \* external: whether the server has the account
    step,       \* where each caller is inside the block
    desk,       \* what each staff request is doing
    delivered,  \* history: provisioning has recorded the account as active
    sent,       \* history: a createacct was sent after that
    outrun,     \* history: who holds an answer from before the account was removed
    unseen      \* history: a removal of which the row does not tell

history == <<outrun, unseen>>
hostVars == <<status, server, step, desk, delivered, sent, history>>
vars == <<lockVars, hostVars>>

HostingStatus == {"pending", "active", "failed", "cancelled", "terminated"}

\* Whoever was told that the account is on the server and has not saved it.
ToldItIsThere == {c \in Callers : step[c] = "save_active"} \cup {s \in Staff : desk[s] = "found"}

----------------------------------------------------------------------------
(* complete_provisioning.                                                   *)

Enter(c) ==
    /\ Acquire(c)
    /\ step' = [step EXCEPT ![c] = "refresh"]
    /\ UNCHANGED <<status, server, desk, delivered, sent, history>>

\* Fault: the row is not read again, it is the one the caller came with.
Refresh_stale(c) ==
    /\ Inside(c) /\ step[c] = "refresh"
    /\ step' = [step EXCEPT ![c] = "create"]
    /\ UNCHANGED <<lockVars, status, server, desk, delivered, sent, history>>

\* refresh_from_db and the checks: an active account is left alone; one that
\* is not pending, or has no active server, is refused.
Refresh(c) ==
    /\ Inside(c) /\ step[c] = "refresh"
    /\ \/ status \in {"pending", "failed"} /\ step' = [step EXCEPT ![c] = "create"]
       \/ step' = [step EXCEPT ![c] = "end"]
    /\ UNCHANGED <<lockVars, status, server, desk, delivered, sent, history>>

\* The server makes the account, refuses, or makes it and the answer is lost;
\* a username it has is refused.  A change is never sent twice by the adapter.
create_account(c) ==
    /\ Inside(c) /\ step[c] = "create"
    /\ sent' = (sent \/ delivered)
    /\ \/ /\ server = "absent" /\ server' = "present" /\ unseen' = FALSE
          /\ \E answer \in {"save_active", "save_failed"} : step' = [step EXCEPT ![c] = answer]
       \/ /\ step' = [step EXCEPT ![c] = "save_failed"]
          /\ UNCHANGED <<server, unseen>>
    /\ UNCHANGED <<lockVars, status, desk, delivered, outrun>>

\* "active" is written over a removal that came after the answer.
ShowAgain(p) == unseen' = (unseen \/ p \in outrun) /\ outrun' = outrun \ {p}

\* save(update_fields=[status, ...]): whatever the row says by now.
SaveOutcome(c) ==
    /\ Inside(c) /\ step[c] \in {"save_active", "save_failed"}
    /\ status' = IF step[c] = "save_active" THEN "active" ELSE "failed"
    /\ delivered' = (delivered \/ step[c] = "save_active")
    /\ IF step[c] = "save_active" THEN ShowAgain(c) ELSE UNCHANGED history
    /\ step' = [step EXCEPT ![c] = "end"]
    /\ UNCHANGED <<lockVars, server, desk, sent>>

Exit(c) ==
    /\ step[c] = "end" /\ LeaveBlock(c)
    /\ step' = [step EXCEPT ![c] = "none"]
    /\ UNCHANGED <<status, server, desk, delivered, sent, history>>

Die(c) ==
    /\ Crash(c)
    /\ step' = [step EXCEPT ![c] = "none"]
    /\ outrun' = outrun \ {c}
    /\ UNCHANGED <<status, server, desk, delivered, sent, unseen>>

LockOnly(c) ==
    /\ Request(c) \/ GiveUp(c) \/ CheckToken(c) \/ DeleteKey(c)
    /\ UNCHANGED hostVars

----------------------------------------------------------------------------
(* Staff.                                                                   *)

\* A request is refused at once if the row its view loaded does not allow it:
\* only a pending or failed request is cancelled, only a running account
\* terminated.
Allows(op) == status \in IF op = "cancel" THEN {"pending", "failed"} ELSE {"active"}

LoadAccount(s, op) ==
    /\ desk[s] = "none" /\ Allows(op)
    /\ desk' = [desk EXCEPT ![s] = op]
    /\ UNCHANGED <<lockVars, status, server, step, delivered, sent, history>>

EndRequest(s) == desk' = [desk EXCEPT ![s] = "none"]

cancel_request(s) ==
    /\ desk[s] = "cancel"
    /\ status' = "cancelled"
    /\ EndRequest(s)
    /\ UNCHANGED <<lockVars, server, step, delivered, sent, history>>

\* Fault: an account the server does not know is taken to be running.
SyncAnswer_blind(s) ==
    /\ desk[s] = "none"
    /\ desk' = [desk EXCEPT ![s] = "found"]
    /\ UNCHANGED <<lockVars, status, server, step, delivered, sent, history>>

\* get_status: the server describes an account it has and fails otherwise.
SyncAnswer(s) ==
    /\ desk[s] = "none" /\ server = "present"
    /\ desk' = [desk EXCEPT ![s] = "found"]
    /\ UNCHANGED <<lockVars, status, server, step, delivered, sent, history>>

\* The account was never suspended, so it is taken to be running, whatever the
\* row says by now.
sync_status(s) ==
    /\ desk[s] = "found"
    /\ status' = "active"
    /\ ShowAgain(s) /\ EndRequest(s)
    /\ UNCHANGED <<lockVars, server, step, delivered, sent>>

\* terminate_account of an account that runs, by staff, for a cancellation or by
\* the daily run.  The server refuses (it has no such account, or an error), or
\* removes the account, and then the answer may be lost.
RemoveAccount(s) ==
    /\ desk[s] = "terminate"
    /\ \/ /\ server = "present"
          /\ server' = "absent" /\ outrun' = ToldItIsThere
          /\ \/ desk' = [desk EXCEPT ![s] = "removed"] /\ UNCHANGED unseen
             \/ EndRequest(s) /\ unseen' = TRUE
       \/ EndRequest(s) /\ UNCHANGED <<server, history>>
    /\ UNCHANGED <<lockVars, status, step, delivered, sent>>

SaveTermination(s) ==
    /\ desk[s] = "removed"
    /\ status' = "terminated" /\ unseen' = FALSE
    /\ EndRequest(s)
    /\ UNCHANGED <<lockVars, server, step, delivered, sent, outrun>>

\* The process that serves the request is killed.
StaffDies(s) ==
    /\ desk[s] # "none"
    /\ unseen' = (unseen \/ desk[s] = "removed") /\ outrun' = outrun \ {s}
    /\ EndRequest(s)
    /\ UNCHANGED <<lockVars, status, server, step, delivered, sent>>

----------------------------------------------------------------------------
Init ==
    /\ LockInit
    /\ status = "pending" /\ server = "absent"
    /\ step = [c \in Callers |-> "none"]
    /\ desk = [s \in Staff |-> "none"]
    /\ delivered = FALSE /\ sent = FALSE
    /\ outrun = {} /\ unseen = FALSE

CallerNext ==
    \E c \in Callers : \/ Enter(c) \/ Refresh(c) \/ create_account(c) \/ SaveOutcome(c)
                       \/ Exit(c) \/ Die(c) \/ LockOnly(c)

StaffNext ==
    \E s \in Staff : \/ \E op \in {"cancel", "terminate"} : LoadAccount(s, op)
                     \/ cancel_request(s) \/ SyncAnswer(s) \/ sync_status(s)
                     \/ RemoveAccount(s) \/ SaveTermination(s) \/ StaffDies(s)

Next == CallerNext \/ StaffNext \/ (PassTime /\ UNCHANGED hostVars)

Spec == Init /\ [][Next]_vars

\* Time passes, a waiting caller polls and a block goes on; nobody has to come,
\* to die or to act at the desk.
FairSpec ==
    /\ Spec
    /\ WF_vars(PassTime /\ UNCHANGED hostVars)
    /\ \A c \in Callers :
          /\ WF_vars(Enter(c) \/ (GiveUp(c) /\ UNCHANGED hostVars))
          /\ WF_vars(Refresh(c) \/ create_account(c) \/ SaveOutcome(c) \/ Exit(c))
          /\ WF_vars((CheckToken(c) \/ DeleteKey(c)) /\ UNCHANGED hostVars)

----------------------------------------------------------------------------
(* Correctness.                                                             *)

\* "two at once run one after the other, so the server is asked once": after
\* an account was provisioned no other attempt asks the server again, although
\* callers come with stale copies, wait, die and outlive each other.
NotAskedAgain == ~sent

\* The panel shows an account as running only if the server has it, whatever
\* answers were lost or are saved late.  A termination does not take the lock,
\* so its removal may be under way, and its record may be missing: its answer
\* was lost, its process died before the save, or "active" was saved over it
\* by a sync or a provisioning that the server had answered before.
ActiveIsOnServer ==
    status = "active" =>
        server = "present" \/ unseen \/ \E s \in Staff : desk[s] = "removed"
=============================================================================
