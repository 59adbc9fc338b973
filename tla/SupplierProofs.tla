-------------------------- MODULE SupplierProofs ---------------------------
(***************************************************************************)
(* Proofs about the calls to outside suppliers that take long and must not *)
(* be made twice: the lock and Provisioning, which is built on it, and     *)
(* Domains.  The two models are independent; each has its own variables,   *)
(* and a theorem is about the specification it names.                      *)
(***************************************************************************)
EXTENDS Provisioning, Domains, FiniteSetTheorems, TLAPS

----------------------------------------------------------------------------
(***************************************************************************)
(* The lock and Provisioning.                                              *)
(*                                                                         *)
(* If a block and its release never take as long as the key lives, the     *)
(* lock excludes, for any number of callers and any Wait and Hold.  The    *)
(* inductive argument: a working caller's token is in the key, and what is *)
(* left of the key's life is at least Hold minus the time the caller has   *)
(* worked, so the key cannot expire under it, and the key it deletes is    *)
(* its own.                                                                *)
(*                                                                         *)
(* Once the account is recorded as active, nobody asks the server for it   *)
(* again, for any number of callers and staff requests: after that moment  *)
(* the row is never pending or failed again, so every later caller, having *)
(* read the row inside the lock, turns back; and because the lock          *)
(* excludes, no other caller had already passed that check.  That an       *)
(* account shown as running is on the server needs no lock at all.         *)
(***************************************************************************)

----------------------------------------------------------------------------
(* The lock.                                                                *)

\* The strengthening of Exclusive that every step preserves.
WorkerHoldsKey ==
    \A c \in Callers : Working(c) => /\ lock.holder = c
                                     /\ caller[c].clock <= WorkLimit
                                     /\ lock.ttl + caller[c].clock >= Hold

LockInv == LockTypeOK /\ WorkerHoldsKey

\* At the start nobody works and the key is absent.
LEMMA LockInitOK == LockInit => LockInv
BY SingleFlightAssumption
   DEF LockInit, LockInv, LockTypeOK, WorkerHoldsKey, Working, Free, IdleCaller

\* Each call of the lock, each death and each passing moment keeps LockInv.
LEMMA LockStep == ASSUME WorkLimit < Hold, LockInv, [LockNext]_lockVars
                  PROVE  LockInv'
<1> USE SingleFlightAssumption DEF LockInv, LockTypeOK, Working
<1>1. ASSUME NEW c \in Callers, Request(c) PROVE LockInv'
  BY <1>1 DEF Request, WorkerHoldsKey
<1>2. ASSUME NEW c \in Callers, Acquire(c) PROVE LockInv'
  <2>1. \A b \in Callers : ~Working(b)
    BY <1>2 DEF Acquire, WorkerHoldsKey
  <2>2. LockTypeOK'
    BY <1>2 DEF Acquire
  <2>3. WorkerHoldsKey'
    BY <1>2, <2>1 DEF Acquire, WorkerHoldsKey
  <2> QED BY <2>2, <2>3
<1>3. ASSUME NEW c \in Callers, GiveUp(c) PROVE LockInv'
  BY <1>3 DEF GiveUp, IdleCaller, WorkerHoldsKey
<1>4. ASSUME NEW c \in Callers, LeaveBlock(c) PROVE LockInv'
  BY <1>4 DEF LeaveBlock, Inside, WorkerHoldsKey
<1>5. ASSUME NEW c \in Callers, CheckToken(c) PROVE LockInv'
  <2>1. LockTypeOK'
    BY <1>5 DEF CheckToken, IdleCaller
  <2>2. WorkerHoldsKey'
    BY <1>5 DEF CheckToken, IdleCaller, WorkerHoldsKey
  <2> QED BY <2>1, <2>2
<1>6. ASSUME NEW c \in Callers, DeleteKey(c) PROVE LockInv'
  <2>1. \A b \in Callers : Working(b) => b = c
    BY <1>6 DEF DeleteKey, WorkerHoldsKey
  <2>2. \A b \in Callers : ~(Working(b))'
    BY <1>6, <2>1 DEF DeleteKey, IdleCaller
  <2> QED BY <1>6, <2>2 DEF DeleteKey, Free, IdleCaller, WorkerHoldsKey
<1>7. ASSUME NEW c \in Callers, Crash(c) PROVE LockInv'
  BY <1>7 DEF Crash, IdleCaller, WorkerHoldsKey
<1>8. ASSUME PassTime PROVE LockInv'
  <2>1. caller' \in [Callers -> [pc : {"idle", "waiting", "inside", "check", "delete"}, clock : Nat]]
    BY <1>8 DEF PassTime
  <2>2. \A c \in Callers : Working(c) => lock.ttl > 1
    BY <1>8 DEF PassTime, WorkerHoldsKey
  <2>3. /\ lock' \in [holder : Callers \cup {NoOne}, ttl : 0..Hold]
        /\ lock'.holder = NoOne <=> lock'.ttl = 0
    BY <1>8 DEF PassTime, Free
  <2>4. ASSUME NEW c \in Callers, Working(c)'
        PROVE  /\ lock'.holder = c
               /\ caller'[c].clock <= WorkLimit
               /\ lock'.ttl + caller'[c].clock >= Hold
    <3>1. Working(c) /\ caller'[c].clock = caller[c].clock + 1
      BY <1>8, <2>4 DEF PassTime
    <3>2. lock' = [lock EXCEPT !.ttl = @ - 1]
      BY <1>8, <2>2, <3>1 DEF PassTime
    <3> QED BY <1>8, <3>1, <3>2 DEF PassTime, WorkerHoldsKey
  <2>5. WorkerHoldsKey'
    BY <2>4 DEF WorkerHoldsKey
  <2> QED BY <2>1, <2>3, <2>5
<1>9. CASE UNCHANGED lockVars
  BY <1>9 DEF lockVars, WorkerHoldsKey
<1> QED BY <1>1, <1>2, <1>3, <1>4, <1>5, <1>6, <1>7, <1>8, <1>9 DEF LockNext

\* core/locks.py excludes as long as no block outlives the key: "Only one
\* caller at a time runs the block".
THEOREM LockExcludes == ASSUME WorkLimit < Hold PROVE LockSpec => []Exclusive
<1>1. LockInv => Exclusive
  BY DEF LockInv, WorkerHoldsKey, Exclusive, Inside, Working
<1> QED BY <1>1, LockInitOK, LockStep, PTL DEF LockSpec

----------------------------------------------------------------------------
(* Provisioning.                                                            *)

Steps == {"none", "refresh", "create", "save_active", "save_failed", "end"}

\* A step is under way only inside the block.
StepsInside ==
    /\ step \in [Callers -> Steps]
    /\ \A c \in Callers : step[c] # "none" => Inside(c)

StaffOps == {"none", "cancel", "found", "terminate", "removed"}

\* What is true from the moment provisioning recorded the account as active.
AfterDelivery ==
    delivered => /\ status \in {"active", "cancelled", "terminated"}
                 /\ \A c \in Callers : step[c] \in {"none", "refresh", "end"}

ProvInv ==
    /\ LockInv /\ StepsInside /\ AfterDelivery /\ ~sent
    /\ delivered \in BOOLEAN /\ status \in HostingStatus

\* Before anything has happened ProvInv holds.
LEMMA ProvInitOK == Init => ProvInv
<1> SUFFICES ASSUME Init PROVE ProvInv
  OBVIOUS
<1>1. LockInv
  BY LockInitOK DEF Init
<1> QED BY <1>1 DEF Init, ProvInv, StepsInside, AfterDelivery, HostingStatus, Steps

\* Every step of a caller or of staff moves the lock by a lock step or leaves it.
LEMMA ProvLock == ASSUME [Next]_vars PROVE [LockNext]_lockVars
<1>1. ASSUME NEW c \in Callers, \/ Enter(c) \/ Refresh(c) \/ create_account(c) \/ SaveOutcome(c)
                                \/ Exit(c) \/ Die(c) \/ LockOnly(c)
      PROVE [LockNext]_lockVars
  BY <1>1 DEF Enter, Refresh, create_account, SaveOutcome, Exit, Die, LockOnly, LockNext
<1>2. ASSUME NEW s \in Staff, \/ \E op \in {"cancel", "terminate"} : LoadAccount(s, op)
                              \/ cancel_request(s) \/ SyncAnswer(s) \/ sync_status(s)
                              \/ RemoveAccount(s) \/ SaveTermination(s) \/ StaffDies(s)
      PROVE [LockNext]_lockVars
  BY <1>2 DEF LoadAccount, cancel_request, SyncAnswer, sync_status, RemoveAccount, SaveTermination,
              StaffDies
<1>3. CASE PassTime
  BY <1>3 DEF LockNext
<1>4. CASE UNCHANGED vars
  BY <1>4 DEF vars
<1> QED BY <1>1, <1>2, <1>3, <1>4 DEF Next, CallerNext, StaffNext

\* ProvInv is inductive as long as no block outlives the lock's key.
LEMMA ProvStep == ASSUME WorkLimit < Hold, ProvInv, [Next]_vars PROVE ProvInv'
<1>1. LockInv'
  BY ProvLock, LockStep DEF ProvInv
<1>2. \A b, c \in Callers : Inside(b) /\ Inside(c) => b = c
  BY DEF ProvInv, LockInv, WorkerHoldsKey, Inside, Working
<1>3. caller \in [Callers -> [pc : {"idle", "waiting", "inside", "check", "delete"}, clock : Nat]]
  BY DEF ProvInv, LockInv, LockTypeOK
<1> USE DEF StepsInside, AfterDelivery, Inside, Steps, HostingStatus
<1>4. ASSUME NEW c \in Callers, Enter(c) PROVE ProvInv'
  BY <1>1, <1>3, <1>4 DEF Enter, Acquire, ProvInv
<1>5. ASSUME NEW c \in Callers, Refresh(c) PROVE ProvInv'
  BY <1>1, <1>3, <1>5 DEF Refresh, lockVars, ProvInv
<1>6. ASSUME NEW c \in Callers, create_account(c) PROVE ProvInv'
  <2>1. ~delivered
    BY <1>6 DEF create_account, ProvInv
  <2>2. step' \in [Callers -> Steps] /\ \A b \in Callers : b # c => step'[b] = step[b]
    BY <1>6 DEF create_account, ProvInv
  <2>3. UNCHANGED <<caller, status, delivered>> /\ sent' = (sent \/ delivered) /\ Inside(c)
    BY <1>6 DEF create_account, lockVars
  <2>4. StepsInside' /\ AfterDelivery'
    BY <2>1, <2>2, <2>3 DEF ProvInv
  <2> QED BY <1>1, <2>1, <2>3, <2>4 DEF ProvInv
<1>7. ASSUME NEW c \in Callers, SaveOutcome(c) PROVE ProvInv'
  <2>1. ~delivered /\ Inside(c)
    BY <1>7 DEF SaveOutcome, ProvInv
  <2>2. \A b \in Callers : b # c => step[b] = "none"
    BY <1>2, <2>1 DEF ProvInv
  <2>3. /\ UNCHANGED <<caller, sent>> /\ step' = [step EXCEPT ![c] = "end"]
        /\ status' = IF step[c] = "save_active" THEN "active" ELSE "failed"
        /\ delivered' = (delivered \/ step[c] = "save_active")
    BY <1>7 DEF SaveOutcome, lockVars
  <2>4. StepsInside'
    BY <2>1, <2>3 DEF ProvInv
  <2>5. \A b \in Callers : step'[b] \in {"none", "refresh", "end"}
    BY <2>2, <2>3 DEF ProvInv
  <2>6. delivered' => status' = "active"
    BY <2>1, <2>3
  <2>7. delivered' \in BOOLEAN /\ status' \in HostingStatus
    BY <2>3
  <2> QED BY <1>1, <2>3, <2>4, <2>5, <2>6, <2>7 DEF ProvInv
<1>8. ASSUME NEW c \in Callers, Exit(c) PROVE ProvInv'
  BY <1>1, <1>3, <1>8 DEF Exit, LeaveBlock, ProvInv
<1>9. ASSUME NEW c \in Callers, Die(c) PROVE ProvInv'
  BY <1>1, <1>3, <1>9 DEF Die, Crash, IdleCaller, ProvInv
<1>10. ASSUME NEW c \in Callers, LockOnly(c) PROVE ProvInv'
  <2>1. UNCHANGED hostVars /\ \A b \in Callers : Inside(b) => (Inside(b))'
    BY <1>3, <1>10 DEF LockOnly, Request, GiveUp, CheckToken, DeleteKey, IdleCaller
  <2> QED BY <1>1, <2>1 DEF hostVars, ProvInv
<1>11. ASSUME NEW s \in Staff, \/ \E op \in {"cancel", "terminate"} : LoadAccount(s, op)
                               \/ cancel_request(s) \/ SyncAnswer(s) \/ sync_status(s)
                               \/ RemoveAccount(s) \/ SaveTermination(s) \/ StaffDies(s)
       PROVE ProvInv'
  <2>1. UNCHANGED <<lockVars, step, delivered, sent>>
    BY <1>11 DEF LoadAccount, cancel_request, SyncAnswer, sync_status, RemoveAccount,
                 SaveTermination, StaffDies
  <2>2. status' \in {status, "cancelled", "active", "terminated"}
    BY <1>11 DEF LoadAccount, cancel_request, SyncAnswer, sync_status, RemoveAccount,
                 SaveTermination, StaffDies
  <2> QED BY <1>1, <2>1, <2>2 DEF lockVars, ProvInv
<1>12. CASE PassTime /\ UNCHANGED hostVars
  <2>1. \A b \in Callers : Inside(b) => (Inside(b))'
    BY <1>3, <1>12 DEF PassTime
  <2> QED BY <1>1, <1>12, <2>1 DEF hostVars, ProvInv
<1>13. CASE UNCHANGED vars
  BY <1>1, <1>13 DEF vars, lockVars, hostVars, ProvInv
<1> QED BY <1>4, <1>5, <1>6, <1>7, <1>8, <1>9, <1>10, <1>11, <1>12, <1>13
        DEF Next, CallerNext, StaffNext

\* complete_provisioning: "two at once run one after the other, so the server
\* is asked once", whatever staff do to the row meanwhile.
THEOREM ServerNotAskedAgain == ASSUME WorkLimit < Hold PROVE Spec => []NotAskedAgain
<1>1. ProvInv => NotAskedAgain
  BY DEF ProvInv, NotAskedAgain
<1> QED BY <1>1, ProvInitOK, ProvStep, PTL DEF Spec
----------------------------------------------------------------------------
(* What the panel shows and what the server has.                            *)

\* Whoever is about to record the account as running was told so by the
\* server, in the answer to createacct or to the status query of a sync; and if
\* the account has been removed since, that is remembered.
HasServersWord ==
    /\ server \in {"absent", "present"} /\ unseen \in BOOLEAN
    /\ step \in [Callers -> Steps]
    /\ desk \in [Staff -> StaffOps]
    /\ \A c \in Callers : step[c] = "save_active" => server = "present" \/ c \in outrun
    /\ \A s \in Staff : desk[s] = "found" => server = "present" \/ s \in outrun

ShownInv == HasServersWord /\ ActiveIsOnServer

\* A termination, whatever becomes of its answer and its process.
LEMMA RemovalShown ==
    ASSUME ShownInv, NEW s \in Staff, RemoveAccount(s) \/ SaveTermination(s) \/ StaffDies(s)
    PROVE  ShownInv'
<1> USE DEF ShownInv, HasServersWord, ActiveIsOnServer, Steps, StaffOps
<1>1. s \notin Callers BY ProvisioningAssumption
<1>2. CASE RemoveAccount(s)
  <2>1. UNCHANGED <<step, status>> /\ desk[s] = "terminate" BY <1>2 DEF RemoveAccount
  <2>2. CASE server' = "absent" /\ outrun' = ToldItIsThere /\ desk' = [desk EXCEPT ![s] = "removed"]
             /\ UNCHANGED unseen
    <3>1. desk' \in [Staff -> StaffOps] /\ desk'[s] = "removed" BY <2>2
    <3>2. \A c \in Callers : step'[c] = "save_active" => c \in outrun' BY <2>1, <2>2 DEF ToldItIsThere
    <3>3. \A t \in Staff : desk'[t] = "found" => t \in outrun' BY <2>2 DEF ToldItIsThere
    <3> QED BY <2>1, <2>2, <3>1, <3>2, <3>3
  <2>3. CASE server' = "absent" /\ outrun' = ToldItIsThere /\ EndRequest(s) /\ unseen' = TRUE
    <3>1. desk' \in [Staff -> StaffOps] BY <2>3 DEF EndRequest
    <3>2. \A c \in Callers : step'[c] = "save_active" => c \in outrun' BY <2>1, <2>3 DEF ToldItIsThere
    <3>3. \A t \in Staff : desk'[t] = "found" => t \in outrun' BY <2>3 DEF ToldItIsThere, EndRequest
    <3> QED BY <2>1, <2>3, <3>1, <3>2, <3>3
  <2>4. CASE EndRequest(s) /\ UNCHANGED <<server, history>>
    BY <2>1, <2>4 DEF EndRequest, history
  <2> QED BY <1>2, <2>2, <2>3, <2>4 DEF RemoveAccount
<1>3. CASE SaveTermination(s)
  BY <1>3 DEF SaveTermination, EndRequest
<1>4. CASE StaffDies(s)
  <2>1. /\ UNCHANGED <<step, status, server>> /\ outrun' = outrun \ {s}
        /\ unseen' = (unseen \/ desk[s] = "removed") /\ desk' = [desk EXCEPT ![s] = "none"]
    BY <1>4 DEF StaffDies, EndRequest
  <2>2. desk' \in [Staff -> StaffOps] BY <2>1
  <2>3. \A c \in Callers : step'[c] = "save_active" => server' = "present" \/ c \in outrun'
    BY <1>1, <2>1
  <2>4. \A t \in Staff : desk'[t] = "found" => server' = "present" \/ t \in outrun' BY <2>1
  <2>5. \A t \in Staff : desk[t] = "removed" => t = s \/ desk'[t] = "removed" BY <2>1
  <2>6. ActiveIsOnServer' BY <2>1, <2>5
  <2>7. unseen' \in BOOLEAN BY <2>1
  <2> QED BY <2>1, <2>2, <2>3, <2>4, <2>6, <2>7
<1> QED BY <1>2, <1>3, <1>4

\* ShownInv is inductive, whatever the lock does.
LEMMA ShownStep == ASSUME ShownInv, [Next]_vars PROVE ShownInv'
<1> USE DEF ShownInv, HasServersWord, ActiveIsOnServer, Steps, HostingStatus, StaffOps, history
<1>1. ASSUME NEW c \in Callers, Enter(c) \/ Refresh(c) \/ Exit(c) PROVE ShownInv'
  BY <1>1 DEF Enter, Refresh, Exit
<1>2. ASSUME NEW c \in Callers, Die(c) PROVE ShownInv'
  BY <1>2, ProvisioningAssumption DEF Die
<1>3. ASSUME NEW c \in Callers, create_account(c) PROVE ShownInv'
  <2>1. UNCHANGED <<status, desk, outrun>>
    BY <1>3 DEF create_account
  <2>2. CASE server' = "present" /\ unseen' = FALSE
             /\ \E answer \in {"save_active", "save_failed"} : step' = [step EXCEPT ![c] = answer]
    <3>1. step' \in [Callers -> Steps] BY <2>2
    <3> QED BY <2>1, <2>2, <3>1
  <2>3. CASE step' = [step EXCEPT ![c] = "save_failed"] /\ UNCHANGED <<server, unseen>>
    <3>1. step' \in [Callers -> Steps] BY <2>3
    <3>2. \A b \in Callers : step'[b] = "save_active" => step[b] = "save_active" BY <2>3
    <3> QED BY <2>1, <2>3, <3>1, <3>2
  <2> QED BY <1>3, <2>2, <2>3 DEF create_account
<1>4. ASSUME NEW c \in Callers, SaveOutcome(c) PROVE ShownInv'
  BY <1>4, ProvisioningAssumption DEF SaveOutcome, ShowAgain
<1>5. ASSUME NEW c \in Callers, LockOnly(c) PROVE ShownInv'
  BY <1>5 DEF LockOnly, hostVars
<1>6. ASSUME NEW s \in Staff, NEW op \in {"cancel", "terminate"}, LoadAccount(s, op) PROVE ShownInv'
  BY <1>6 DEF LoadAccount
<1>7. ASSUME NEW s \in Staff, cancel_request(s) PROVE ShownInv'
  BY <1>7 DEF cancel_request, EndRequest
<1>8. ASSUME NEW s \in Staff, SyncAnswer(s) PROVE ShownInv'
  BY <1>8 DEF SyncAnswer
<1>9. ASSUME NEW s \in Staff, sync_status(s) PROVE ShownInv'
  BY <1>9, ProvisioningAssumption DEF sync_status, EndRequest, ShowAgain
<1>10. CASE UNCHANGED hostVars
  BY <1>10 DEF hostVars
<1> QED BY <1>1, <1>2, <1>3, <1>4, <1>5, <1>6, <1>7, <1>8, <1>9, <1>10, RemovalShown
        DEF Next, CallerNext, StaffNext, vars

\* The panel shows an account as running only if the server has it or the row
\* missed its removal: also when answers are lost, processes die and rows are
\* written late, and even where a block outlives its lock.
THEOREM ShownAccountsExist == Spec => []ActiveIsOnServer
<1>1. Init => ShownInv
  BY DEF Init, ShownInv, HasServersWord, ActiveIsOnServer, Steps, StaffOps, HostingStatus
<1>2. ShownInv => ActiveIsOnServer
  BY DEF ShownInv
<1> QED BY <1>1, <1>2, ShownStep, PTL DEF Spec

----------------------------------------------------------------------------
(***************************************************************************)
(* Domains, for any number of requests, workers and staff and any limits.  *)
(*                                                                         *)
(* The panel never promises more than the registry: the registrar's answer *)
(* reaches the row some steps later, so the invariant has to say of every  *)
(* answer in flight that it is still true of the registry.  It is, because *)
(* the registry's date only grows and nobody takes a domain away.          *)
(*                                                                         *)
(* A payment buys one renewal.  The registrar carries it out before the    *)
(* payment's own row says so, while the row lock keeps every other payment *)
(* out, so a change counts what is recorded and what is under way:         *)
(*     bought[c] = 1 if c is applied or its renewal is about to be saved.  *)
(***************************************************************************)

ProcRow ==
    [op : Ops \cup {"none"}, pc : {"idle", "choice", "ask", "look", "save"}, for : Changes \cup {0},
     looks : BOOLEAN, answer : {"none", "ok", "pending", "error"}, until : Nat]

\* The rows are the ones the code has, and each operation is at a step it has.
DomainRows ==
    /\ row \in [status : DomainStatus, ref : BOOLEAN, expires : Nat]
    /\ registry \in [at : {"free", "elsewhere", "moving", "ours"}, until : Nat]
    /\ proc \in [Procs -> ProcRow]
    /\ change \in [Changes -> {"none", "pending", "applied", "failed", "void"}]
    /\ bought \in [Changes -> Int]

StepsFit ==
    \A p \in Procs : /\ proc[p].pc # "idle" => proc[p].op # "none"
                     /\ proc[p].pc = "choice" => proc[p].op \in {"register", "transfer"}
                     /\ proc[p].pc = "look" => proc[p].op \in {"transfer", "poll", "sync"}

\* What the registrar has answered stays true while it waits to be saved.
AnswersHold ==
    \A p \in Procs : proc[p].answer = "ok" => registry.at = "ours" /\ proc[p].until <= registry.until

PromiseInv == DomainRows /\ StepsFit /\ AnswersHold /\ PanelPromisesLess

Applying(p) == proc[p].op = "apply" /\ proc[p].pc # "idle"

\* The row lock: one paid renewal at a time, and its change is not over.
OneApplies ==
    /\ \A p, q \in Procs : Applying(p) /\ Applying(q) => p = q
    /\ \A p \in Procs : Applying(p) =>
          p \in Requests /\ proc[p].for \in Changes /\ change[proc[p].for] \in {"pending", "failed"}

\* The registrar has carried out a renewal for c that has not committed.
Has(r, c) == r.op = "apply" /\ r.pc = "save" /\ r.answer = "ok" /\ r.for = c

Accounts ==
    \A c \in Changes :
        bought[c] = IF change[c] = "applied" \/ \E p \in Procs : Has(proc[p], c) THEN 1 ELSE 0

RenewalInv == OneApplies /\ Accounts

----------------------------------------------------------------------------
(* One process moves.                                                       *)

\* The process that moved has its new row and the others have theirs.
LEMMA OneMoves ==
    ASSUME DomainRows, NEW p \in Procs, NEW new \in ProcRow, proc' = [proc EXCEPT ![p] = new]
    PROVE  /\ proc' \in [Procs -> ProcRow]
           /\ proc'[p] = new
           /\ \A q \in Procs \ {p} : proc'[q] = proc[q]
BY DEF DomainRows

LEMMA IdleIsRow == Idle \in ProcRow
BY DEF Idle, ProcRow, Ops

LEMMA DomainsStart == DomainsInit => PromiseInv /\ RenewalInv
<1> SUFFICES ASSUME DomainsInit PROVE PromiseInv /\ RenewalInv
  OBVIOUS
<1>1. \A p \in Procs : proc[p] = Idle
  BY DEF DomainsInit
<1>2. DomainRows
  <2>1. row \in [status : DomainStatus, ref : BOOLEAN, expires : Nat]
    <3>1. \A st \in DomainStatus : Requested(st) \in [status : DomainStatus, ref : BOOLEAN, expires : Nat]
      BY DEF Requested
    <3>2. row = Requested("pending_registration") \/ row = Requested("pending_transfer_in")
      BY DEF DomainsInit
    <3>3. QED
      BY <3>1, <3>2 DEF DomainStatus
  <2>2. registry \in [at : {"free", "elsewhere", "moving", "ours"}, until : Nat]
    BY DEF DomainsInit
  <2>3. QED
    BY <2>1, <2>2, IdleIsRow DEF DomainsInit, DomainRows
<1>3. StepsFit /\ AnswersHold
  BY <1>1 DEF StepsFit, AnswersHold, Idle
<1>4. PanelPromisesLess
  BY <1>1, <1>2 DEF PanelPromisesLess, TypeOK, DomainRows, ProcRow, DomainsInit, Requested
<1>5. OneApplies
  BY <1>1 DEF OneApplies, Applying, Idle
<1>7. Accounts
  BY <1>1 DEF Accounts, DomainsInit, Has, Idle
<1>8. QED
  BY <1>2, <1>3, <1>4, <1>5, <1>7 DEF PromiseInv, RenewalInv

----------------------------------------------------------------------------
(* The operations begin.                                                    *)

\* What a process has when its operation has begun.
Begun(p, op, pc) ==
    proc'[p].op = op /\ proc'[p].pc = pc /\ ~proc'[p].looks /\ proc'[p].answer = "none"

LEMMA BeginMoves ==
    ASSUME DomainRows, NEW p \in Procs, NEW op \in Ops, NEW pc \in {"choice", "ask", "look", "save"}, Begin(p, op, pc)
    PROVE  proc' \in [Procs -> ProcRow] /\ Begun(p, op, pc) /\ \A q \in Procs \ {p} : proc'[q] = proc[q]
<1> DEFINE new == [Idle EXCEPT !.op = op, !.pc = pc]
<1>1. new \in ProcRow /\ new.op = op /\ new.pc = pc /\ ~new.looks /\ new.answer = "none"
  BY DEF ProcRow, Idle
<1>2. proc' = [proc EXCEPT ![p] = new]
  BY DEF Begin
<1> HIDE DEF new
<1>3. QED
  BY <1>1, <1>2, OneMoves DEF Begun

LEMMA ApplyMoves ==
    ASSUME DomainRows, NEW p \in Procs, NEW c \in Changes, Apply(p, c)
    PROVE  /\ proc' \in [Procs -> ProcRow] /\ \A q \in Procs \ {p} : proc'[q] = proc[q]
           /\ proc'[p].op = "apply" /\ proc'[p].pc \in {"ask", "save"}
           /\ proc'[p].answer = "none" /\ proc'[p].for = c
<1> DEFINE pc == IF row.status = "active" THEN "ask" ELSE "save"
           new == [Idle EXCEPT !.op = "apply", !.for = c, !.pc = pc]
<1>1. pc \in {"ask", "save"} /\ proc' = [proc EXCEPT ![p] = new]
  BY DEF Apply
<1> HIDE DEF pc
<1>2. new \in ProcRow /\ new.op = "apply" /\ new.pc = pc /\ new.answer = "none" /\ new.for = c
  BY <1>1 DEF ProcRow, Idle, Ops
<1> HIDE DEF new
<1>3. QED
  BY <1>1, <1>2, OneMoves

LEMMA EndMoves ==
    ASSUME DomainRows, NEW p \in Procs, End(p)
    PROVE  proc' \in [Procs -> ProcRow] /\ proc'[p] = Idle /\ \A q \in Procs \ {p} : proc'[q] = proc[q]
BY IdleIsRow, OneMoves DEF End

\* The registrar answers.
LEMMA AnswerMoves ==
    ASSUME DomainRows, NEW p \in Procs, NEW answer \in {"ok", "pending", "error"}, NEW until \in Nat, Answered(p, answer, until)
    PROVE  /\ proc' \in [Procs -> ProcRow] /\ \A q \in Procs \ {p} : proc'[q] = proc[q]
           /\ proc'[p].op = proc[p].op /\ proc'[p].pc = "save"
           /\ proc'[p].answer = answer /\ proc'[p].until = until
<1>0. proc[p] \in ProcRow
  BY DEF DomainRows
<1> DEFINE new == [proc[p] EXCEPT !.pc = "save", !.answer = answer, !.until = until]
<1>1. /\ new \in ProcRow /\ new.op = proc[p].op /\ new.pc = "save"
      /\ new.answer = answer /\ new.until = until
  BY <1>0 DEF ProcRow
<1>2. proc' = [proc EXCEPT ![p] = new]
  BY DEF Answered, DomainRows
<1> HIDE DEF new
<1>3. QED
  BY <1>1, <1>2, OneMoves

----------------------------------------------------------------------------
(* The panel promises no more than the registrar.                           *)

\* The operation fits the step, and an answer "ok" is what the registrar has.
FitsAt(r, registryNow) ==
    /\ r.pc # "idle" => r.op # "none"
    /\ r.pc = "choice" => r.op \in {"register", "transfer"}
    /\ r.pc = "look" => r.op \in {"transfer", "poll", "sync"}
    /\ r.answer = "ok" => registryNow.at = "ours" /\ r.until <= registryNow.until

\* What a step has to show: the rows, the process that moved, that the
\* registrar gives nothing back, and the row of a domain shown as active.
LEMMA PromiseMove ==
    ASSUME PromiseInv, DomainRows', NEW p \in Procs, \A q \in Procs \ {p} : proc'[q] = proc[q],
           FitsAt(proc'[p], registry'),
           registry.at = "ours" => registry'.at = "ours" /\ registry.until <= registry'.until,
           row'.status = "active" => registry'.at = "ours" /\ row'.expires <= registry'.until
    PROVE  PromiseInv'
<1>1. StepsFit'
  BY DEF PromiseInv, StepsFit, FitsAt
<1>2. AnswersHold'
  <2> SUFFICES ASSUME NEW q \in Procs, proc'[q].answer = "ok"
               PROVE  registry'.at = "ours" /\ proc'[q].until <= registry'.until
    BY DEF AnswersHold
  <2>1. CASE q = p
    BY <2>1 DEF FitsAt
  <2>2. CASE q # p
    <3>1. registry.at = "ours" /\ proc'[q].until <= registry.until
      BY <2>2 DEF PromiseInv, AnswersHold
    <3>2. proc'[q].until \in Nat /\ registry.until \in Nat /\ registry'.until \in Nat
      BY DEF PromiseInv, DomainRows, ProcRow
    <3>3. QED
      BY <3>1, <3>2
  <2>3. QED
    BY <2>1, <2>2
<1>3. PanelPromisesLess'
  <2>1. \A q \in Procs : proc'[q] \in ProcRow
    BY DEF DomainRows
  <2>2. TypeOK'
    BY <2>1 DEF TypeOK, DomainRows, ProcRow
  <2>3. QED
    BY <2>2 DEF PanelPromisesLess
<1>4. QED
  BY <1>1, <1>2, <1>3 DEF PromiseInv

\* The row and the registrar are left alone.
LEMMA PromiseBegin ==
    ASSUME PromiseInv, NEW p \in Procs, NEW op \in Ops, NEW pc \in {"choice", "ask", "look", "save"},
           Begin(p, op, pc), UNCHANGED <<row, registry, change, bought>>,
           pc = "choice" => op \in {"register", "transfer"},
           pc = "look" => op \in {"transfer", "poll", "sync"}
    PROVE  PromiseInv'
<1>1. proc' \in [Procs -> ProcRow] /\ Begun(p, op, pc) /\ \A q \in Procs \ {p} : proc'[q] = proc[q]
  BY BeginMoves DEF PromiseInv
<1>2. DomainRows'
  BY <1>1 DEF PromiseInv, DomainRows
<1>3. FitsAt(proc'[p], registry')
  BY <1>1 DEF FitsAt, Begun, Ops
<1>4. row'.status = "active" => registry'.at = "ours" /\ row'.expires <= registry'.until
  BY DEF PromiseInv, PanelPromisesLess
<1>5. registry'.until \in Nat /\ registry' = registry
  BY DEF PromiseInv, DomainRows
<1>6. QED
  BY <1>1, <1>2, <1>3, <1>4, <1>5, PromiseMove

LEMMA PromiseEnd ==
    ASSUME PromiseInv, NEW p \in Procs, End(p), UNCHANGED registry, bought' \in [Changes -> Int],
           change' \in [Changes -> {"none", "pending", "applied", "failed", "void"}],
           row' \in [status : DomainStatus, ref : BOOLEAN, expires : Nat],
           row'.status = "active" => registry.at = "ours" /\ row'.expires <= registry.until
    PROVE  PromiseInv'
<1>1. proc' \in [Procs -> ProcRow] /\ proc'[p] = Idle /\ \A q \in Procs \ {p} : proc'[q] = proc[q]
  BY EndMoves DEF PromiseInv
<1>2. DomainRows'
  BY <1>1 DEF PromiseInv, DomainRows
<1>3. FitsAt(proc'[p], registry')
  BY <1>1 DEF FitsAt, Idle
<1>5. registry.until \in Nat /\ registry' = registry
  BY DEF PromiseInv, DomainRows
<1>6. QED
  BY <1>1, <1>2, <1>3, <1>5, PromiseMove

\* An answer: "ok" is given for a domain the registrar has, with its date.
LEMMA PromiseAnswer ==
    ASSUME PromiseInv, NEW p \in Procs, proc[p].pc \in {"ask", "look"},
           NEW answer \in {"ok", "pending", "error"}, NEW until \in Nat,
           Answered(p, answer, until), UNCHANGED <<row, change>>, bought' \in [Changes -> Int],
           registry' \in [at : {"free", "elsewhere", "moving", "ours"}, until : Nat],
           registry.at = "ours" => registry'.at = "ours" /\ registry.until <= registry'.until,
           answer = "ok" => registry'.at = "ours" /\ until <= registry'.until
    PROVE  PromiseInv'
<1>1. /\ proc' \in [Procs -> ProcRow] /\ \A q \in Procs \ {p} : proc'[q] = proc[q]
      /\ proc'[p].op = proc[p].op /\ proc'[p].pc = "save"
      /\ proc'[p].answer = answer /\ proc'[p].until = until
  BY AnswerMoves DEF PromiseInv
<1>2. DomainRows'
  BY <1>1 DEF PromiseInv, DomainRows
<1>3. FitsAt(proc'[p], registry')
  BY <1>1 DEF FitsAt, PromiseInv, StepsFit
<1>4. row'.status = "active" => registry'.at = "ours" /\ row'.expires <= registry'.until
  <2>1. row.status = "active" => registry.at = "ours" /\ row.expires <= registry.until
    BY DEF PromiseInv, PanelPromisesLess
  <2>2. row.expires \in Nat /\ registry.until \in Nat /\ registry'.until \in Nat
    BY <1>2 DEF PromiseInv, DomainRows
  <2>3. QED
    BY <2>1, <2>2
<1>5. QED
  BY <1>1, <1>2, <1>3, <1>4, PromiseMove

LEMMA PromiseOperations ==
    ASSUME PromiseInv, NEW p \in Requests,
           \/ \E op \in {"register", "transfer"} : Choose(p, op)
           \/ \E c \in Changes : Apply(p, c)
           \/ renew_domain(p) \/ sync_domain(p) \/ cancel_domain_request(p) \/ Dies(p)
    PROVE  PromiseInv'
<1>0. p \in Procs
  BY DEF Procs
<1>1. ASSUME NEW op \in {"register", "transfer"}, Choose(p, op) PROVE PromiseInv'
  <2>1. op \in Ops
    BY DEF Ops
  <2>2. QED
    BY <1>0, <1>1, <2>1, PromiseBegin DEF Choose
<1>2. CASE renew_domain(p)
  BY <1>0, <1>2, PromiseBegin DEF renew_domain, Ops
<1>3. CASE sync_domain(p)
  BY <1>0, <1>3, PromiseBegin DEF sync_domain, Ops
<1>4. CASE cancel_domain_request(p)
  BY <1>0, <1>4, PromiseBegin DEF cancel_domain_request, Ops
<1>5. ASSUME NEW c \in Changes, Apply(p, c) PROVE PromiseInv'
  <2>1. /\ proc' \in [Procs -> ProcRow] /\ \A q \in Procs \ {p} : proc'[q] = proc[q]
        /\ proc'[p].op = "apply" /\ proc'[p].pc \in {"ask", "save"} /\ proc'[p].answer = "none"
    BY <1>0, <1>5, ApplyMoves DEF PromiseInv
  <2>2. UNCHANGED <<row, registry, change, bought>>
    BY <1>5 DEF Apply
  <2>3. DomainRows' /\ FitsAt(proc'[p], registry')
    BY <2>1, <2>2 DEF PromiseInv, DomainRows, FitsAt
  <2>4. row'.status = "active" => registry'.at = "ours" /\ row'.expires <= registry'.until
    BY <2>2 DEF PromiseInv, PanelPromisesLess
  <2>5. registry'.until \in Nat /\ registry' = registry
    BY <2>2 DEF PromiseInv, DomainRows
  <2>6. QED
    BY <1>0, <2>1, <2>3, <2>4, <2>5, PromiseMove
<1>6. CASE Dies(p)
  <2>1. row.status = "active" => registry.at = "ours" /\ row.expires <= registry.until
    BY DEF PromiseInv, PanelPromisesLess
  <2>2. End(p) /\ UNCHANGED <<row, registry, change>> /\ bought' \in [Changes -> Int]
    <3>1. bought \in [Changes -> Int]
      BY DEF PromiseInv, DomainRows
    <3>2. CASE Renewing(p)
      <4> DEFINE d == proc[p].for
      <4>1. bought' = [bought EXCEPT ![d] = bought[d] - 1] /\ End(p) /\ UNCHANGED <<row, registry, change>>
        BY <1>6, <3>2 DEF Dies
      <4> HIDE DEF d
      <4>2. CASE d \in Changes
        <5>1. bought[d] - 1 \in Int
          BY <3>1, <4>2
        <5>2. QED
          BY <3>1, <4>1, <5>1
      <4>3. CASE d \notin Changes
        BY <3>1, <4>1, <4>3
      <4>4. QED
        BY <4>2, <4>3
    <3>3. CASE ~Renewing(p)
      BY <1>6, <3>1, <3>3 DEF Dies
    <3>4. QED
      BY <3>2, <3>3
  <2>3. QED
    BY <1>0, <2>1, <2>2, PromiseEnd DEF PromiseInv, DomainRows
<1>7. QED
  BY <1>1, <1>2, <1>3, <1>4, <1>5, <1>6

LEMMA PromiseEnter ==
    ASSUME PromiseInv, NEW p \in Procs, EnterFlight(p) PROVE PromiseInv'
<1>1. CASE End(p)
  <2>1. row.status = "active" => registry.at = "ours" /\ row.expires <= registry.until
    BY DEF PromiseInv, PanelPromisesLess
  <2>2. QED
    BY <1>1, <2>1, PromiseEnd DEF EnterFlight, PromiseInv, DomainRows
<1>2. CASE ~End(p)
  <2>0. proc[p] \in ProcRow
    BY DEF PromiseInv, DomainRows
  <2> DEFINE asks == [proc[p] EXCEPT !.pc = "ask"]
             polls == [proc[p] EXCEPT !.pc = "look", !.looks = TRUE]
  <2>1. asks \in ProcRow /\ asks.op = proc[p].op /\ asks.pc = "ask" /\ asks.answer = proc[p].answer /\ asks.until = proc[p].until
    BY <2>0 DEF ProcRow
  <2>2. polls \in ProcRow /\ polls.op = proc[p].op /\ polls.pc = "look" /\ polls.answer = proc[p].answer /\ polls.until = proc[p].until
    BY <2>0 DEF ProcRow
  <2>3. proc' = [proc EXCEPT ![p] = asks] \/ (proc[p].op = "transfer" /\ proc' = [proc EXCEPT ![p] = polls])
    BY <1>2 DEF EnterFlight, PromiseInv, DomainRows
  <2> HIDE DEF asks, polls
  <2>4. proc' \in [Procs -> ProcRow] /\ \A q \in Procs \ {p} : proc'[q] = proc[q]
    BY <2>1, <2>2, <2>3, OneMoves DEF PromiseInv
  <2>5. proc'[p] = asks \/ (proc[p].op = "transfer" /\ proc'[p] = polls)
    BY <2>1, <2>2, <2>3, OneMoves DEF PromiseInv
  <2>6. UNCHANGED <<row, registry, change, bought>> /\ proc[p].pc = "choice"
    BY DEF EnterFlight
  <2>7. DomainRows'
    BY <2>4, <2>6 DEF PromiseInv, DomainRows
  <2>8. FitsAt(proc'[p], registry')
    BY <2>1, <2>2, <2>5, <2>6 DEF FitsAt, PromiseInv, StepsFit, AnswersHold
  <2>9. row'.status = "active" => registry'.at = "ours" /\ row'.expires <= registry'.until
    BY <2>6 DEF PromiseInv, PanelPromisesLess
  <2>10. registry' = registry /\ registry.until \in Nat
    BY <2>6 DEF PromiseInv, DomainRows
  <2>11. QED
    BY <2>4, <2>7, <2>8, <2>9, <2>10, PromiseMove
<1>3. QED
  BY <1>1, <1>2

\* The registrar keeps what it has, and says so truly.
LEMMA PromiseRegistrar ==
    ASSUME PromiseInv, NEW p \in Procs, Ask(p) \/ get_domain(p) PROVE PromiseInv'
<1>0. /\ registry \in [at : {"free", "elsewhere", "moving", "ours"}, until : Nat]
      /\ registry.until \in Nat /\ bought \in [Changes -> Int]
  BY DEF PromiseInv, DomainRows
<1>1. CASE get_domain(p)
  BY <1>0, <1>1, PromiseAnswer DEF get_domain
<1>2. CASE Ask(p) /\ Refused(p)
  BY <1>0, <1>2, PromiseAnswer DEF Ask, Refused
<1>3. CASE Ask(p) /\ register_domain(p)
  BY <1>0, <1>3, PromiseAnswer DEF Ask, register_domain
<1>4. CASE Ask(p) /\ transfer_domain(p)
  <2>1. registry' \in [at : {"free", "elsewhere", "moving", "ours"}, until : Nat]
    BY <1>0, <1>4 DEF transfer_domain
  <2>2. \/ registry' = [registry EXCEPT !.at = "moving"] /\ (Answered(p, "pending", 0) \/ Answered(p, "error", 0))
        \/ registry' = [at |-> "ours", until |-> 1] /\ Answered(p, "ok", 1)
    BY <1>4 DEF transfer_domain
  <2>3. registry.at # "ours" /\ UNCHANGED <<row, change, bought>> /\ proc[p].pc = "ask"
    BY <1>4 DEF transfer_domain, Ask
  <2>4. QED
    BY <1>0, <2>1, <2>2, <2>3, PromiseAnswer
<1>5. CASE Ask(p) /\ RenewAtRegistrar(p)
  <2>1. registry.at = "ours" /\ registry' = [registry EXCEPT !.until = @ + 1]
    BY <1>5 DEF RenewAtRegistrar
  <2>2. /\ registry' \in [at : {"free", "elsewhere", "moving", "ours"}, until : Nat]
        /\ registry'.at = "ours" /\ registry'.until = registry.until + 1
    BY <1>0, <2>1
  <2>3. Answered(p, "ok", registry.until + 1) \/ Answered(p, "error", 0)
    BY <1>5 DEF RenewAtRegistrar
  <2>4. bought' \in [Changes -> Int]
    BY <1>0, <1>5 DEF RenewAtRegistrar
  <2>5. UNCHANGED <<row, change>> /\ proc[p].pc = "ask"
    BY <1>5 DEF Ask
  <2>6. registry.until + 1 \in Nat /\ registry.until <= registry'.until /\ registry.until + 1 <= registry'.until
    BY <1>0, <2>2
  <2>7. QED
    BY <2>2, <2>3, <2>4, <2>5, <2>6, PromiseAnswer
<1>6. QED
  BY <1>1, <1>2, <1>3, <1>4, <1>5 DEF Ask

\* What is saved as active, or as the new date, is the registrar's answer.
LEMMA PromiseSave ==
    ASSUME PromiseInv, NEW p \in Procs, Save(p) \/ ApplyCommits(p) PROVE PromiseInv'
<1>0. /\ row \in [status : DomainStatus, ref : BOOLEAN, expires : Nat] /\ proc[p] \in ProcRow /\ proc[p].until \in Nat
      /\ proc[p].answer = "ok" => registry.at = "ours" /\ proc[p].until <= registry.until
      /\ row.status = "active" => registry.at = "ours" /\ row.expires <= registry.until
  BY DEF PromiseInv, DomainRows, ProcRow, AnswersHold, PanelPromisesLess
<1> DEFINE Sound(r) == /\ r \in [status : DomainStatus, ref : BOOLEAN, expires : Nat]
                       /\ r.status = "active" => registry.at = "ours" /\ r.expires <= registry.until
<1>1. Sound(Renewed(p))
  BY <1>0 DEF Renewed
<1>2. Sound(Completed(p))
  BY <1>0 DEF Completed, DomainStatus
<1>3. Sound(poll_transfer(p))
  BY <1>0 DEF poll_transfer, DomainStatus
<1>4. Sound([row EXCEPT !.status = "cancelled"])
  BY <1>0 DEF DomainStatus
<1>5. Sound(row')
  <2>1. CASE ApplyCommits(p)
    BY <1>1, <2>1 DEF ApplyCommits
  <2>2. CASE Save(p)
    <3>1. proc[p].op \in {"register", "transfer", "poll", "renew", "sync", "cancel"}
      BY <1>0, <2>2 DEF Save, PromiseInv, StepsFit, ProcRow, Ops
    <3>2. row' \in {Renewed(p), Completed(p), poll_transfer(p), [row EXCEPT !.status = "cancelled"]}
      BY <2>2, <3>1 DEF Save, Polling
    <3>3. QED
      BY <1>1, <1>2, <1>3, <1>4, <3>2
  <2>3. QED
    BY <2>1, <2>2
<1>6. /\ End(p) /\ UNCHANGED registry /\ bought' \in [Changes -> Int]
      /\ change' \in [Changes -> {"none", "pending", "applied", "failed", "void"}]
  <2>1. bought \in [Changes -> Int] /\ change \in [Changes -> {"none", "pending", "applied", "failed", "void"}]
    BY DEF PromiseInv, DomainRows
  <2>2. CASE Save(p)
    BY <2>1, <2>2 DEF Save
  <2>3. CASE ApplyCommits(p)
    BY <2>1, <2>3 DEF ApplyCommits
  <2>4. QED
    BY <2>2, <2>3
<1>7. QED
  BY <1>5, <1>6, PromiseEnd

\* A renewal is invoiced, its invoice cancelled, or its failure dismissed.
ChangeTurns == \E c \in Changes : create_domain_renewal(c) \/ dismiss_change(c) \/ void_changes(c)

LEMMA ChangeTurned ==
    ASSUME PromiseInv, ChangeTurns
    PROVE  /\ UNCHANGED <<row, registry, proc, bought>>
           /\ \E c \in Changes, st \in {"pending", "void"} :
                 /\ change[c] # "applied" /\ change' = [change EXCEPT ![c] = st]
                 /\ \A p \in Procs : Applying(p) => proc[p].for # c
<1>1. PICK c \in Changes : create_domain_renewal(c) \/ dismiss_change(c) \/ void_changes(c)
  BY DEF ChangeTurns
<1>2. CASE create_domain_renewal(c)
  <2>1. \A p \in Procs : ~Applying(p)
    BY <1>2 DEF create_domain_renewal, RowFree, Applying
  <2>2. QED
    BY <1>2, <2>1 DEF create_domain_renewal
<1>3. CASE dismiss_change(c) \/ void_changes(c)
  BY <1>3 DEF dismiss_change, void_changes, ChangeFree, Applying
<1>4. QED
  BY <1>1, <1>2, <1>3

LEMMA PromiseOthers ==
    ASSUME PromiseInv, ChangeTurns \/ TransferEnds PROVE PromiseInv'
<1>0. Poller \in Procs /\ FitsAt(proc[Poller], registry)
  BY DEF Procs, FitsAt, PromiseInv, StepsFit, AnswersHold
<1>1. UNCHANGED <<row, proc, bought>>
  BY ChangeTurned DEF TransferEnds
<1>2. /\ registry' \in [at : {"free", "elsewhere", "moving", "ours"}, until : Nat]
      /\ registry.at = "ours" => registry' = registry
  BY ChangeTurned DEF TransferEnds, PromiseInv, DomainRows
<1>8. change' \in [Changes -> {"none", "pending", "applied", "failed", "void"}]
  <2>1. CASE TransferEnds
    BY <2>1 DEF TransferEnds, PromiseInv, DomainRows
  <2>2. CASE ChangeTurns
    <3>1. PICK c \in Changes, st \in {"pending", "void"} : change' = [change EXCEPT ![c] = st]
      BY <2>2, ChangeTurned
    <3>2. QED
      BY <3>1 DEF PromiseInv, DomainRows
  <2>3. QED
    BY <2>1, <2>2
<1>3. DomainRows'
  BY <1>1, <1>2, <1>8 DEF PromiseInv, DomainRows
<1>4. FitsAt(proc'[Poller], registry')
  BY <1>0, <1>1, <1>2 DEF FitsAt
<1>5. row'.status = "active" => registry'.at = "ours" /\ row'.expires <= registry'.until
  BY <1>1, <1>2 DEF PromiseInv, PanelPromisesLess
<1>6. registry.at = "ours" => registry'.at = "ours" /\ registry.until <= registry'.until
  BY <1>2 DEF PromiseInv, DomainRows
<1>7. QED
  BY <1>0, <1>1, <1>3, <1>4, <1>5, <1>6, PromiseMove

LEMMA PromiseStep == PromiseInv /\ [DomainsNext]_domainsVars => PromiseInv'
<1> SUFFICES ASSUME PromiseInv, [DomainsNext]_domainsVars PROVE PromiseInv'
  OBVIOUS
<1>0. CASE UNCHANGED domainsVars
  BY <1>0 DEF domainsVars, PromiseInv, DomainRows, StepsFit, AnswersHold, PanelPromisesLess, TypeOK
<1>1. ASSUME NEW p \in Procs, Works(p) PROVE PromiseInv'
  <2>1. CASE TurnAway(p)
    <3>1. row.status = "active" => registry.at = "ours" /\ row.expires <= registry.until
      BY DEF PromiseInv, PanelPromisesLess
    <3>2. QED
      BY <2>1, <3>1, PromiseEnd DEF TurnAway, PromiseInv, DomainRows
  <2>2. QED
    BY <1>1, <2>1, PromiseEnter, PromiseRegistrar, PromiseSave DEF Works
<1>2. CASE poll_pending_transfers
  BY <1>2, PromiseBegin DEF poll_pending_transfers, Procs, Ops, PromiseInv, DomainRows
<1>3. QED
  BY <1>0, <1>1, <1>2, PromiseOperations, PromiseOthers DEF DomainsNext, ChangeTurns

\* A domain the panel shows as active is registered for the client, and the
\* registrar keeps it at least as long as the panel says: whatever registers,
\* transfers, polls, renews, synchronises or cancels it at the same time.
THEOREM PanelKeepsWord == DomainsSpec => []PanelPromisesLess
<1>1. PromiseInv => PanelPromisesLess
  BY DEF PromiseInv
<1>2. QED
  BY <1>1, DomainsStart, PromiseStep, PTL DEF DomainsSpec

----------------------------------------------------------------------------
(* A payment buys one renewal.                                              *)

\* What a step has to show for the accounts: of each change it keeps all that
\* is counted, or it leaves the right number and no other process has one.
LEMMA AccountMove ==
    ASSUME Accounts, NEW p \in Procs, \A q \in Procs \ {p} : proc'[q] = proc[q],
           \A c \in Changes :
              \/ /\ bought'[c] = bought[c] /\ (change'[c] = "applied" <=> change[c] = "applied")
                 /\ Has(proc'[p], c) <=> Has(proc[p], c)
              \/ /\ bought'[c] = (IF change'[c] = "applied" \/ Has(proc'[p], c) THEN 1 ELSE 0)
                 /\ \A q \in Procs \ {p} : ~Has(proc[q], c)
    PROVE  Accounts'
<1> SUFFICES ASSUME NEW c \in Changes
             PROVE  bought'[c] = IF change'[c] = "applied" \/ \E q \in Procs : Has(proc'[q], c) THEN 1 ELSE 0
  BY DEF Accounts, Has
<1>1. \A q \in Procs \ {p} : Has(proc'[q], c) <=> Has(proc[q], c)
  OBVIOUS
<1>2. bought[c] = IF change[c] = "applied" \/ \E q \in Procs : Has(proc[q], c) THEN 1 ELSE 0
  BY DEF Accounts
<1>3. CASE /\ bought'[c] = bought[c] /\ (change'[c] = "applied" <=> change[c] = "applied")
           /\ Has(proc'[p], c) <=> Has(proc[p], c)
  <2>1. (\E q \in Procs : Has(proc'[q], c)) <=> (\E q \in Procs : Has(proc[q], c))
    BY <1>1, <1>3
  <2>2. QED
    BY <1>2, <1>3, <2>1
<1>4. CASE /\ bought'[c] = (IF change'[c] = "applied" \/ Has(proc'[p], c) THEN 1 ELSE 0)
           /\ \A q \in Procs \ {p} : ~Has(proc[q], c)
  <2>1. (\E q \in Procs : Has(proc'[q], c)) <=> Has(proc'[p], c)
    BY <1>1, <1>4
  <2>2. QED
    BY <1>4, <2>1
<1>5. QED
  BY <1>3, <1>4

\* Who applies after the step applied before it, or nobody did, and the
\* change is not over under him.
LEMMA ApplyMove ==
    ASSUME OneApplies, NEW p \in Procs, \A q \in Procs \ {p} : proc'[q] = proc[q],
           Applying(p)' => \/ Applying(p) /\ proc'[p].for = proc[p].for
                           \/ p \in Requests /\ proc'[p].for \in Changes /\ \A q \in Procs \ {p} : ~Applying(q),
           Applying(p)' => change'[proc'[p].for] \in {"pending", "failed"},
           \A q \in Procs \ {p} : Applying(q) => change'[proc[q].for] \in {"pending", "failed"}
    PROVE  OneApplies'
BY DEF OneApplies, Applying

\* Whoever has a renewal in hand is the one who applies.
LEMMA HasApplies ==
    ASSUME OneApplies, NEW p \in Procs, Applying(p)
    PROVE  \A q \in Procs \ {p} : ~Applying(q) /\ \A c \in Changes : ~Has(proc[q], c)
BY DEF OneApplies, Applying, Has

\* A process that applies nothing moves, or ends having bought nothing.
LEMMA QuietMove ==
    ASSUME RenewalInv, NEW p \in Procs, \A q \in Procs \ {p} : proc'[q] = proc[q],
           UNCHANGED <<change, bought>>, ~Applying(p)', \A c \in Changes : ~Has(proc[p], c)
    PROVE  RenewalInv'
<1>1. \A c \in Changes : ~Has(proc'[p], c)
  BY DEF Has, Applying
<1>2. Accounts'
  BY <1>1, AccountMove DEF RenewalInv
<1>3. OneApplies'
  BY ApplyMove DEF RenewalInv, OneApplies
<1>4. QED
  BY <1>2, <1>3 DEF RenewalInv

\* An operation other than a paid renewal begins.
LEMMA BegunQuietly ==
    ASSUME PromiseInv, RenewalInv, NEW p \in Procs,
           NEW op \in {"register", "transfer", "poll", "renew", "sync", "cancel"},
           NEW pc \in {"choice", "ask", "look", "save"},
           proc[p].pc = "idle", Begin(p, op, pc), UNCHANGED <<change, bought>>
    PROVE  RenewalInv'
<1>1. op \in Ops /\ DomainRows
  BY DEF Ops, PromiseInv
<1>2. Begun(p, op, pc) /\ \A q \in Procs \ {p} : proc'[q] = proc[q]
  BY <1>1, BeginMoves
<1>3. ~Applying(p)' /\ \A c \in Changes : ~Has(proc[p], c)
  BY <1>2 DEF Applying, Has, Begun
<1>4. QED
  BY <1>2, <1>3, QuietMove

\* An operation that has bought nothing for a payment ends.
LEMMA EndedQuietly ==
    ASSUME PromiseInv, RenewalInv, NEW p \in Procs, End(p), \A c \in Changes : ~Has(proc[p], c),
           UNCHANGED <<change, bought>>
    PROVE  RenewalInv'
<1>1. proc'[p] = Idle /\ \A q \in Procs \ {p} : proc'[q] = proc[q]
  BY EndMoves DEF PromiseInv
<1>2. ~Applying(p)'
  BY <1>1 DEF Applying, Idle
<1>3. QED
  BY <1>1, <1>2, QuietMove

LEMMA RenewalBegins ==
    ASSUME PromiseInv, RenewalInv, NEW p \in Requests, NEW c \in Changes, Apply(p, c) PROVE RenewalInv'
<1>0. p \in Procs /\ DomainRows /\ UNCHANGED <<change, bought>> /\ proc[p].pc = "idle"
  BY DEF Procs, PromiseInv, Apply
<1>1. /\ \A q \in Procs \ {p} : proc'[q] = proc[q]
      /\ proc'[p].op = "apply" /\ proc'[p].answer = "none" /\ proc'[p].for = c
  BY <1>0, ApplyMoves
<1>2. \A d \in Changes : ~Has(proc[p], d) /\ ~Has(proc'[p], d)
  BY <1>0, <1>1 DEF Has
<1>3. change[c] \in {"pending", "failed"} /\ \A q \in Procs : ~Applying(q)
  BY DEF Apply, MayApply, RowFree, Applying
<1>4. Accounts'
  BY <1>0, <1>1, <1>2, AccountMove DEF RenewalInv
<1>5. OneApplies'
  BY <1>0, <1>1, <1>3, ApplyMove DEF RenewalInv
<1>6. QED
  BY <1>4, <1>5 DEF RenewalInv

LEMMA RenewalAtRegistrar ==
    ASSUME PromiseInv, RenewalInv, NEW p \in Procs, Ask(p) PROVE RenewalInv'
<1>0. DomainRows /\ proc[p].pc = "ask" /\ UNCHANGED change /\ registry.until \in Nat
  BY DEF PromiseInv, Ask, DomainRows
<1>1. \A c \in Changes : ~Has(proc[p], c)
  BY <1>0 DEF Has
<1>2. PICK answer \in {"ok", "pending", "error"}, until \in Nat : Answered(p, answer, until)
  <2>1. registry.until + 1 \in Nat
    BY <1>0
  <2>2. QED
    BY <2>1 DEF Ask, Refused, register_domain, transfer_domain, RenewAtRegistrar
<1>3. /\ \A q \in Procs \ {p} : proc'[q] = proc[q]
      /\ proc'[p].op = proc[p].op /\ proc'[p].pc = "save"
      /\ proc'[p].answer = answer /\ proc'[p].for = proc[p].for
  <2>1. /\ \A q \in Procs \ {p} : proc'[q] = proc[q]
        /\ proc'[p].op = proc[p].op /\ proc'[p].pc = "save" /\ proc'[p].answer = answer
    BY <1>0, <1>2, AnswerMoves
  <2>2. proc[p] \in ProcRow /\ p \in DOMAIN proc
    BY <1>0 DEF DomainRows
  <2>3. proc'[p] = [proc[p] EXCEPT !.pc = "save", !.answer = answer, !.until = until]
    BY <1>2, <2>2 DEF Answered
  <2>4. proc'[p].for = proc[p].for
    BY <2>2, <2>3 DEF ProcRow
  <2>5. QED
    BY <2>1, <2>4
<1>4. CASE proc[p].op # "apply"
  <2>0. ASSUME RenewAtRegistrar(p) PROVE UNCHANGED bought
    BY <1>4, <2>0 DEF RenewAtRegistrar
  <2>1. UNCHANGED bought /\ ~Applying(p)'
    <3>1. UNCHANGED bought
      BY <2>0 DEF Ask, Refused, register_domain, transfer_domain
    <3>2. QED
      BY <1>3, <1>4, <3>1 DEF Applying
  <2>2. QED
    BY <1>0, <1>1, <1>3, <2>1, QuietMove
<1>5. CASE proc[p].op = "apply"
  <2> DEFINE d == proc[p].for
  <2>1. Applying(p) /\ d \in Changes /\ change[d] \in {"pending", "failed"}
    BY <1>0, <1>5 DEF Applying, RenewalInv, OneApplies
  <2>2. \A q \in Procs \ {p} : ~Applying(q) /\ \A c \in Changes : ~Has(proc[q], c)
    BY <2>1, HasApplies DEF RenewalInv
  <2>3. bought[d] = 0
    BY <1>1, <2>1, <2>2 DEF RenewalInv, Accounts
  <2>4. OneApplies'
    BY <1>0, <1>3, <2>1, <2>2, ApplyMove DEF RenewalInv
  <2>5. \A c \in Changes : Has(proc'[p], c) <=> answer = "ok" /\ c = d
    BY <1>3, <1>5 DEF Has
  <2>6. bought' = IF answer = "ok" THEN [bought EXCEPT ![d] = @ + 1] ELSE bought
    <3>1. proc' = [proc EXCEPT ![p].pc = "save", ![p].answer = answer, ![p].until = until]
      BY <1>2 DEF Answered
    <3>2. Refused(p) \/ RenewAtRegistrar(p)
      BY <1>5 DEF Ask, register_domain, transfer_domain
    <3>3. CASE Refused(p)
      <4>1. proc'[p].answer = "error"
        BY <1>0, <3>3, AnswerMoves DEF Refused
      <4>2. QED
        BY <1>3, <3>3, <4>1 DEF Refused
    <3>4. CASE RenewAtRegistrar(p)
      <4>1. CASE Answered(p, "ok", registry.until + 1) /\ bought' = [bought EXCEPT ![d] = @ + 1]
        <5>1. registry.until + 1 \in Nat
          BY <1>0
        <5>2. proc'[p].answer = "ok"
          BY <1>0, <4>1, <5>1, AnswerMoves
        <5>3. QED
          BY <1>3, <4>1, <5>2
      <4>2. CASE Answered(p, "error", 0) /\ UNCHANGED bought
        <5>1. proc'[p].answer = "error"
          BY <1>0, <4>2, AnswerMoves
        <5>2. QED
          BY <1>3, <4>2, <5>1
      <4>3. QED
        BY <1>5, <3>4, <4>1, <4>2 DEF RenewAtRegistrar
    <3>5. QED
      BY <3>2, <3>3, <3>4
  <2> HIDE DEF d
  <2>7. Accounts'
    <3>1. bought \in [Changes -> Int]
      BY <1>0 DEF DomainRows
    <3>2. CASE answer = "ok"
      <4>1. \A c \in Changes : bought'[c] = IF c = d THEN 1 ELSE bought[c]
        BY <2>1, <2>3, <2>6, <3>1, <3>2
      <4>2. QED
        BY <1>0, <1>1, <1>3, <2>2, <2>5, <3>2, <4>1, AccountMove DEF RenewalInv
    <3>3. CASE answer # "ok"
      BY <1>0, <1>1, <1>3, <2>5, <2>6, <3>3, AccountMove DEF RenewalInv
    <3>4. QED
      BY <3>2, <3>3
  <2>8. QED
    BY <2>4, <2>7 DEF RenewalInv
<1>6. QED
  BY <1>4, <1>5

\* The payment commits what was bought for it, or that nothing was.
LEMMA RenewalCommits ==
    ASSUME PromiseInv, RenewalInv, NEW p \in Procs, ApplyCommits(p) PROVE RenewalInv'
<1>1. proc'[p] = Idle /\ \A q \in Procs \ {p} : proc'[q] = proc[q]
  BY EndMoves DEF PromiseInv, ApplyCommits
<1>2. ~Applying(p)' /\ \A c \in Changes : ~Has(proc'[p], c)
  BY <1>1 DEF Applying, Has, Idle
<1> DEFINE d == proc[p].for
           outcome == IF proc[p].answer = "ok" THEN "applied" ELSE "failed"
<1>3. Applying(p) /\ UNCHANGED bought /\ change' = [change EXCEPT ![d] = outcome]
  BY DEF Applying, ApplyCommits
<1>4. d \in Changes /\ change[d] \in {"pending", "failed"}
  BY <1>3 DEF RenewalInv, OneApplies
<1>5. \A q \in Procs \ {p} : ~Applying(q) /\ \A c \in Changes : ~Has(proc[q], c)
  BY <1>3, HasApplies DEF RenewalInv
<1>6. \A c \in Changes : Has(proc[p], c) <=> proc[p].answer = "ok" /\ c = d
  BY DEF Has, ApplyCommits
<1>7. \A c \in Changes : change'[c] = IF c = d THEN outcome ELSE change[c]
  BY <1>3, <1>4 DEF PromiseInv, DomainRows
<1>8. bought[d] = IF proc[p].answer = "ok" THEN 1 ELSE 0
  BY <1>4, <1>5, <1>6 DEF RenewalInv, Accounts
<1> HIDE DEF d
<1>9. Accounts'
  BY <1>1, <1>2, <1>3, <1>4, <1>5, <1>6, <1>7, <1>8, AccountMove DEF RenewalInv
<1>10. OneApplies'
  BY <1>1, <1>2, <1>5, ApplyMove DEF RenewalInv
<1>11. QED
  BY <1>9, <1>10 DEF RenewalInv

\* Whoever dies with a renewal in hand loses it.
LEMMA RenewalDies ==
    ASSUME PromiseInv, RenewalInv, NEW p \in Requests, Dies(p) PROVE RenewalInv'
<1>0. p \in Procs /\ UNCHANGED change /\ End(p) /\ bought \in [Changes -> Int]
  BY DEF Procs, Dies, PromiseInv, DomainRows
<1>1. CASE ~Renewing(p)
  BY <1>0, <1>1, EndedQuietly DEF Dies, Renewing, Has
<1>2. CASE Renewing(p)
  <2> DEFINE d == proc[p].for
  <2>1. Applying(p) /\ bought' = [bought EXCEPT ![d] = @ - 1]
    BY <1>2 DEF Renewing, Applying, Dies
  <2>2. d \in Changes /\ change[d] \in {"pending", "failed"}
    BY <1>0, <2>1 DEF RenewalInv, OneApplies
  <2>3. \A q \in Procs \ {p} : ~Applying(q) /\ \A c \in Changes : ~Has(proc[q], c)
    BY <1>0, <2>1, HasApplies DEF RenewalInv
  <2>4. \A c \in Changes : Has(proc[p], c) <=> c = d
    BY <1>2 DEF Has, Renewing
  <2>5. proc'[p] = Idle /\ \A q \in Procs \ {p} : proc'[q] = proc[q]
    BY <1>0, EndMoves DEF PromiseInv
  <2>6. ~Applying(p)' /\ \A c \in Changes : ~Has(proc'[p], c)
    BY <2>5 DEF Applying, Has, Idle
  <2>7. bought[d] = 1
    BY <1>0, <2>2, <2>4 DEF RenewalInv, Accounts
  <2> HIDE DEF d
  <2>8. \A c \in Changes : bought'[c] = IF c = d THEN 0 ELSE bought[c]
    BY <1>0, <2>1, <2>2, <2>7
  <2>9. Accounts'
    BY <1>0, <2>2, <2>3, <2>4, <2>5, <2>6, <2>8, AccountMove DEF RenewalInv
  <2>10. OneApplies'
    BY <1>0, <2>3, <2>5, <2>6, ApplyMove DEF RenewalInv
  <2>11. QED
    BY <2>9, <2>10 DEF RenewalInv
<1>3. QED
  BY <1>1, <1>2

LEMMA ChangeMoves ==
    ASSUME PromiseInv, RenewalInv, ChangeTurns \/ TransferEnds PROVE RenewalInv'
<1>1. CASE TransferEnds
  <2>1. UNCHANGED <<proc, change, bought>>
    BY <1>1 DEF TransferEnds
  <2>2. QED
    BY <2>1 DEF RenewalInv, OneApplies, Accounts, Applying, Has
<1>2. CASE ChangeTurns
  <2>1. PICK c \in Changes, st \in {"pending", "void"} :
           /\ change[c] # "applied" /\ change' = [change EXCEPT ![c] = st]
           /\ \A p \in Procs : Applying(p) => proc[p].for # c
    BY <1>2, ChangeTurned
  <2>2. UNCHANGED <<proc, bought>>
    BY <1>2, ChangeTurned
  <2>3. \A d \in Changes : change'[d] = IF d = c THEN st ELSE change[d]
    BY <2>1 DEF PromiseInv, DomainRows
  <2>4. OneApplies'
    BY <2>1, <2>2, <2>3 DEF RenewalInv, OneApplies, Applying
  <2>5. Accounts'
    <3>1. \A d \in Changes : change'[d] = "applied" <=> change[d] = "applied"
      BY <2>1, <2>3
    <3>2. QED
      BY <2>2, <3>1 DEF RenewalInv, Accounts, Has
  <2>6. QED
    BY <2>4, <2>5 DEF RenewalInv
<1>3. QED
  BY <1>1, <1>2

LEMMA RenewalStep ==
    ASSUME PromiseInv, RenewalInv, [DomainsNext]_domainsVars PROVE RenewalInv'
<1>1. CASE UNCHANGED domainsVars
  BY <1>1 DEF domainsVars, RenewalInv, OneApplies, Accounts, Applying, Has
<1>2. ASSUME NEW p \in Requests, NEW op \in {"register", "transfer"}, Choose(p, op) PROVE RenewalInv'
  BY <1>2, BegunQuietly DEF Choose, Procs
<1>3. ASSUME NEW p \in Requests, renew_domain(p) \/ sync_domain(p) \/ cancel_domain_request(p) PROVE RenewalInv'
  BY <1>3, BegunQuietly DEF renew_domain, sync_domain, cancel_domain_request, Procs
<1>4. CASE poll_pending_transfers
  BY <1>4, BegunQuietly DEF poll_pending_transfers, Procs
<1>5. ASSUME NEW p \in Procs, EnterFlight(p) PROVE RenewalInv'
  <2>0. /\ proc[p].pc = "choice" /\ UNCHANGED <<change, bought>> /\ \A c \in Changes : ~Has(proc[p], c)
        /\ proc[p].op \in {"register", "transfer"} /\ DomainRows
    BY <1>5 DEF EnterFlight, Has, PromiseInv, StepsFit
  <2>1. CASE End(p)
    BY <2>0, <2>1, EndedQuietly
  <2>2. CASE ~End(p)
    <3>0. proc[p] \in ProcRow
      BY <2>0 DEF DomainRows
    <3>1. \/ proc' = [proc EXCEPT ![p].pc = "look", ![p].looks = TRUE]
          \/ proc' = [proc EXCEPT ![p].pc = "ask"]
      BY <1>5, <2>2 DEF EnterFlight
    <3>2. proc'[p].op = proc[p].op /\ \A q \in Procs \ {p} : proc'[q] = proc[q]
      BY <2>0, <3>0, <3>1 DEF DomainRows, ProcRow
    <3>3. ~Applying(p)'
      BY <2>0, <3>2 DEF Applying
    <3>4. QED
      BY <2>0, <3>2, <3>3, QuietMove
  <2>3. QED
    BY <2>1, <2>2
<1>6. ASSUME NEW p \in Procs, TurnAway(p) \/ Save(p) PROVE RenewalInv'
  <2>1. End(p) /\ UNCHANGED <<change, bought>> /\ \A c \in Changes : ~Has(proc[p], c)
    BY <1>6 DEF TurnAway, Save, Has
  <2>2. QED
    BY <2>1, EndedQuietly
<1>7. ASSUME NEW p \in Procs, get_domain(p) PROVE RenewalInv'
  <2>1. proc[p].pc = "look" /\ proc[p].op \in {"transfer", "poll", "sync"} /\ registry.until \in Nat /\ DomainRows
        /\ UNCHANGED <<change, bought>>
    BY <1>7 DEF get_domain, PromiseInv, StepsFit, DomainRows
  <2>2. PICK answer \in {"ok", "error"}, until \in Nat : Answered(p, answer, until)
    BY <1>7, <2>1 DEF get_domain
  <2>3. proc'[p].op = proc[p].op /\ \A q \in Procs \ {p} : proc'[q] = proc[q]
    BY <2>1, <2>2, AnswerMoves
  <2>4. ~Applying(p)' /\ \A c \in Changes : ~Has(proc[p], c)
    BY <2>1, <2>3 DEF Applying, Has
  <2>5. QED
    BY <2>1, <2>3, <2>4, QuietMove
<1>8. QED
  BY <1>1, <1>2, <1>3, <1>4, <1>5, <1>6, <1>7, RenewalBegins, RenewalAtRegistrar, RenewalCommits, RenewalDies, ChangeMoves
     DEF DomainsNext, Works, ChangeTurns

\* A payment buys one renewal, and none that is not recorded as applied or
\* about to be, up to those whose outcome was lost: for any number of requests
\* and renewals, and however payments and retries cross.  (Renewals that staff
\* order are not counted: each click is one.)
THEOREM NoRenewalForNothing == DomainsSpec => []RenewalsWerePaidFor
<1>1. RenewalInv => RenewalsWerePaidFor
  <2> SUFFICES ASSUME RenewalInv, NEW c \in Changes
               PROVE  bought[c] = IF change[c] = "applied" \/ \E p \in Procs : Renewing(p) /\ proc[p].for = c THEN 1 ELSE 0
    BY DEF RenewalsWerePaidFor
  <2>1. bought[c] = IF change[c] = "applied" \/ \E p \in Procs : Has(proc[p], c) THEN 1 ELSE 0
    BY DEF RenewalInv, Accounts
  <2>2. \A p \in Procs : Has(proc[p], c) <=> Renewing(p) /\ proc[p].for = c
    BY DEF Has, Renewing
  <2>3. QED
    BY <2>1, <2>2
<1>2. PromiseInv /\ RenewalInv /\ [DomainsNext]_domainsVars => (PromiseInv /\ RenewalInv)'
  BY PromiseStep, RenewalStep
<1>3. QED
  BY <1>1, <1>2, DomainsStart, PTL DEF DomainsSpec

============================================================================
