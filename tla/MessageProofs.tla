--------------------------- MODULE MessageProofs ---------------------------
(***************************************************************************)
(* Proofs about what customers are told: the assistant's answers about a   *)
(* change they approved, and the log of the emails the panel sent.  The two*)
(* models are independent; each has its own variables, and a theorem is    *)
(* about the specification it names.                                       *)
(***************************************************************************)
EXTENDS Assistant, EmailQueue, FiniteSetTheorems, TLAPS

----------------------------------------------------------------------------
(***************************************************************************)
(* Assistant, for any number of requests and staff and any limits: a change*)
(* the customer approved is made at most once, and only after the code was *)
(* typed where one is needed; what the customer was told about it stays    *)
(* true, but for a lock or an expiry that the row did not take.            *)
(*                                                                         *)
(* The conditional update of Execute is the only way to the server.  The   *)
(* request that wins it finds the change pending, so nothing has run yet,  *)
(* and leaves it running; from then on nobody else can win it, and only    *)
(* the winner writes the outcome.  A winner that dies leaves the change    *)
(* running for ever, which is why "running" does not say that somebody is  *)
(* at work.  A status that ends a change is never written over, so that    *)
(* what was said of the row when it was written can be said ever after.    *)
(***************************************************************************)

ChatStatus == {"ai", "waiting", "with_staff", "closed"}

ChangeStatus == {"none", "pending", "running", "done", "failed", "cancelled", "locked", "expired"}

\* What a request carries while it is at work.
ReqRow ==
    [pc : {"idle", "hand_back", "close", "transfer", "ticket", "ask", "execute", "running", "lock"}]
        \cup [pc : {"thinking"}, copy : ChatStatus]
        \cup [pc : {"verify"}, attempts : Nat, late : BOOLEAN]
        \cup [pc : {"outcome"}, status : {"done", "failed"}]
        \cup [pc : {"tell"}, status : ChangeStatus, hit : BOOLEAN]

\* The rows are the ones the code has.
RowsOK ==
    /\ chat \in [status : ChatStatus, assigned : Staff \cup {Nobody}, ticket : BOOLEAN]
    /\ change \in [needs : {"none", "approve", "code"}, status : ChangeStatus, old : BOOLEAN]
    /\ code \in [attempts : Nat, stale : BOOLEAN]
    /\ req \in [Requests -> ReqRow]
    /\ ran \in Nat /\ typed \in BOOLEAN

\* Won the conditional update and has not written the outcome.
Runner(q) == req[q].pc \in {"running", "outcome"}

\* One request at most runs the change, and before it asks the server nothing
\* has been done.
OneRunner ==
    /\ \A p, q \in Requests : Runner(p) /\ Runner(q) => p = q
    /\ \A q \in Requests : Runner(q) => change.status = "running"
    /\ \A q \in Requests : req[q].pc = "running" => ran = 0

\* What has run is a change that was started.
RanWasStarted ==
    /\ ran <= 1
    /\ ran = 1 => change.status \in {"running", "done", "failed"}

\* Nobody gets as far as running a change that needs a code before it was
\* typed; what a change needs is settled when it is proposed.
CodeComesFirst ==
    /\ \A q \in Requests : req[q].pc \in {"verify", "execute", "lock"} => change.needs # "none"
    /\ \A q \in Requests : req[q].pc = "execute" /\ change.needs = "code" => typed
    /\ change.status \in {"running", "done", "failed"} /\ change.needs = "code" => typed
    /\ change.needs = "none" => change.status = "none"

RunInv == RowsOK /\ OneRunner /\ RanWasStarted /\ CodeComesFirst

Ended == {"cancelled", "locked", "expired", "done", "failed"}

\* What may be told: what the row says for good, or a lock or an expiry that
\* came too late.
Fine(t, status) ==
    /\ t.hit => t.status \in Ended /\ status = t.status
    /\ ~t.hit => t.status \in {"locked", "expired"}

\* Of what was told and of what is about to be; and "done" means made.
ToldInv ==
    /\ \A t \in told : Fine(t, change.status)
    /\ \A q \in Requests : req[q].pc = "tell" => Fine(req[q], change.status)
    /\ \A q \in Requests : req[q].pc = "outcome" /\ req[q].status = "done" => ran = 1
    /\ change.status = "done" => ran = 1

----------------------------------------------------------------------------
(* Rows.                                                                    *)

\* The rows a request can be given, and what their kinds tell.
LEMMA PlainRows ==
    \A p \in {"idle", "hand_back", "close", "transfer", "ticket", "ask", "execute", "running", "lock"} :
        [pc |-> p] \in ReqRow /\ [pc |-> p].pc = p
BY DEF ReqRow

LEMMA RowKinds ==
    ASSUME NEW r \in ReqRow
    PROVE  /\ r.pc = "thinking" => r \in [pc : {"thinking"}, copy : ChatStatus]
           /\ r.pc = "verify" => r \in [pc : {"verify"}, attempts : Nat, late : BOOLEAN]
           /\ r.pc = "outcome" => r \in [pc : {"outcome"}, status : {"done", "failed"}]
           /\ r.pc = "tell" => r \in [pc : {"tell"}, status : ChangeStatus, hit : BOOLEAN]
BY DEF ReqRow

\* A change whose status is rewritten keeps its other columns.
LEMMA StatusRow ==
    ASSUME NEW c \in [needs : {"none", "approve", "code"}, status : ChangeStatus, old : BOOLEAN],
           NEW s \in ChangeStatus
    PROVE  LET d == [c EXCEPT !.status = s]
           IN  /\ d \in [needs : {"none", "approve", "code"}, status : ChangeStatus, old : BOOLEAN]
               /\ d.status = s /\ d.needs = c.needs
OBVIOUS

----------------------------------------------------------------------------
(* Steps that do not touch the change.                                      *)

\* A step that gives one request a row of another kind, and leaves the change
\* and the server alone, preserves what there is to know about the change.
LEMMA Bystander ==
    ASSUME RunInv, NEW q \in Requests, NEW r \in ReqRow,
           r.pc \notin {"verify", "execute", "lock", "running", "outcome"},
           req' = [req EXCEPT ![q] = r],
           UNCHANGED <<change, code, ran, typed>>,
           chat' \in [status : ChatStatus, assigned : Staff \cup {Nobody}, ticket : BOOLEAN]
    PROVE  RunInv'
<1>1. req' \in [Requests -> ReqRow] /\ \A p \in Requests : req'[p] = IF p = q THEN r ELSE req[p]
    BY DEF RunInv, RowsOK
<1>2. RowsOK'
    BY <1>1 DEF RunInv, RowsOK
<1>3. OneRunner'
    BY <1>1 DEF RunInv, OneRunner, Runner
<1>4. RanWasStarted' /\ CodeComesFirst'
    BY <1>1 DEF RunInv, RanWasStarted, CodeComesFirst
<1> QED BY <1>2, <1>3, <1>4 DEF RunInv

\* The chat's row through every step that writes it.
LEMMA ChatRows ==
    ASSUME RowsOK
    PROVE  /\ OpenTicket => chat' \in [status : ChatStatus, assigned : Staff \cup {Nobody}, ticket : BOOLEAN]
           /\ AskPerson => chat' \in [status : ChatStatus, assigned : Staff \cup {Nobody}, ticket : BOOLEAN]
           /\ \A s \in ChatStatus, a \in Staff \cup {Nobody} :
                /\ [chat EXCEPT !.status = s]
                     \in [status : ChatStatus, assigned : Staff \cup {Nobody}, ticket : BOOLEAN]
                /\ [chat EXCEPT !.assigned = a]
                     \in [status : ChatStatus, assigned : Staff \cup {Nobody}, ticket : BOOLEAN]
                /\ [chat EXCEPT !.status = s, !.assigned = a]
                     \in [status : ChatStatus, assigned : Staff \cup {Nobody}, ticket : BOOLEAN]
<1>1. OpenTicket => chat' \in [status : ChatStatus, assigned : Staff \cup {Nobody}, ticket : BOOLEAN]
    BY DEF RowsOK, OpenTicket, ChatStatus
<1>2. AskPerson => chat' \in [status : ChatStatus, assigned : Staff \cup {Nobody}, ticket : BOOLEAN]
    BY <1>1 DEF RowsOK, AskPerson, ChatStatus
<1> QED BY <1>1, <1>2 DEF RowsOK

\* live.py: people talk, take over and open tickets.
LEMMA LiveStep ==
    ASSUME RunInv, NEW q \in Requests, Live(q)
    PROVE  RunInv'
<1> USE PlainRows
<1> DEFINE chatOK == chat' \in [status : ChatStatus, assigned : Staff \cup {Nobody}, ticket : BOOLEAN]
<1>1. RowsOK BY DEF RunInv
<1>2. chatOK
    <2>1. CASE \E s \in Staff : StaffActs(q, s) BY <1>1, <2>1 DEF StaffActs, chatVars, RowsOK
    <2>2. CASE \E s \in Staff : transfer(q, s) BY <1>1, <2>2 DEF transfer, RowsOK
    <2>3. CASE hand_back(q) BY <1>1, <2>3 DEF hand_back, RowsOK, ChatStatus
    <2>4. CASE close(q) BY <1>1, <2>4, ChatRows DEF close, ChatStatus
    <2>5. CASE WantTicket(q) \/ handoff(q) BY <1>1, <2>5 DEF WantTicket, handoff, chatVars, RowsOK
    <2>6. CASE to_ticket(q) BY <1>1, <2>6, ChatRows DEF to_ticket
    <2>7. CASE ask_person(q) BY <1>1, <2>7, ChatRows DEF ask_person
    <2> QED BY <2>1, <2>2, <2>3, <2>4, <2>5, <2>6, <2>7 DEF Live
<1>3. UNCHANGED <<change, code, ran, typed>>
    BY DEF Live, StaffActs, transfer, hand_back, close, WantTicket, to_ticket, handoff, ask_person, changeVars
<1>4. \E p \in {"idle", "hand_back", "close", "transfer", "ticket", "ask"} :
        req' = [req EXCEPT ![q] = [pc |-> p]]
    BY DEF Live, StaffActs, transfer, hand_back, close, WantTicket, to_ticket, handoff, ask_person,
        Begin, End, IdleRequest
<1>5. PICK p \in {"idle", "hand_back", "close", "transfer", "ticket", "ask"} :
        req' = [req EXCEPT ![q] = [pc |-> p]]
    BY <1>4
<1>6. [pc |-> p] \in ReqRow /\ [pc |-> p].pc \notin {"verify", "execute", "lock", "running", "outcome"}
    BY <1>5
<1> QED BY <1>2, <1>3, <1>5, <1>6, Bystander

\* agent.py: a message, its tools and its answer.
LEMMA TalkStep ==
    ASSUME RunInv, NEW q \in Requests, Talk(q)
    PROVE  RunInv'
<1>1. RowsOK /\ req[q] \in ReqRow BY DEF RunInv, RowsOK
<1>2. CASE send(q)
    <2> DEFINE r == [pc |-> "thinking", copy |-> "ai"]
    <2>1. r \in ReqRow /\ r.pc = "thinking" BY DEF ReqRow, ChatStatus
    <2>2. req' = [req EXCEPT ![q] = r] /\ UNCHANGED <<change, code, ran, typed>> /\ UNCHANGED chat
        BY <1>2 DEF send, Begin, chatVars, changeVars
    <2> HIDE DEF r
    <2> QED BY <1>1, <2>1, <2>2, Bystander DEF RowsOK
<1>3. CASE ToolAsks(q)
    <2> DEFINE r == [req[q] EXCEPT !.copy = chat'.status]
    <2>1. chat' \in [status : ChatStatus, assigned : Staff \cup {Nobody}, ticket : BOOLEAN]
        BY <1>1, <1>3, ChatRows DEF ToolAsks
    <2>2. req[q] \in [pc : {"thinking"}, copy : ChatStatus] BY <1>1, <1>3, RowKinds DEF ToolAsks
    <2>3. r \in [pc : {"thinking"}, copy : ChatStatus] /\ r.pc = "thinking" BY <2>1, <2>2
    <2>4. r \in ReqRow BY <2>3 DEF ReqRow
    <2>5. req' = [req EXCEPT ![q] = r] /\ UNCHANGED <<change, code, ran, typed>>
        BY <1>3 DEF ToolAsks, changeVars
    <2> HIDE DEF r
    <2> QED BY <2>1, <2>3, <2>4, <2>5, Bystander
<1>4. CASE Answer(q)
    <2>1. req[q] \in [pc : {"thinking"}, copy : ChatStatus] BY <1>1, <1>4, RowKinds DEF Answer
    <2>2. chat' \in [status : ChatStatus, assigned : Staff \cup {Nobody}, ticket : BOOLEAN]
        BY <1>1, <1>4, <2>1, ChatRows DEF Answer
    <2>3. req' = [req EXCEPT ![q] = IdleRequest] /\ UNCHANGED <<change, code, ran, typed>>
        BY <1>4 DEF Answer, End, changeVars
    <2>4. IdleRequest \in ReqRow /\ IdleRequest.pc = "idle" BY PlainRows DEF IdleRequest
    <2> QED BY <2>2, <2>3, <2>4, Bystander
<1>5. ASSUME NEW needs \in {"approve", "code"}, propose(q, needs) PROVE RunInv'
    <2>1. change' = [needs |-> needs, status |-> "pending", old |-> FALSE]
        BY <1>5 DEF propose, NoChange
    <2>2. /\ code' = [attempts |-> 0, stale |-> FALSE]
          /\ UNCHANGED <<req, ran, typed, chat>> /\ change.status = "none" /\ change.needs = "none"
        BY <1>5 DEF propose, NoChange, chatVars
    <2>3. change'.needs = needs /\ change'.status = "pending"
          /\ change' \in [needs : {"none", "approve", "code"}, status : ChangeStatus, old : BOOLEAN]
        BY <2>1 DEF ChangeStatus
    <2>4. RowsOK' BY <1>1, <2>2, <2>3 DEF RowsOK
    <2>5. OneRunner' /\ RanWasStarted' /\ CodeComesFirst'
        BY <2>2, <2>3 DEF RunInv, OneRunner, Runner, RanWasStarted, CodeComesFirst, RowsOK
    <2> QED BY <2>4, <2>5 DEF RunInv
<1> QED BY <1>2, <1>3, <1>4, <1>5 DEF Talk

----------------------------------------------------------------------------
(* Steps of the change.                                                     *)

\* Writing one status over a pending change, while one request moves to a row
\* that is neither running nor about to, keeps the invariant: nobody runs a
\* pending change.
LEMMA PendingMoves ==
    ASSUME RunInv, NEW s \in {"expired", "locked", "cancelled"}, IfPending(s)
    PROVE  /\ change' \in [needs : {"none", "approve", "code"}, status : ChangeStatus, old : BOOLEAN]
           /\ change'.needs = change.needs
           /\ Pending => change'.status = s
           /\ ~Pending => change' = change
<1>1. CASE Pending
    BY <1>1, StatusRow DEF RunInv, RowsOK, IfPending, ChangeStatus
<1>2. CASE ~Pending
    BY <1>2 DEF RunInv, RowsOK, IfPending, Pending
<1> QED BY <1>1, <1>2

\* The same, with the request on its way to tell the customer.
LEMMA GiveStep ==
    ASSUME RunInv, NEW q \in Requests, NEW s \in {"expired", "locked", "cancelled"}, Give(q, s),
           UNCHANGED <<chat, code, ran, typed>>
    PROVE  RunInv'
<1> DEFINE r == [pc |-> "tell", status |-> s, hit |-> (change'.status = s)]
<1>1. r \in [pc : {"tell"}, status : ChangeStatus, hit : BOOLEAN] /\ r.pc = "tell" BY DEF ChangeStatus
<1>2. r \in ReqRow BY <1>1 DEF ReqRow
<1>3. req' = [req EXCEPT ![q] = r] BY DEF Give, WillTell
<1> HIDE DEF r
<1>4. /\ req' \in [Requests -> ReqRow] /\ \A p \in Requests : p # q => req'[p] = req[p]
      /\ req'[q].pc = "tell"
    BY <1>1, <1>2, <1>3 DEF RunInv, RowsOK
<1>5. /\ change' \in [needs : {"none", "approve", "code"}, status : ChangeStatus, old : BOOLEAN]
      /\ change'.needs = change.needs
      /\ change'.status = change.status \/ (Pending /\ change'.status = s)
    BY PendingMoves DEF RunInv, RowsOK, Give
<1>6. RowsOK' BY <1>4, <1>5 DEF RunInv, RowsOK
<1>7. OneRunner' BY <1>4, <1>5 DEF RunInv, OneRunner, Runner, Pending
<1>8. RanWasStarted' /\ CodeComesFirst'
    BY <1>4, <1>5 DEF RunInv, RanWasStarted, CodeComesFirst, Pending
<1> QED BY <1>6, <1>7, <1>8 DEF RunInv

\* approve: the change expires, or the request goes on to execute it.
LEMMA ApproveStep ==
    ASSUME RunInv, NEW q \in Requests, approve(q)
    PROVE  RunInv'
<1>1. CASE change.old
    BY <1>1, GiveStep DEF approve, chatVars
<1>2. CASE ~change.old
    <2>1. /\ req' = [req EXCEPT ![q] = [pc |-> "execute"]] /\ change.needs = "approve"
          /\ UNCHANGED <<chat, change, code, ran, typed>>
        BY <1>2 DEF approve, Begin, chatVars
    <2>2. /\ req' \in [Requests -> ReqRow] /\ [pc |-> "execute"].pc = "execute"
          /\ \A p \in Requests : req'[p] = IF p = q THEN [pc |-> "execute"] ELSE req[p]
        BY <2>1, PlainRows DEF RunInv, RowsOK
    <2>3. RowsOK' BY <2>1, <2>2 DEF RunInv, RowsOK
    <2>4. OneRunner' BY <2>1, <2>2 DEF RunInv, OneRunner, Runner
    <2>5. RanWasStarted' /\ CodeComesFirst'
        BY <2>1, <2>2 DEF RunInv, RanWasStarted, CodeComesFirst
    <2> QED BY <2>3, <2>4, <2>5 DEF RunInv
<1> QED BY <1>1, <1>2

\* verify: the row the code is checked against.
LEMMA VerifyStep ==
    ASSUME RunInv, NEW q \in Requests, verify(q)
    PROVE  RunInv'
<1> DEFINE r == [pc |-> "verify", attempts |-> code.attempts, late |-> (code.stale \/ change.old)]
<1>1. code.attempts \in Nat /\ (code.stale \/ change.old) \in BOOLEAN
    BY DEF RunInv, RowsOK
<1>2. r \in [pc : {"verify"}, attempts : Nat, late : BOOLEAN] /\ r.pc = "verify" BY <1>1
<1>3. r \in ReqRow BY <1>2 DEF ReqRow
<1>4. /\ req' = [req EXCEPT ![q] = r] /\ change.needs = "code"
      /\ UNCHANGED <<chat, change, code, ran, typed>>
    BY DEF verify, Begin, chatVars, changeVars
<1> HIDE DEF r
<1>5. req' \in [Requests -> ReqRow] /\ \A p \in Requests : req'[p] = IF p = q THEN r ELSE req[p]
    BY <1>3, <1>4 DEF RunInv, RowsOK
<1>6. RowsOK' BY <1>4, <1>5 DEF RunInv, RowsOK
<1>7. OneRunner' BY <1>2, <1>4, <1>5 DEF RunInv, OneRunner, Runner
<1>8. RanWasStarted' /\ CodeComesFirst'
    BY <1>2, <1>4, <1>5 DEF RunInv, RanWasStarted, CodeComesFirst
<1> QED BY <1>6, <1>7, <1>8 DEF RunInv

\* Checking a code: it is too late, one attempt too many, wrong or right.
LEMMA CheckCodeStep ==
    ASSUME RunInv, NEW q \in Requests, CheckCode(q)
    PROVE  RunInv'
<1> DEFINE late == Give(q, "expired") /\ UNCHANGED <<code, typed>>
           refused == End(q) /\ UNCHANGED <<change, code, typed>>
           wrong == /\ code' = [code EXCEPT !.attempts = req[q].attempts + 1]
                    /\ \E p \in {"idle", "lock"} : req' = [req EXCEPT ![q] = [pc |-> p]]
                    /\ UNCHANGED <<change, typed>>
           right == /\ req' = [req EXCEPT ![q] = [pc |-> "execute"]]
                    /\ typed' = TRUE /\ UNCHANGED <<change, code>>
<1>1. (late \/ refused \/ wrong \/ right) /\ UNCHANGED <<chat, ran>> /\ req[q].pc = "verify"
    BY DEF CheckCode, chatVars
<1>2. change.needs # "none" /\ req[q] \in [pc : {"verify"}, attempts : Nat, late : BOOLEAN]
    BY <1>1, RowKinds DEF RunInv, RowsOK, CodeComesFirst
<1>3. code \in [attempts : Nat, stale : BOOLEAN] BY DEF RunInv, RowsOK
<1>4. CASE late BY <1>1, <1>4, GiveStep
<1>5. ASSUME NEW p \in {"idle", "lock", "execute"}, req' = [req EXCEPT ![q] = [pc |-> p]],
             UNCHANGED change, code' \in [attempts : Nat, stale : BOOLEAN],
             (p # "execute" /\ UNCHANGED typed) \/ typed' = TRUE
      PROVE  RunInv'
    <2>1. /\ req' \in [Requests -> ReqRow]
          /\ \A o \in Requests : o # q => req'[o] = req[o]
          /\ req'[q].pc = p
        BY <1>5, PlainRows DEF RunInv, RowsOK
    <2>2. RowsOK' BY <1>1, <1>5, <2>1 DEF RunInv, RowsOK
    <2>3. OneRunner' BY <1>1, <1>5, <2>1 DEF RunInv, OneRunner, Runner
    <2>4. RanWasStarted' /\ CodeComesFirst'
        BY <1>1, <1>2, <1>5, <2>1 DEF RunInv, RanWasStarted, CodeComesFirst
    <2> QED BY <2>2, <2>3, <2>4 DEF RunInv
<1>6. CASE refused BY <1>3, <1>5, <1>6 DEF End, IdleRequest
<1>7. CASE wrong
    <2>1. code' \in [attempts : Nat, stale : BOOLEAN] BY <1>2, <1>3, <1>7
    <2> QED BY <1>5, <1>7, <2>1
<1>8. CASE right BY <1>3, <1>5, <1>8
<1> QED BY <1>1, <1>4, <1>6, <1>7, <1>8

\* The last wrong code locks the change; the customer cancels it.
LEMMA LockStep ==
    ASSUME RunInv, NEW q \in Requests, Lock(q) \/ cancel(q)
    PROVE  RunInv'
BY GiveStep DEF Lock, cancel, chatVars

\* _execute: the winner finds a pending change, so nothing has run and nobody
\* is running it.
LEMMA ExecuteStep ==
    ASSUME RunInv, NEW q \in Requests, Execute(q)
    PROVE  RunInv'
<1>1. req[q].pc = "execute" /\ UNCHANGED <<chat, code, ran, typed>> /\ IfPending("running")
    BY DEF Execute, chatVars
<1>2. CASE ~Pending
    <2>1. req' = [req EXCEPT ![q] = IdleRequest] /\ UNCHANGED <<change, code, ran, typed>>
        BY <1>1, <1>2 DEF Execute, End, IfPending
    <2>2. IdleRequest \in ReqRow /\ IdleRequest.pc = "idle" BY PlainRows DEF IdleRequest
    <2> QED BY <1>1, <2>1, <2>2, Bystander DEF RunInv, RowsOK
<1>3. CASE Pending
    <2>1. /\ change' \in [needs : {"none", "approve", "code"}, status : ChangeStatus, old : BOOLEAN]
          /\ change'.needs = change.needs /\ change'.status = "running"
        BY <1>1, <1>3, StatusRow DEF RunInv, RowsOK, IfPending, ChangeStatus
    <2>2. /\ req' \in [Requests -> ReqRow]
          /\ \A p \in Requests : p # q => req'[p] = req[p]
          /\ req'[q].pc = "running"
        BY <1>3, PlainRows DEF RunInv, RowsOK, Execute
    <2>3. RowsOK' BY <1>1, <2>1, <2>2 DEF RunInv, RowsOK
    <2>4. ran = 0 /\ \A p \in Requests : ~Runner(p)
        BY <1>3 DEF RunInv, RowsOK, RanWasStarted, OneRunner, Pending
    <2>5. OneRunner' BY <1>1, <2>1, <2>2, <2>4 DEF OneRunner, Runner
    <2>6. RanWasStarted' BY <1>1, <2>1, <2>4 DEF RanWasStarted
    <2>7. CodeComesFirst' BY <1>1, <2>1, <2>2 DEF RunInv, CodeComesFirst
    <2> QED BY <2>3, <2>5, <2>6, <2>7 DEF RunInv
<1> QED BY <1>2, <1>3

\* control.perform: the one runner asks the server once.
LEMMA PerformStep ==
    ASSUME RunInv, NEW q \in Requests, Perform(q)
    PROVE  RunInv'
<1>1. PICK made \in 0..1, outcome \in {"done", "failed"} :
        ran' = ran + made /\ req' = [req EXCEPT ![q] = [pc |-> "outcome", status |-> outcome]]
    BY DEF Perform
<1>2. req[q].pc = "running" /\ UNCHANGED <<chat, change, code, typed>>
    BY DEF Perform, chatVars
<1> DEFINE r == [pc |-> "outcome", status |-> outcome]
<1>3. r \in ReqRow /\ r.pc = "outcome" BY DEF ReqRow
<1>4. req' = [req EXCEPT ![q] = r] BY <1>1
<1> HIDE DEF r
<1>5. /\ req' \in [Requests -> ReqRow] /\ \A p \in Requests : p # q => req'[p] = req[p]
      /\ req'[q].pc = "outcome"
    BY <1>3, <1>4 DEF RunInv, RowsOK
<1>6. ran = 0 /\ change.status = "running" BY <1>2 DEF RunInv, OneRunner, Runner
<1>7. RowsOK' BY <1>1, <1>2, <1>5 DEF RunInv, RowsOK
<1>8. OneRunner' BY <1>1, <1>2, <1>5 DEF RunInv, OneRunner, Runner
<1>9. RanWasStarted' BY <1>1, <1>2, <1>6 DEF RanWasStarted
<1>10. CodeComesFirst' BY <1>2, <1>5 DEF RunInv, CodeComesFirst
<1> QED BY <1>7, <1>8, <1>9, <1>10 DEF RunInv

\* The outcome is the runner's, and it is the last one.
LEMMA SaveOutcomeStep ==
    ASSUME RunInv, NEW q \in Requests, SaveOutcome(q)
    PROVE  RunInv'
<1>1. req[q].pc = "outcome" /\ UNCHANGED <<chat, code, ran, typed>> /\ WillTell(q, req[q].status, TRUE)
    BY DEF SaveOutcome, chatVars
<1>2. req[q].status \in {"done", "failed"} /\ change.status = "running"
    BY <1>1, RowKinds DEF RunInv, RowsOK, OneRunner, Runner
<1>3. /\ change' \in [needs : {"none", "approve", "code"}, status : ChangeStatus, old : BOOLEAN]
      /\ change'.needs = change.needs /\ change'.status \in {"done", "failed"}
    BY <1>2, StatusRow DEF RunInv, RowsOK, SaveOutcome, ChangeStatus
<1> DEFINE r == [pc |-> "tell", status |-> req[q].status, hit |-> TRUE]
<1>r. r \in [pc : {"tell"}, status : ChangeStatus, hit : BOOLEAN] /\ r.pc = "tell" /\ req' = [req EXCEPT ![q] = r]
    BY <1>1, <1>2 DEF ChangeStatus, WillTell
<1> HIDE DEF r
<1>4. /\ req' \in [Requests -> ReqRow]
      /\ \A p \in Requests : p # q => req'[p] = req[p]
      /\ req'[q].pc = "tell"
    BY <1>r DEF RunInv, RowsOK, ReqRow
<1>5. RowsOK' BY <1>1, <1>3, <1>4 DEF RunInv, RowsOK
<1>6. OneRunner' BY <1>1, <1>4 DEF RunInv, OneRunner, Runner
<1>7. RanWasStarted' BY <1>1, <1>3 DEF RunInv, RanWasStarted
<1>8. CodeComesFirst' BY <1>1, <1>2, <1>3, <1>4 DEF RunInv, CodeComesFirst
<1> QED BY <1>5, <1>6, <1>7, <1>8 DEF RunInv

\* A worker that tells the customer, or is stopped, leaves the rows as they are.
LEMMA DieStep ==
    ASSUME RunInv, NEW q \in Requests, Die(q) \/ Tell(q)
    PROVE  RunInv'
<1>1. req' = [req EXCEPT ![q] = IdleRequest] /\ UNCHANGED <<change, code, ran, typed>> /\ UNCHANGED chat
    BY DEF Die, Tell, End, chatVars, changeVars
<1>2. IdleRequest \in ReqRow /\ IdleRequest.pc = "idle" BY PlainRows DEF IdleRequest
<1> QED BY <1>1, <1>2, Bystander DEF RunInv, RowsOK

\* A member of staff takes the chat, the customer starts another, time passes,
\* a code is sent again.
LEMMA OtherSteps ==
    ASSUME RunInv, (\E s \in Staff : take(s)) \/ new_chat \/ GrowOld \/ resend_code
    PROVE  RunInv'
<1>1. UNCHANGED <<req, ran, typed>>
    BY DEF take, new_chat, GrowOld, resend_code, changeVars
<1>2. chat' \in [status : ChatStatus, assigned : Staff \cup {Nobody}, ticket : BOOLEAN]
    <2>1. CASE \E s \in Staff : take(s) BY <2>1 DEF RunInv, RowsOK, take, ChatStatus
    <2>2. CASE new_chat BY <2>2, ChatRows DEF RunInv, new_chat, ChatStatus
    <2>3. CASE UNCHANGED chat BY <2>3 DEF RunInv, RowsOK
    <2> QED BY <2>1, <2>2, <2>3 DEF GrowOld, resend_code, chatVars
<1>3. code' \in [attempts : Nat, stale : BOOLEAN]
    <2>1. CASE UNCHANGED code BY <2>1 DEF RunInv, RowsOK
    <2>2. CASE code' = [attempts |-> 0, stale |-> FALSE] BY <2>2
    <2>3. CASE code' = [code EXCEPT !.stale = TRUE] BY <2>3 DEF RunInv, RowsOK
    <2> QED BY <2>1, <2>2, <2>3 DEF take, new_chat, GrowOld, resend_code, changeVars
<1>4. /\ change' \in [needs : {"none", "approve", "code"}, status : ChangeStatus, old : BOOLEAN]
      /\ change'.needs = change.needs /\ change'.status = change.status
    <2>1. CASE UNCHANGED change BY <2>1 DEF RunInv, RowsOK
    <2>2. CASE change' = [change EXCEPT !.old = TRUE] BY <2>2 DEF RunInv, RowsOK
    <2> QED BY <2>1, <2>2 DEF take, new_chat, GrowOld, resend_code, changeVars
<1>5. RowsOK' BY <1>1, <1>2, <1>3, <1>4 DEF RunInv, RowsOK
<1>6. OneRunner' BY <1>1, <1>4 DEF RunInv, OneRunner, Runner
<1>7. RanWasStarted' /\ CodeComesFirst'
    BY <1>1, <1>4 DEF RunInv, RanWasStarted, CodeComesFirst
<1> QED BY <1>5, <1>6, <1>7 DEF RunInv

----------------------------------------------------------------------------
(* The theorems.                                                            *)

LEMMA RunStart == Init => RunInv
<1> SUFFICES ASSUME Init PROVE RunInv OBVIOUS
<1>1. RowsOK
    BY PlainRows DEF Init, RowsOK, IdleRequest, NoChange, ChatStatus, ChangeStatus
<1>2. OneRunner /\ RanWasStarted /\ CodeComesFirst
    BY DEF Init, OneRunner, Runner, RanWasStarted, CodeComesFirst, IdleRequest, NoChange
<1> QED BY <1>1, <1>2 DEF RunInv

LEMMA RunStep == RunInv /\ [Next]_vars => RunInv'
<1> SUFFICES ASSUME RunInv, [Next]_vars PROVE RunInv' OBVIOUS
<1>1. ASSUME NEW q \in Requests, Change(q) PROVE RunInv'
    BY <1>1, ApproveStep, VerifyStep, CheckCodeStep, LockStep, ExecuteStep, PerformStep, SaveOutcomeStep, DieStep
        DEF Change
<1>2. CASE UNCHANGED vars
    BY <1>2 DEF vars, chatVars, changeVars, RunInv, RowsOK, OneRunner, Runner, RanWasStarted, CodeComesFirst
<1> QED BY <1>1, <1>2, LiveStep, TalkStep, DieStep, OtherSteps DEF Next

\* The inductive invariant holds of every behaviour.
THEOREM RunInvariant == Spec => []RunInv
BY RunStart, RunStep, PTL DEF Spec

\* Whatever requests there are and wherever they die, an approved change is
\* made at most once, and one that needs a code only after it was typed.
THEOREM MadeOnce == Spec => []RunsOnce
<1>1. RunInv => RunsOnce
    BY DEF RunInv, RanWasStarted, CodeComesFirst, RunsOnce
<1> QED BY <1>1, RunInvariant, PTL

\* No step changes an ended change or has the server make it.
LEMMA EndedStays ==
    ASSUME RunInv, [Next]_vars, change.status \in Ended
    PROVE  change'.status = change.status /\ ran' = ran
<1>1. change # NoChange /\ ~Pending /\ \A q \in Requests : req[q].pc \notin {"running", "outcome"}
    BY DEF RunInv, OneRunner, Runner, Pending, NoChange, Ended
<1>2. ASSUME NEW q \in Requests, Live(q) \/ Die(q) PROVE UNCHANGED <<change, ran>>
    BY <1>2 DEF Live, StaffActs, transfer, hand_back, close, WantTicket, to_ticket, handoff, ask_person,
        Die, changeVars
<1>3. ASSUME NEW q \in Requests, Talk(q) PROVE UNCHANGED <<change, ran>>
    BY <1>1, <1>3 DEF Talk, send, ToolAsks, propose, Answer, changeVars
<1>4. ASSUME NEW q \in Requests, Change(q) PROVE UNCHANGED <<change, ran>>
    <2>1. CASE approve(q) \/ verify(q)
        BY <1>1, <2>1 DEF approve, verify, Give, IfPending, changeVars
    <2>2. CASE CheckCode(q) BY <1>1, <2>2 DEF CheckCode, Give, IfPending
    <2>3. CASE Lock(q) \/ cancel(q) BY <1>1, <2>3 DEF Lock, cancel, Give, IfPending
    <2>4. CASE Execute(q) BY <1>1, <2>4 DEF Execute, IfPending
    <2>5. CASE Perform(q) \/ SaveOutcome(q) BY <1>1, <2>5 DEF Perform, SaveOutcome
    <2>6. CASE Tell(q) BY <2>6 DEF Tell
    <2> QED BY <1>4, <2>1, <2>2, <2>3, <2>4, <2>5, <2>6 DEF Change
<1>5. CASE (\E s \in Staff : take(s)) \/ new_chat \/ resend_code
    BY <1>5 DEF take, new_chat, resend_code, changeVars
<1>6. CASE GrowOld
    BY <1>6 DEF GrowOld, RunInv, RowsOK
<1>7. CASE UNCHANGED vars BY <1>7 DEF vars, changeVars
<1> QED BY <1>2, <1>3, <1>4, <1>5, <1>6, <1>7 DEF Next

\* So what was true of an ended change when it was said stays true.
LEMMA SaidStays ==
    ASSUME RunInv, [Next]_vars
    PROVE  \A t : Fine(t, change.status) => Fine(t, change'.status)
<1> SUFFICES ASSUME NEW t, Fine(t, change.status) PROVE Fine(t, change'.status) OBVIOUS
<1>1. CASE t.hit
    <2>1. change.status \in Ended BY <1>1 DEF Fine
    <2> QED BY <1>1, <2>1, EndedStays DEF Fine
<1>2. CASE ~t.hit BY <1>2 DEF Fine
<1> QED BY <1>1, <1>2

\* A request that decides to tell something tells the row's status, or a lock
\* or an expiry that the row did not take.
LEMMA GiveIsFine ==
    ASSUME NEW q \in Requests, NEW s \in {"expired", "locked", "cancelled"}, RunInv, Give(q, s),
           s = "cancelled" => Pending
    PROVE  /\ Fine(req'[q], change'.status) /\ req'[q].pc = "tell"
           /\ change'.status = change.status \/ change'.status = s
           /\ \A p \in Requests : p # q => req'[p] = req[p]
<1> DEFINE r == [pc |-> "tell", status |-> s, hit |-> (change'.status = s)]
<1>1. req'[q] = r /\ \A p \in Requests : p # q => req'[p] = req[p] BY DEF Give, WillTell, RunInv, RowsOK
<1>2. r.status = s /\ (r.hit <=> change'.status = s) /\ r.pc = "tell" OBVIOUS
<1>3. (Pending => change'.status = s) /\ (~Pending => change' = change) BY PendingMoves DEF Give
<1> HIDE DEF r
<1>4. Fine(r, change'.status)
    <2>1. CASE change'.status = s BY <1>2, <2>1 DEF Fine, Ended
    <2>2. CASE change'.status # s BY <1>2, <1>3, <2>2 DEF Fine
    <2> QED BY <2>1, <2>2
<1> QED BY <1>1, <1>2, <1>3, <1>4

\* One request moves.
LEMMA ToldMove ==
    ASSUME RunInv, ToldInv, [Next]_vars, NEW q \in Requests,
           \A p \in Requests : p # q => req'[p] = req[p],
           req'[q].pc = "tell" => Fine(req'[q], change'.status),
           req'[q].pc = "outcome" /\ req'[q].status = "done" => ran' = 1,
           \A t \in told' : t \in told \/ Fine(t, change'.status),
           ran = 1 => ran' = 1,
           change'.status = "done" => ran' = 1
    PROVE  ToldInv'
<1>1. \A t \in told' : Fine(t, change'.status)
    BY SaidStays DEF ToldInv
<1>2. \A p \in Requests : req'[p].pc = "tell" => Fine(req'[p], change'.status)
    BY SaidStays DEF ToldInv
<1>3. \A p \in Requests : req'[p].pc = "outcome" /\ req'[p].status = "done" => ran' = 1
    BY DEF ToldInv
<1> QED BY <1>1, <1>2, <1>3 DEF ToldInv

\* The other steps of a request say nothing of the change.
LEMMA QuietStep ==
    ASSUME RunInv, ToldInv, [Next]_vars, NEW q \in Requests,
           Live(q) \/ Talk(q) \/ Die(q) \/ verify(q)
    PROVE  ToldInv'
<1>1. UNCHANGED <<ran, told>>
    BY DEF Live, StaffActs, transfer, hand_back, close, WantTicket, to_ticket, handoff, ask_person,
        Talk, send, ToolAsks, propose, Answer, Die, verify, changeVars
<1>2. change'.status = change.status \/ change'.status = "pending"
    BY DEF Live, StaffActs, transfer, hand_back, close, WantTicket, to_ticket, handoff, ask_person,
        Talk, send, ToolAsks, propose, Answer, Die, verify, changeVars, NoChange
<1>3. (\A p \in Requests : p # q => req'[p] = req[p]) /\ req'[q].pc \notin {"tell", "outcome"}
    <2>0. req \in [Requests -> ReqRow] BY DEF RunInv, RowsOK
    <2>1. CASE Live(q) \/ Die(q)
        BY <2>0, <2>1 DEF Live, StaffActs, transfer, hand_back, close, WantTicket, to_ticket, handoff, ask_person,
            Die, Begin, End, IdleRequest
    <2>2. CASE send(q) \/ Answer(q) \/ verify(q)
        BY <2>0, <2>2 DEF send, Answer, verify, Begin, End, IdleRequest
    <2>3. CASE ToolAsks(q)
        <3>1. req[q] \in [pc : {"thinking"}, copy : ChatStatus] BY <2>0, <2>3, RowKinds DEF ToolAsks
        <3> QED BY <2>0, <2>3, <3>1 DEF ToolAsks
    <2>4. CASE \E needs \in {"approve", "code"} : propose(q, needs)
        BY <2>4 DEF propose
    <2> QED BY <2>1, <2>2, <2>3, <2>4 DEF Talk
<1> QED BY <1>1, <1>2, <1>3, ToldMove DEF ToldInv

\* What was told, and what is about to be, is fine after every step.
LEMMA ToldStep == RunInv /\ ToldInv /\ [Next]_vars => ToldInv'
<1> SUFFICES ASSUME RunInv, ToldInv, [Next]_vars PROVE ToldInv' OBVIOUS
<1>0. req \in [Requests -> ReqRow] /\ ran \in Nat BY DEF RunInv, RowsOK
<1>1. ASSUME NEW q \in Requests, NEW s \in {"expired", "locked", "cancelled"}, Give(q, s),
             s = "cancelled" => Pending, UNCHANGED <<ran, told>>
      PROVE  ToldInv'
    BY <1>1, GiveIsFine, ToldMove DEF ToldInv
<1>2. ASSUME NEW q \in Requests, NEW p \in {"idle", "lock", "execute", "running"},
             req' = [req EXCEPT ![q] = [pc |-> p]], UNCHANGED <<ran, told>>,
             change'.status = change.status \/ change'.status = "running"
      PROVE  ToldInv'
    <2>1. (\A o \in Requests : o # q => req'[o] = req[o]) /\ req'[q].pc = p
        BY <1>0, <1>2
    <2> QED BY <1>2, <2>1, ToldMove DEF ToldInv
<1>3. ASSUME NEW q \in Requests, Change(q) PROVE ToldInv'
    <2>1. CASE approve(q)
        <3>1. CASE change.old BY <1>1, <2>1, <3>1 DEF approve
        <3>2. CASE ~change.old BY <1>2, <2>1, <3>2 DEF approve, Begin
        <3> QED BY <3>1, <3>2
    <2>2. CASE CheckCode(q)
        <3>1. UNCHANGED <<ran, told>> BY <2>2 DEF CheckCode
        <3>2. \/ Give(q, "expired")
              \/ UNCHANGED change /\ \E p \in {"idle", "lock", "execute"} : req' = [req EXCEPT ![q] = [pc |-> p]]
            BY <2>2 DEF CheckCode, End, IdleRequest
        <3> QED BY <1>1, <1>2, <3>1, <3>2
    <2>3. CASE Lock(q) \/ cancel(q) BY <1>1, <2>3 DEF Lock, cancel
    <2>4. CASE Execute(q)
        <3>1. UNCHANGED <<ran, told>> BY <2>4 DEF Execute
        <3>2. CASE Pending
            <4>1. change'.status = "running" BY <2>4, <3>2 DEF Execute, IfPending, RunInv, RowsOK
            <4>2. req' = [req EXCEPT ![q] = [pc |-> "running"]] BY <2>4, <3>2 DEF Execute
            <4> QED BY <1>2, <3>1, <4>1, <4>2
        <3>3. CASE ~Pending
            <4>1. UNCHANGED change /\ req' = [req EXCEPT ![q] = [pc |-> "idle"]]
                BY <2>4, <3>3 DEF Execute, IfPending, End, IdleRequest
            <4> QED BY <1>2, <3>1, <4>1
        <3> QED BY <3>2, <3>3
    <2>5. CASE Perform(q)
        <3>1. PICK made \in 0..1, outcome \in {"done", "failed"} :
                /\ outcome = "done" => made = 1
                /\ ran' = ran + made /\ req' = [req EXCEPT ![q] = [pc |-> "outcome", status |-> outcome]]
            BY <2>5 DEF Perform
        <3>2. ran = 0 /\ change.status = "running" /\ UNCHANGED <<change, told>>
            BY <2>5 DEF Perform, RunInv, OneRunner, Runner
        <3>3. /\ \A p \in Requests : p # q => req'[p] = req[p]
              /\ req'[q].pc = "outcome" /\ req'[q].status = outcome
            BY <1>0, <3>1
        <3>4. outcome = "done" => ran' = 1 BY <3>1, <3>2
        <3> QED BY <3>2, <3>3, <3>4, ToldMove DEF ToldInv
    <2>6. CASE SaveOutcome(q)
        <3> DEFINE s == req[q].status
                   r == [pc |-> "tell", status |-> s, hit |-> TRUE]
        <3>1. req[q] \in [pc : {"outcome"}, status : {"done", "failed"}]
            BY <1>0, <2>6, RowKinds DEF SaveOutcome
        <3>2. s \in {"done", "failed"} /\ (s = "done" => ran = 1) /\ UNCHANGED <<ran, told>>
            BY <2>6, <3>1 DEF SaveOutcome, ToldInv
        <3>3. change'.status = s BY <2>6 DEF SaveOutcome, RunInv, RowsOK
        <3>4. (\A p \in Requests : p # q => req'[p] = req[p]) /\ req'[q] = r
            BY <1>0, <2>6 DEF SaveOutcome, WillTell
        <3>5. r.pc = "tell" /\ r.status = s /\ r.hit OBVIOUS
        <3> HIDE DEF s, r
        <3>6. Fine(r, change'.status) BY <3>2, <3>3, <3>5 DEF Fine, Ended
        <3> QED BY <3>2, <3>3, <3>4, <3>5, <3>6, ToldMove
    <2>7. CASE Tell(q)
        <3> DEFINE t == [status |-> req[q].status, hit |-> req[q].hit]
        <3>1. UNCHANGED <<change, ran>> /\ told' = told \cup {t} BY <2>7 DEF Tell
        <3>2. Fine(req[q], change.status) BY <2>7 DEF Tell, ToldInv
        <3>3. t.status = req[q].status /\ (t.hit <=> req[q].hit) BY <2>7
        <3> HIDE DEF t
        <3>4. Fine(t, change'.status) BY <3>1, <3>2, <3>3 DEF Fine
        <3>5. (\A p \in Requests : p # q => req'[p] = req[p]) /\ req'[q].pc = "idle"
            BY <1>0, <2>7 DEF Tell, End, IdleRequest
        <3> QED BY <3>1, <3>4, <3>5, ToldMove DEF ToldInv
    <2>8. CASE verify(q) BY <2>8, QuietStep
    <2> QED BY <1>3, <2>1, <2>2, <2>3, <2>4, <2>5, <2>6, <2>7, <2>8 DEF Change
<1>4. CASE (\E s \in Staff : take(s)) \/ new_chat \/ GrowOld \/ resend_code
    <2>1. UNCHANGED <<req, ran, told>> BY <1>4 DEF take, new_chat, GrowOld, resend_code, changeVars
    <2>2. change'.status = change.status
        BY <1>4 DEF take, new_chat, GrowOld, resend_code, changeVars, RunInv, RowsOK
    <2> QED BY <2>1, <2>2 DEF ToldInv
<1>5. CASE UNCHANGED vars BY <1>5 DEF vars, changeVars, ToldInv
<1> QED BY <1>3, <1>4, <1>5, QuietStep DEF Next

\* What a customer was told of a change stays true, but for the locks and
\* expiries that the row did not take.
THEOREM ToldStaysTrue == Spec => []ToldIsTrue
<1>1. Init => ToldInv
    BY DEF Init, ToldInv, NoChange, IdleRequest
<1>2. RunInv /\ ToldInv => ToldIsTrue
    <2> SUFFICES ASSUME RunInv, ToldInv, NEW t \in told
                 PROVE  IF t.hit THEN /\ change.status = t.status
                                      /\ t.status \in {"cancelled", "locked", "expired"} => ran = 0
                                      /\ t.status = "done" => ran = 1
                        ELSE t.status \in {"locked", "expired"}
        BY DEF ToldIsTrue
    <2>1. change.status \in {"cancelled", "locked", "expired"} => ran = 0
        BY DEF RunInv, RowsOK, RanWasStarted
    <2>2. Fine(t, change.status) /\ (change.status = "done" => ran = 1) BY DEF ToldInv
    <2>3. CASE t.hit BY <2>1, <2>2, <2>3 DEF Fine
    <2>4. CASE ~t.hit BY <2>2, <2>4 DEF Fine
    <2> QED BY <2>3, <2>4
<1> QED BY <1>1, <1>2, ToldStep, RunInvariant, PTL DEF Spec

----------------------------------------------------------------------------
(***************************************************************************)
(* EmailQueue, for any number of emails, workers, attempts and retries: what*)
(* the log says of an email is true.                                       *)
(*                                                                         *)
(* The sweep, a resend or a second task may give the same email to several *)
(* workers, and each writes its outcome over whatever the row says by      *)
(* then.  The log stays true because the attempt is counted before the     *)
(* mail leaves, so that the mails sent and the workers about to send never *)
(* exceed the attempts; and because a worker writes "sent" only after the  *)
(* mail server has accepted a mail.                                        *)
(***************************************************************************)

EmailRow ==
    [status : {"none", "queued", "sent", "failed", "deleted"}, attempts : Nat,
     sensitive : BOOLEAN, secret : BOOLEAN, quiet : BOOLEAN, old : BOOLEAN]

TaskRow ==
    [pc : {"idle"}]
        \cup [pc : {"send", "accepted", "failed"}, e : Emails, retries : 0..MaxRetries, blank : BOOLEAN]

\* The rows are the ones the code has.
QueueRows ==
    /\ row \in [Emails -> EmailRow]
    /\ worker \in [Workers -> TaskRow]
    /\ mails \in [Emails -> Nat]

\* Workers that hold a copy of the email, and those of them that have not
\* talked to the mail server yet.
HasCopy(w, e) == worker[w].pc # "idle" /\ worker[w].e = e

Sending(e) == {w \in Workers : worker[w].pc = "send" /\ worker[w].e = e}

\* The attempt is counted before the mail leaves: of the attempts counted, one
\* is kept for each worker that is about to send.
AttemptsFirst ==
    \A e \in Emails : /\ IsFiniteSet(Sending(e))
                      /\ Exists(e) => mails[e] + Cardinality(Sending(e)) <= row[e].attempts

\* Before the email is recorded nothing was sent of it and nobody has it; a
\* row that is not there keeps no secret.
NothingBefore ==
    \A e \in Emails : /\ row[e].status = "none" => mails[e] = 0 /\ \A w \in Workers : ~HasCopy(w, e)
                      /\ row[e].secret => Exists(e)

\* Whoever has a copy counted an attempt, and "accepted" is the mail server's word.
CopiesAreTrue ==
    \A w \in Workers, e \in Emails :
        HasCopy(w, e) => /\ Exists(e) => row[e].attempts > 0
                         /\ worker[w].pc = "accepted" => mails[e] > 0

LogInv == QueueRows /\ AttemptsFirst /\ NothingBefore /\ CopiesAreTrue /\ LogIsTrue

----------------------------------------------------------------------------
LEMMA NoRowIsRow == NoRow \in EmailRow /\ NoRow.status = "none"
BY DEF NoRow, EmailRow

LEMMA LogStart == QueueInit => LogInv
<1> SUFFICES ASSUME QueueInit PROVE LogInv
  OBVIOUS
<1>1. \A e \in Emails : row[e] = NoRow /\ mails[e] = 0 /\ ~Exists(e)
  BY NoRowIsRow DEF QueueInit, Exists
<1>2. \A w \in Workers : worker[w] = IdleWorker
  BY DEF QueueInit
<1>3. QueueRows
  BY NoRowIsRow DEF QueueInit, QueueRows, TaskRow, IdleWorker
<1>4. \A e \in Emails : Sending(e) = {} /\ \A w \in Workers : ~HasCopy(w, e)
  BY <1>2 DEF Sending, HasCopy, IdleWorker
<1>5. QED
  BY <1>1, <1>3, <1>4, FS_EmptySet DEF NoRow, LogInv, AttemptsFirst, NothingBefore, CopiesAreTrue, LogIsTrue

\* Steps of the queue alone.
LEMMA LogStays ==
    ASSUME LogInv, UNCHANGED <<row, worker, mails>> PROVE LogInv'
<1>1. QueueRows'
  BY DEF LogInv, QueueRows
<1>2. \A e \in Emails : (Exists(e)' <=> Exists(e)) /\ Sending(e)' = Sending(e) /\ \A w \in Workers : HasCopy(w, e)' <=> HasCopy(w, e)
  BY DEF Exists, Sending, HasCopy
<1>3. AttemptsFirst' /\ NothingBefore' /\ CopiesAreTrue' /\ LogIsTrue'
  BY <1>2 DEF LogInv, AttemptsFirst, NothingBefore, CopiesAreTrue, LogIsTrue
<1>4. QED
  BY <1>1, <1>3 DEF LogInv

----------------------------------------------------------------------------
(* An email's row changes, by the clock, the sweep, the wipe or staff.      *)

\* The new row is that of a new email, of a deleted one, or has the old
\* number of attempts.
LEMMA RowMove ==
    ASSUME LogInv, NEW e \in Emails, NEW new \in EmailRow, row' = [row EXCEPT ![e] = new],
           UNCHANGED <<worker, mails>>, new.status # "none",
           new.status # "deleted" => row[e].status = "none" \/ (Exists(e) /\ new.attempts = row[e].attempts),
           new.status = "sent" => mails[e] > 0 /\ ~new.secret,
           new.status = "deleted" => ~new.secret, new.status = "failed" => new.attempts > 0
    PROVE  LogInv'
<1>1. QueueRows' /\ row'[e] = new /\ \A f \in Emails \ {e} : row'[f] = row[f]
  BY DEF LogInv, QueueRows
<1>2. /\ \A f \in Emails : Sending(f)' = Sending(f) /\ \A w \in Workers : HasCopy(w, f)' <=> HasCopy(w, f)
      /\ \A f \in Emails \ {e} : Exists(f)' <=> Exists(f)
  BY <1>1 DEF Exists, Sending, HasCopy
<1>3. Exists(e)' => row[e].status = "none" \/ (Exists(e) /\ new.attempts = row[e].attempts)
  BY <1>1 DEF Exists
<1>4. new.attempts \in Nat /\ mails[e] \in Nat
  BY DEF EmailRow, LogInv, QueueRows
<1>5. Exists(e)' => mails[e] + Cardinality(Sending(e)) <= new.attempts
  <2>1. CASE row[e].status = "none"
    <3>1. Sending(e) = {} /\ mails[e] = 0
      BY <2>1 DEF LogInv, NothingBefore, Sending, HasCopy
    <3>2. QED
      BY <3>1, <1>4, FS_EmptySet
  <2>2. QED
    BY <1>3, <2>1 DEF LogInv, AttemptsFirst
<1>6. AttemptsFirst'
  BY <1>1, <1>2, <1>5 DEF LogInv, AttemptsFirst
<1>7. NothingBefore'
  <2>1. new.secret => Exists(e)'
    BY <1>1 DEF Exists, EmailRow
  <2>2. QED
    BY <1>1, <1>2, <2>1 DEF LogInv, NothingBefore
<1>8. CopiesAreTrue'
  <2>1. ASSUME NEW w \in Workers, HasCopy(w, e), Exists(e)' PROVE new.attempts > 0
    BY <1>3, <2>1 DEF LogInv, CopiesAreTrue, NothingBefore
  <2>2. QED
    BY <1>1, <1>2, <2>1 DEF LogInv, CopiesAreTrue
<1>9. LogIsTrue'
  <2>1. Exists(e)' => mails[e] <= new.attempts
    <3>1. Cardinality(Sending(e)) \in Nat
      BY FS_CardinalityType DEF LogInv, AttemptsFirst
    <3>2. QED
      BY <1>4, <1>5, <3>1
  <2>2. QED
    BY <1>1, <1>2, <2>1 DEF LogInv, LogIsTrue
<1>10. QED
  BY <1>1, <1>6, <1>7, <1>8, <1>9 DEF LogInv

LEMMA RowSteps ==
    ASSUME LogInv, NEW e \in Emails,
           \/ \E sensitive \in BOOLEAN : send_email(e, sensitive)
           \/ GoQuiet(e) \/ SecretGrowsOld(e) \/ resend(e) \/ delete_email(e) \/ purge_sensitive(e)
    PROVE  LogInv'
<1>0. row[e] \in EmailRow /\ UNCHANGED <<worker, mails>>
  BY DEF LogInv, QueueRows, send_email, GoQuiet, SecretGrowsOld, resend, delete_email, purge_sensitive
<1>a. Exists(e) => /\ row[e].status = "sent" => mails[e] > 0 /\ ~row[e].secret
                   /\ row[e].status = "failed" => row[e].attempts > 0
  BY DEF LogInv, LogIsTrue
<1>1. ASSUME NEW sensitive \in BOOLEAN, send_email(e, sensitive) PROVE LogInv'
  <2> DEFINE new == QueuedRow(sensitive)
  <2>1. new \in EmailRow /\ new.status = "queued"
    BY DEF QueuedRow, NoRow, EmailRow
  <2>2. row' = [row EXCEPT ![e] = new] /\ row[e].status = "none"
    BY <1>1, NoRowIsRow DEF send_email
  <2> HIDE DEF new
  <2>3. QED
    BY <1>0, <2>1, <2>2, RowMove
<1>2. CASE GoQuiet(e)
  <2> DEFINE new == [row[e] EXCEPT !.quiet = TRUE]
  <2>1. new \in EmailRow /\ new.status = row[e].status /\ new.attempts = row[e].attempts /\ new.secret = row[e].secret
    BY <1>0 DEF EmailRow
  <2>2. row' = [row EXCEPT ![e] = new] /\ Exists(e) /\ row[e].status \notin {"none", "deleted"}
    BY <1>2 DEF GoQuiet, Exists
  <2> HIDE DEF new
  <2>3. QED
    BY <1>0, <1>a, <2>1, <2>2, RowMove
<1>3. CASE SecretGrowsOld(e)
  <2> DEFINE new == [row[e] EXCEPT !.old = TRUE]
  <2>1. new \in EmailRow /\ new.status = row[e].status /\ new.attempts = row[e].attempts /\ new.secret = row[e].secret
    BY <1>0 DEF EmailRow
  <2>2. row' = [row EXCEPT ![e] = new] /\ Exists(e) /\ row[e].status \notin {"none", "deleted"}
    BY <1>3 DEF SecretGrowsOld, LogInv, NothingBefore, Exists
  <2> HIDE DEF new
  <2>3. QED
    BY <1>0, <1>a, <2>1, <2>2, RowMove
<1>4. CASE resend(e)
  <2> DEFINE new == [row[e] EXCEPT !.status = "queued", !.quiet = FALSE]
  <2>1. new \in EmailRow /\ new.status = "queued" /\ new.attempts = row[e].attempts
    BY <1>0 DEF EmailRow
  <2>2. row' = [row EXCEPT ![e] = new] /\ Exists(e)
    BY <1>4 DEF resend, Exists, LogInv, QueueRows
  <2> HIDE DEF new
  <2>3. QED
    BY <1>0, <2>1, <2>2, RowMove
<1>5. CASE delete_email(e)
  <2> DEFINE new == [NoRow EXCEPT !.status = "deleted"]
  <2>1. new \in EmailRow /\ new.status = "deleted" /\ ~new.secret
    BY DEF EmailRow, NoRow
  <2>2. row' = [row EXCEPT ![e] = new]
    BY <1>5 DEF delete_email
  <2> HIDE DEF new
  <2>3. QED
    BY <1>0, <2>1, <2>2, RowMove
<1>6. CASE purge_sensitive(e)
  <2> DEFINE new == [row[e] EXCEPT !.secret = FALSE]
  <2>1. new \in EmailRow /\ new.status = row[e].status /\ new.attempts = row[e].attempts
    BY <1>0 DEF EmailRow
  <2>2. row' = [row EXCEPT ![e] = new] /\ Exists(e) /\ row[e].status \in {"queued", "failed"}
    BY <1>6 DEF purge_sensitive, Exists
  <2> HIDE DEF new
  <2>3. QED
    BY <1>0, <1>a, <2>1, <2>2, RowMove
<1>7. QED
  BY <1>1, <1>2, <1>3, <1>4, <1>5, <1>6

----------------------------------------------------------------------------
(* A worker takes a task, sends, and records.                               *)

SendCount(r, e) == IF r.pc = "send" /\ r.e = e THEN 1 ELSE 0

\* A set that only w enters or leaves.
LEMMA OneSender ==
    ASSUME NEW S, NEW T, NEW w, IsFiniteSet(S), S \ {w} = T \ {w}
    PROVE  /\ IsFiniteSet(T) /\ Cardinality(S) \in Nat /\ Cardinality(T) \in Nat
           /\ Cardinality(T) = Cardinality(S) + (IF w \in T THEN 1 ELSE 0) - (IF w \in S THEN 1 ELSE 0)
<1> DEFINE R == S \ {w}
<1>1. IsFiniteSet(R)
  BY FS_Subset
<1>2. w \notin R
  OBVIOUS
<1>3. IsFiniteSet(R \cup {w}) /\ Cardinality(R \cup {w}) = Cardinality(R) + 1
  BY <1>1, <1>2, FS_AddElement
<1>4. Cardinality(R) \in Nat
  BY <1>1, FS_CardinalityType
<1>5. (S = R /\ w \notin S) \/ (S = R \cup {w} /\ w \in S)
  OBVIOUS
<1>6. (T = R /\ w \notin T) \/ (T = R \cup {w} /\ w \in T)
  OBVIOUS
<1> HIDE DEF R
<1>7. QED
  BY <1>1, <1>3, <1>4, <1>5, <1>6

\* What a worker's step has to show, for the one email it is about.
LEMMA WorkMove ==
    ASSUME LogInv, QueueRows', NEW w \in Workers, NEW e \in Emails,
           \A v \in Workers \ {w} : worker'[v] = worker[v],
           \A f \in Emails \ {e} : row'[f] = row[f] /\ mails'[f] = mails[f] /\ ~HasCopy(w, f) /\ ~HasCopy(w, f)',
           row'[e].status # "none", row[e].status # "none", row'[e].secret => row[e].secret, Exists(e) <=> Exists(e)',
           Exists(e) => (mails'[e] - mails[e]) + SendCount(worker'[w], e) - SendCount(worker[w], e)
                          <= row'[e].attempts - row[e].attempts,
           row'[e].attempts >= row[e].attempts, mails'[e] >= mails[e],
           HasCopy(w, e)' => /\ Exists(e) => row'[e].attempts > 0
                             /\ worker'[w].pc = "accepted" => mails'[e] > 0,
           row'[e].status = "sent" => mails'[e] > 0 /\ ~row'[e].secret,
           row'[e].status = "failed" => row'[e].attempts > 0
    PROVE  LogInv'
<1>0. \A f \in Emails : /\ mails[f] \in Nat /\ mails'[f] \in Nat /\ row[f].attempts \in Nat /\ row'[f].attempts \in Nat
  BY DEF LogInv, QueueRows, EmailRow
<1>1. /\ \A f \in Emails \ {e} : Sending(f)' = Sending(f) /\ (Exists(f)' <=> Exists(f))
      /\ Sending(e) \ {w} = Sending(e)' \ {w}
      /\ \A f \in Emails, v \in Workers \ {w} : HasCopy(v, f)' <=> HasCopy(v, f)
  BY DEF Sending, HasCopy, Exists
<1>2. /\ SendCount(worker[w], e) = (IF w \in Sending(e) THEN 1 ELSE 0)
      /\ SendCount(worker'[w], e) = (IF w \in Sending(e)' THEN 1 ELSE 0)
  BY DEF SendCount, Sending
<1>3. IsFiniteSet(Sending(e)) /\ (Exists(e) => mails[e] + Cardinality(Sending(e)) <= row[e].attempts)
  BY DEF LogInv, AttemptsFirst
<1>4. /\ IsFiniteSet(Sending(e)') /\ Cardinality(Sending(e)) \in Nat /\ Cardinality(Sending(e)') \in Nat
      /\ Cardinality(Sending(e)') = Cardinality(Sending(e)) + SendCount(worker'[w], e) - SendCount(worker[w], e)
  BY <1>1, <1>2, <1>3, OneSender
<1>5. SendCount(worker[w], e) \in Int /\ SendCount(worker'[w], e) \in Int
  BY DEF SendCount
<1>6. Exists(e)' => mails'[e] + Cardinality(Sending(e)') <= row'[e].attempts
  BY <1>0, <1>3, <1>4, <1>5
<1>7. AttemptsFirst'
  BY <1>1, <1>4, <1>6 DEF LogInv, AttemptsFirst
<1>8. NothingBefore'
  <2>1. ASSUME NEW f \in Emails \ {e}, row'[f].status = "none"
        PROVE  mails'[f] = 0 /\ \A v \in Workers : ~HasCopy(v, f)'
    BY <1>1, <2>1 DEF LogInv, NothingBefore
  <2>2. \A f \in Emails : row'[f].secret => Exists(f)'
    BY <1>1 DEF LogInv, NothingBefore
  <2>3. QED
    BY <2>1, <2>2 DEF NothingBefore
<1>9. CopiesAreTrue'
  <2> SUFFICES ASSUME NEW v \in Workers, NEW f \in Emails, HasCopy(v, f)'
               PROVE  /\ Exists(f)' => row'[f].attempts > 0
                      /\ worker'[v].pc = "accepted" => mails'[f] > 0
    BY DEF CopiesAreTrue
  <2>1. CASE v = w
    BY <2>1
  <2>2. CASE v # w
    <3>1. (Exists(f) => row[f].attempts > 0) /\ (worker'[v].pc = "accepted" => mails[f] > 0)
      BY <1>1, <2>2 DEF LogInv, CopiesAreTrue
    <3>2. row'[f].attempts >= row[f].attempts /\ mails'[f] >= mails[f] /\ (Exists(f)' <=> Exists(f))
      BY <1>0, <1>1
    <3>3. QED
      BY <1>0, <3>1, <3>2
  <2>3. QED
    BY <2>1, <2>2
<1>10. LogIsTrue'
  <2>1. Exists(e)' => mails'[e] <= row'[e].attempts
    BY <1>0, <1>4, <1>6
  <2>2. QED
    BY <1>1, <2>1 DEF LogInv, LogIsTrue
<1>11. QED
  BY <1>7, <1>8, <1>9, <1>10 DEF LogInv

\* A worker's copy is of an email that was recorded.
LEMMA CopyOf ==
    ASSUME LogInv, NEW w \in Workers, worker[w].pc # "idle"
    PROVE  /\ worker[w] \in [pc : {"send", "accepted", "failed"}, e : Emails, retries : 0..MaxRetries, blank : BOOLEAN]
           /\ worker[w].e \in Emails /\ HasCopy(w, worker[w].e) /\ row[worker[w].e].status # "none"
           /\ \A f \in Emails \ {worker[w].e} : ~HasCopy(w, f)
<1>1. worker[w] \in TaskRow
  BY DEF LogInv, QueueRows
<1>2. worker[w] \in [pc : {"send", "accepted", "failed"}, e : Emails, retries : 0..MaxRetries, blank : BOOLEAN]
  BY <1>1 DEF TaskRow
<1>3. QED
  BY <1>2 DEF HasCopy, LogInv, NothingBefore

\* A worker takes the task: the attempt is counted with it.
LEMMA DeliverStep ==
    ASSUME LogInv, NEW w \in Workers, NEW e \in Emails, NEW retries \in 0..MaxRetries, deliver(w, e, retries)
    PROVE  LogInv'
<1>0. row[e] \in EmailRow /\ row[e].attempts \in Nat /\ mails[e] \in Nat /\ QueueRows
  BY DEF LogInv, QueueRows, EmailRow
<1>1. CASE UNCHANGED <<row, worker, mails>>
  BY <1>1, LogStays
<1>2. CASE ~UNCHANGED <<row, worker, mails>>
  <2> DEFINE new == [row[e] EXCEPT !.attempts = row[e].attempts + 1, !.quiet = FALSE]
             task == [pc |-> "send", e |-> e, retries |-> retries, blank |-> Wiped(e)]
  <2>1. /\ Exists(e) /\ worker[w] = IdleWorker /\ mails' = mails
        /\ row' = [row EXCEPT ![e] = new] /\ worker' = [worker EXCEPT ![w] = task]
    BY <1>2 DEF deliver, LogInv, QueueRows
  <2>2. /\ new \in EmailRow /\ new.attempts = row[e].attempts + 1
        /\ new.status = row[e].status /\ new.secret = row[e].secret
    <3>1. row[e].attempts + 1 \in Nat
      BY <1>0
    <3>2. QED
      BY <1>0, <3>1 DEF EmailRow
  <2>3. Wiped(e) \in BOOLEAN
    BY <1>0 DEF Wiped, EmailRow
  <2>4. task \in TaskRow /\ task.pc = "send" /\ task.e = e
    BY <2>3 DEF TaskRow
  <2> HIDE DEF new, task
  <2>5. /\ QueueRows' /\ row'[e] = new /\ worker'[w] = task
        /\ \A v \in Workers \ {w} : worker'[v] = worker[v]
        /\ \A f \in Emails \ {e} : row'[f] = row[f] /\ mails'[f] = mails[f]
    BY <1>0, <2>1, <2>2, <2>4 DEF QueueRows
  <2>6. /\ \A f \in Emails \ {e} : ~HasCopy(w, f) /\ ~HasCopy(w, f)'
        /\ SendCount(worker[w], e) = 0 /\ SendCount(worker'[w], e) = 1 /\ worker'[w].pc # "accepted"
    BY <2>1, <2>4, <2>5 DEF HasCopy, SendCount, IdleWorker
  <2>7. /\ row[e].status # "none" /\ row[e].status # "deleted" /\ (Exists(e) <=> Exists(e)')
        /\ row[e].status = "sent" => mails[e] > 0 /\ ~row[e].secret
    BY <2>1, <2>2, <2>5 DEF Exists, LogInv, LogIsTrue
  <2>8. /\ (mails'[e] - mails[e]) + SendCount(worker'[w], e) - SendCount(worker[w], e) <= row'[e].attempts - row[e].attempts
        /\ row'[e].attempts >= row[e].attempts /\ mails'[e] >= mails[e] /\ row'[e].attempts > 0
    BY <1>0, <2>1, <2>2, <2>5, <2>6
  <2>9. QED
    BY <2>1, <2>2, <2>5, <2>6, <2>7, <2>8, WorkMove
<1>3. QED
  BY <1>1, <1>2

\* The mail server accepts or not; the copy says whether it did.
LEMMA SendStep ==
    ASSUME LogInv, NEW w \in Workers, Send(w) PROVE LogInv'
<1>a. PICK e \in Emails : e = worker[w].e
  BY CopyOf DEF Send
<1>0. /\ worker[w] \in [pc : {"send", "accepted", "failed"}, e : Emails, retries : 0..MaxRetries, blank : BOOLEAN]
      /\ worker[w].pc = "send" /\ worker[w].e = e /\ HasCopy(w, e) /\ row[e].status # "none"
      /\ \A f \in Emails \ {e} : ~HasCopy(w, f)
  BY <1>a, CopyOf DEF Send
<1>1. QueueRows /\ row[e].attempts \in Nat /\ mails[e] \in Nat
  BY <1>0 DEF LogInv, QueueRows, EmailRow
<1>2. UNCHANGED row /\ SendCount(worker[w], e) = 1
  BY <1>0 DEF Send, SendCount
<1>3. ASSUME NEW task \in TaskRow, task.pc \in {"accepted", "failed"}, task.e = e, worker' = [worker EXCEPT ![w] = task],
             mails' = mails \/ mails' = [mails EXCEPT ![e] = @ + 1],
             task.pc = "accepted" => mails' = [mails EXCEPT ![e] = @ + 1]
      PROVE  LogInv'
  <2>1. /\ QueueRows' /\ worker'[w] = task /\ \A v \in Workers \ {w} : worker'[v] = worker[v]
        /\ \A f \in Emails \ {e} : row'[f] = row[f] /\ mails'[f] = mails[f]
        /\ mails'[e] = mails[e] \/ mails'[e] = mails[e] + 1
        /\ task.pc = "accepted" => mails'[e] = mails[e] + 1
    BY <1>0, <1>1, <1>2, <1>3 DEF QueueRows
  <2>2. SendCount(worker'[w], e) = 0 /\ \A f \in Emails \ {e} : ~HasCopy(w, f)'
    BY <1>3, <2>1 DEF SendCount, HasCopy
  <2>3. /\ (mails'[e] - mails[e]) + SendCount(worker'[w], e) - SendCount(worker[w], e) <= row'[e].attempts - row[e].attempts
        /\ row'[e].attempts >= row[e].attempts /\ mails'[e] >= mails[e] /\ (task.pc = "accepted" => mails'[e] > 0)
    BY <1>1, <1>2, <2>1, <2>2
  <2>4. Exists(e) => row[e].attempts > 0
    BY <1>0 DEF LogInv, CopiesAreTrue
  <2>5. /\ row[e].status = "sent" => mails[e] > 0 /\ ~row[e].secret
        /\ row[e].status = "failed" => row[e].attempts > 0
    BY <1>0 DEF LogInv, LogIsTrue, Exists
  <2>6. (Exists(e) <=> Exists(e)') /\ row'[e] = row[e]
    BY <1>2 DEF Exists
  <2>7. row'[e].status = "sent" => mails'[e] > 0
    BY <1>1, <2>1, <2>5, <2>6
  <2>8. QED
    BY <1>0, <2>1, <2>2, <2>3, <2>4, <2>5, <2>6, <2>7, WorkMove
<1>4. ASSUME NEW outcome \in {"accepted", "failed"}, worker' = [worker EXCEPT ![w].pc = outcome],
             mails' = [mails EXCEPT ![e] = @ + 1]
      PROVE  LogInv'
  <2> DEFINE task == [worker[w] EXCEPT !.pc = outcome]
  <2>1. task \in TaskRow /\ task.pc = outcome /\ task.e = e
    BY <1>0 DEF TaskRow
  <2>2. worker' = [worker EXCEPT ![w] = task]
    BY <1>4
  <2> HIDE DEF task
  <2>3. QED
    BY <1>3, <1>4, <2>1, <2>2
<1>5. ASSUME worker' = [worker EXCEPT ![w].pc = "failed", ![w].blank = FALSE], mails' = mails PROVE LogInv'
  <2> DEFINE task == [worker[w] EXCEPT !.pc = "failed", !.blank = FALSE]
  <2>1. task \in TaskRow /\ task.pc = "failed" /\ task.e = e
    BY <1>0 DEF TaskRow
  <2>2. worker' = [worker EXCEPT ![w] = task]
    BY <1>1, <1>5 DEF QueueRows
  <2> HIDE DEF task
  <2>3. QED
    BY <1>3, <1>5, <2>1, <2>2
<1>6. QED
  BY <1>a, <1>4, <1>5 DEF Send

\* A worker is done with its copy: the row is as it was, or says what the copy says.
LEMMA EndStep ==
    ASSUME LogInv, NEW w \in Workers, worker[w].pc # "idle", EndTask(w), UNCHANGED mails,
           \/ UNCHANGED row
           \/ /\ worker[w].pc = "accepted" /\ Exists(worker[w].e)
              /\ row' = [row EXCEPT ![worker[w].e].status = "sent", ![worker[w].e].quiet = FALSE, ![worker[w].e].secret = FALSE]
           \/ /\ Exists(worker[w].e)
              /\ row' = [row EXCEPT ![worker[w].e].status = "failed", ![worker[w].e].quiet = FALSE]
    PROVE  LogInv'
<1>a. PICK e \in Emails : e = worker[w].e
  BY CopyOf
<1>0. /\ worker[w].e = e /\ HasCopy(w, e) /\ row[e].status # "none" /\ \A f \in Emails \ {e} : ~HasCopy(w, f)
  BY <1>a, CopyOf
<1>1. QueueRows /\ row[e] \in EmailRow /\ row[e].attempts \in Nat /\ mails[e] \in Nat
  BY <1>0 DEF LogInv, QueueRows, EmailRow
<1>2. IdleWorker \in TaskRow
  BY DEF IdleWorker, TaskRow
<1>3. /\ worker' \in [Workers -> TaskRow] /\ worker'[w] = IdleWorker
      /\ \A v \in Workers \ {w} : worker'[v] = worker[v]
  BY <1>1, <1>2 DEF EndTask, QueueRows
<1>4. /\ \A f \in Emails : ~HasCopy(w, f)'
      /\ SendCount(worker'[w], e) = 0 /\ SendCount(worker[w], e) \in {0, 1}
  BY <1>3 DEF HasCopy, SendCount, IdleWorker
<1>5. (Exists(e) => row[e].attempts > 0) /\ (worker[w].pc = "accepted" => mails[e] > 0)
  BY <1>0 DEF LogInv, CopiesAreTrue
<1>6. /\ row[e].status = "sent" => mails[e] > 0 /\ ~row[e].secret
      /\ row[e].status = "failed" => row[e].attempts > 0
  BY <1>0 DEF LogInv, LogIsTrue, Exists
<1>7. ASSUME NEW new \in EmailRow, row' = [row EXCEPT ![e] = new], new.attempts = row[e].attempts, new.secret => row[e].secret,
             \/ new = row[e]
             \/ Exists(e) /\ new.status = "sent" /\ mails[e] > 0 /\ ~new.secret
             \/ Exists(e) /\ new.status = "failed"
      PROVE  LogInv'
  <2>1. QueueRows' /\ row'[e] = new /\ \A f \in Emails \ {e} : row'[f] = row[f] /\ mails'[f] = mails[f]
    BY <1>0, <1>1, <1>3, <1>7 DEF QueueRows
  <2>2. (Exists(e) <=> Exists(e)') /\ row'[e].status # "none"
    BY <1>0, <1>7, <2>1 DEF Exists
  <2>3. /\ (mails'[e] - mails[e]) + SendCount(worker'[w], e) - SendCount(worker[w], e) <= row'[e].attempts - row[e].attempts
        /\ row'[e].attempts >= row[e].attempts /\ mails'[e] >= mails[e]
    BY <1>1, <1>4, <1>7, <2>1
  <2>4. /\ row'[e].status = "sent" => mails'[e] > 0 /\ ~row'[e].secret
        /\ row'[e].status = "failed" => row'[e].attempts > 0
    BY <1>5, <1>6, <1>7, <2>1
  <2>5. QED
    BY <1>0, <1>3, <1>4, <1>7, <2>1, <2>2, <2>3, <2>4, WorkMove
<1>8. CASE UNCHANGED row
  <2>1. row' = [row EXCEPT ![e] = row[e]]
    BY <1>1, <1>8 DEF QueueRows
  <2>2. QED
    BY <1>1, <1>7, <2>1
<1>9. CASE /\ worker[w].pc = "accepted" /\ Exists(e)
           /\ row' = [row EXCEPT ![e].status = "sent", ![e].quiet = FALSE, ![e].secret = FALSE]
  <2> DEFINE new == [row[e] EXCEPT !.status = "sent", !.quiet = FALSE, !.secret = FALSE]
  <2>1. new \in EmailRow /\ new.attempts = row[e].attempts /\ new.status = "sent" /\ ~new.secret
    BY <1>1 DEF EmailRow
  <2>2. row' = [row EXCEPT ![e] = new]
    BY <1>0, <1>1, <1>9 DEF QueueRows
  <2> HIDE DEF new
  <2>3. QED
    BY <1>5, <1>7, <1>9, <2>1, <2>2
<1>10. CASE Exists(e) /\ row' = [row EXCEPT ![e].status = "failed", ![e].quiet = FALSE]
  <2> DEFINE new == [row[e] EXCEPT !.status = "failed", !.quiet = FALSE]
  <2>1. new \in EmailRow /\ new.attempts = row[e].attempts /\ new.status = "failed" /\ new.secret = row[e].secret
    BY <1>1 DEF EmailRow
  <2>2. row' = [row EXCEPT ![e] = new]
    BY <1>0, <1>1, <1>10 DEF QueueRows
  <2> HIDE DEF new
  <2>3. QED
    BY <1>7, <1>10, <2>1, <2>2
<1>11. QED
  BY <1>0, <1>8, <1>9, <1>10

LEMMA LogStep == LogInv /\ [QueueNext]_queueVars => LogInv'
<1> SUFFICES ASSUME LogInv, [QueueNext]_queueVars PROVE LogInv'
  OBVIOUS
<1>1. CASE UNCHANGED queueVars
  BY <1>1, LogStays DEF queueVars
<1>2. ASSUME NEW w \in Workers, RecordSent(w) PROVE LogInv'
  BY <1>2, EndStep DEF RecordSent, Raise
<1>3. ASSUME NEW w \in Workers, RecordFailed(w) PROVE LogInv'
  BY <1>3, EndStep DEF RecordFailed, Raise
<1>4. ASSUME NEW w \in Workers, WorkerDies(w) PROVE LogInv'
  BY <1>4, EndStep DEF WorkerDies
<1>5. ASSUME NEW e \in Emails, sweep_stuck(e) \/ \E retries \in 0..MaxRetries : Lose(e, retries) PROVE LogInv'
  BY <1>5, LogStays DEF sweep_stuck, Lose
<1>6. QED
  BY <1>1, <1>2, <1>3, <1>4, <1>5, RowSteps, DeliverStep, SendStep DEF QueueNext, WorkerNext

\* The email log can be believed: every mail that left was counted as an
\* attempt, "sent" means that a mail left and that no secret is kept, for any
\* number of emails, workers, retries, deaths, losses and resends.
THEOREM LogIsBelievable == QueueSpec => []LogIsTrue
<1>1. LogInv => LogIsTrue
  BY DEF LogInv
<1>2. QED
  BY <1>1, LogStart, LogStep, PTL DEF QueueSpec

============================================================================
