------------------------------ MODULE Assistant ------------------------------
(***************************************************************************)
(* One chat with the assistant: apps/assistant/agent.py (a message), live.py*)
(* (people joining) and actions.py (a change the customer approves).       *)
(*                                                                         *)
(* take, _execute and cancel are conditional updates.  Everything else     *)
(* checks the row its request loaded and writes later, without a lock: the *)
(* write may meet another row than the check saw.  What the language model *)
(* or the knowledge base answers, and which tools it calls, is external.   *)
(***************************************************************************)
EXTENDS Integers

CONSTANTS
    Requests,     \* web requests at work
    Staff, Nobody,
    MaxAttempts,  \* MAX_ATTEMPTS
    MaxTickets,   \* bound: tickets opened from the chat
    MaxCodes      \* bound: codes sent

ASSUME AssistantAssumption ==
    Nobody \notin Staff /\ MaxAttempts \in Nat \ {0} /\ MaxTickets \in Nat /\ MaxCodes \in Nat

VARIABLES
    chat,    \* Conversation: status, assigned_to, whether ticket is set
    change,  \* PendingAction: needs, status, old
    code,    \* VerificationCode: attempts, stale
    req,     \* what each request is doing, with its copy
    ran,     \* external: how often the change was made on the server
    typed,   \* whether the customer typed the right code
    opened,  \* tickets opened so far
    sent,    \* codes sent so far
    told     \* history: each status the card has shown, or a message said, and
             \* whether the row had it when it was decided to say so

changeVars == <<change, code, ran, typed, sent, told>>
chatVars == <<chat, opened>>
vars == <<chatVars, changeVars, req>>

----------------------------------------------------------------------------
IdleRequest == [pc |-> "idle"]

Idle(q) == req[q] = IdleRequest

Begin(q, r) == Idle(q) /\ req' = [req EXCEPT ![q] = r]

End(q) == req' = [req EXCEPT ![q] = IdleRequest]

NoChange == [needs |-> "none", status |-> "none", old |-> FALSE]

----------------------------------------------------------------------------
(* People: live.py.                                                         *)

\* One conditional update: a chat that waits, or that the assistant has.
take(s) ==
    /\ chat.status \in {"waiting", "ai"}
    /\ chat' = [chat EXCEPT !.status = "with_staff", !.assigned = s]
    /\ UNCHANGED <<changeVars, req, opened>>

\* _mine: checked on the copy.
Mine(s) == chat.status = "with_staff" /\ chat.assigned = s

StaffActs(q, s) ==
    /\ Mine(s) /\ \E op \in {"hand_back", "close", "transfer"} : Begin(q, [pc |-> op])
    /\ UNCHANGED <<chatVars, changeVars>>

hand_back(q) ==
    /\ req[q].pc = "hand_back"
    /\ chat' = [chat EXCEPT !.status = "ai", !.assigned = Nobody]
    /\ End(q) /\ UNCHANGED <<changeVars, opened>>

close(q) ==
    /\ req[q].pc = "close"
    /\ chat' = [chat EXCEPT !.status = "closed"]
    /\ End(q) /\ UNCHANGED <<changeVars, opened>>

transfer(q, s) ==
    /\ req[q].pc = "transfer"
    /\ chat' = [chat EXCEPT !.assigned = s]
    /\ End(q) /\ UNCHANGED <<changeVars, opened>>

\* A ticket with the chat attached, and the chat closes.
OpenTicket ==
    /\ opened < MaxTickets /\ opened' = opened + 1
    /\ chat' = [chat EXCEPT !.status = "closed", !.ticket = TRUE]

\* to_ticket and ticket_instead: whoever has the chat, once as far as the copy knows.
WantTicket(q) ==
    /\ ~chat.ticket /\ Begin(q, [pc |-> "ticket"])
    /\ UNCHANGED <<chatVars, changeVars>>

to_ticket(q) ==
    /\ req[q].pc = "ticket" /\ OpenTicket
    /\ End(q) /\ UNCHANGED changeVars

\* A person is asked for: the chat waits, or becomes a ticket when nobody is there.
AskPerson ==
    \/ chat' = [chat EXCEPT !.status = "waiting"] /\ UNCHANGED opened
    \/ OpenTicket

\* The customer starts another chat.
new_chat ==
    /\ chat.status # "closed" /\ chat' = [chat EXCEPT !.status = "closed"]
    /\ UNCHANGED <<changeVars, req, opened>>

\* The button; the page finds no closed chat, and a person may be there already.
handoff(q) ==
    /\ chat.status = "ai" /\ Begin(q, [pc |-> "ask"])
    /\ UNCHANGED <<chatVars, changeVars>>

ask_person(q) ==
    /\ req[q].pc = "ask" /\ AskPerson
    /\ End(q) /\ UNCHANGED changeVars

----------------------------------------------------------------------------
(* A message to the assistant: agent.py.                                    *)

\* While a person has the chat the message is only stored.
send(q) ==
    /\ chat.status = "ai" /\ Begin(q, [pc |-> "thinking", copy |-> "ai"])
    /\ UNCHANGED <<chatVars, changeVars>>

\* The tool that asks for a person works on the same copy.
ToolAsks(q) ==
    /\ req[q].pc = "thinking" /\ req[q].copy = "ai"
    /\ AskPerson
    /\ req' = [req EXCEPT ![q].copy = chat'.status]
    /\ UNCHANGED changeVars

propose(q, needs) ==
    /\ req[q].pc = "thinking" /\ change = NoChange
    /\ change' = [NoChange EXCEPT !.needs = needs, !.status = "pending"]
    /\ code' = [attempts |-> 0, stale |-> FALSE]
    /\ sent' = IF needs = "code" THEN sent + 1 ELSE sent
    /\ UNCHANGED <<chatVars, req, ran, typed, told>>

\* The answer, and the status of the copy.
Answer(q) ==
    /\ req[q].pc = "thinking"
    /\ chat' = [chat EXCEPT !.status = req[q].copy]
    /\ End(q) /\ UNCHANGED <<changeVars, opened>>

----------------------------------------------------------------------------
(* A change: actions.py.                                                    *)

Pending == change.status = "pending"

\* update(...) of a change that is still pending, and of no other.
IfPending(status) == change' = IF Pending THEN [change EXCEPT !.status = status] ELSE change

WillTell(q, status, hit) == req' = [req EXCEPT ![q] = [pc |-> "tell", status |-> status, hit |-> hit]]

\* The update may find no pending row; the customer is told all the same.
Give(q, status) == IfPending(status) /\ WillTell(q, status, change'.status = status)

\* _mark and _say.
Tell(q) ==
    /\ req[q].pc = "tell"
    /\ told' = told \cup {[status |-> req[q].status, hit |-> req[q].hit]}
    /\ End(q) /\ UNCHANGED <<chatVars, change, code, ran, typed, sent>>

\* Time: LIFETIME of the change, CODE_LIFETIME of its code.
GrowOld ==
    /\ change # NoChange
    /\ \/ ~change.old /\ change' = [change EXCEPT !.old = TRUE] /\ UNCHANGED code
       \/ change.needs = "code" /\ ~code.stale /\ code' = [code EXCEPT !.stale = TRUE] /\ UNCHANGED change
    /\ UNCHANGED <<chatVars, req, ran, typed, sent, told>>

approve(q) ==
    /\ change.needs = "approve" /\ Idle(q)
    /\ IF change.old THEN Give(q, "expired")
       ELSE Begin(q, [pc |-> "execute"]) /\ UNCHANGED change
    /\ UNCHANGED <<chatVars, code, ran, typed, sent, told>>

\* The row is loaded: it is pending and a code was sent.
verify(q) ==
    /\ change.needs = "code" /\ Pending
    /\ Begin(q, [pc |-> "verify", attempts |-> code.attempts, late |-> code.stale \/ change.old])
    /\ UNCHANGED <<chatVars, changeVars>>

\* Too late; too many; wrong; right.  A wrong code is counted on the copy.
CheckCode(q) ==
    /\ req[q].pc = "verify"
    /\ \/ /\ req[q].late /\ Give(q, "expired")
          /\ UNCHANGED <<code, typed>>
       \/ /\ ~req[q].late /\ req[q].attempts >= MaxAttempts /\ End(q)
          /\ UNCHANGED <<change, code, typed>>
       \/ /\ ~req[q].late /\ req[q].attempts < MaxAttempts
          /\ code' = [code EXCEPT !.attempts = req[q].attempts + 1]
          /\ req' = [req EXCEPT ![q] = [pc |-> IF req[q].attempts + 1 >= MaxAttempts THEN "lock" ELSE "idle"]]
          /\ UNCHANGED <<change, typed>>
       \/ /\ ~req[q].late /\ req[q].attempts < MaxAttempts
          /\ req' = [req EXCEPT ![q] = [pc |-> "execute"]]
          /\ typed' = TRUE /\ UNCHANGED <<change, code>>
    /\ UNCHANGED <<chatVars, ran, sent, told>>

\* The attempts are saved: that was the last one.
Lock(q) ==
    /\ req[q].pc = "lock" /\ Give(q, "locked")
    /\ UNCHANGED <<chatVars, code, ran, typed, sent, told>>

\* update_or_create: a new code, no attempts yet.
resend_code ==
    /\ change.needs = "code" /\ Pending
    /\ sent < MaxCodes /\ sent' = sent + 1
    /\ code' = [attempts |-> 0, stale |-> FALSE]
    /\ UNCHANGED <<chatVars, change, req, ran, typed, told>>

\* Fault: the status that was loaded decides.
Execute_loaded(q) ==
    /\ req[q].pc = "execute"
    /\ change' = [change EXCEPT !.status = "running"]
    /\ req' = [req EXCEPT ![q] = [pc |-> "running"]]
    /\ UNCHANGED <<chatVars, code, ran, typed, sent, told>>

\* One conditional update decides who runs it.
Execute(q) ==
    /\ req[q].pc = "execute"
    /\ IfPending("running")
    /\ IF Pending THEN req' = [req EXCEPT ![q] = [pc |-> "running"]] ELSE End(q)
    /\ UNCHANGED <<chatVars, code, ran, typed, sent, told>>

\* control.perform: the server makes the change, or refuses; its answer may
\* be lost, which is reported as a failure.
Perform(q) ==
    /\ req[q].pc = "running"
    /\ \E made \in 0..1, outcome \in {"done", "failed"} :
          /\ outcome = "done" => made = 1
          /\ ran' = ran + made /\ req' = [req EXCEPT ![q] = [pc |-> "outcome", status |-> outcome]]
    /\ UNCHANGED <<chatVars, change, code, typed, sent, told>>

SaveOutcome(q) ==
    /\ req[q].pc = "outcome"
    /\ change' = [change EXCEPT !.status = req[q].status]
    /\ WillTell(q, req[q].status, TRUE) /\ UNCHANGED <<chatVars, code, ran, typed, sent, told>>

\* The web worker is stopped.
Die(q) ==
    /\ ~Idle(q) /\ End(q) /\ UNCHANGED <<chatVars, changeVars>>

\* Fault: the customer's cancel overrides whatever the row says.
cancel_always(q) ==
    /\ change # NoChange /\ Idle(q)
    /\ change' = [change EXCEPT !.status = "cancelled"] /\ WillTell(q, "cancelled", TRUE)
    /\ UNCHANGED <<chatVars, code, ran, typed, sent, told>>

cancel(q) ==
    /\ Pending /\ Idle(q) /\ Give(q, "cancelled")
    /\ UNCHANGED <<chatVars, code, ran, typed, sent, told>>

----------------------------------------------------------------------------
Init ==
    /\ chat = [status |-> "ai", assigned |-> Nobody, ticket |-> FALSE]
    /\ change = NoChange
    /\ code = [attempts |-> 0, stale |-> FALSE]
    /\ req = [q \in Requests |-> IdleRequest]
    /\ ran = 0 /\ typed = FALSE /\ opened = 0 /\ sent = 0 /\ told = {}

Live(q) ==
    \/ \E s \in Staff : StaffActs(q, s) \/ transfer(q, s)
    \/ hand_back(q) \/ close(q) \/ WantTicket(q) \/ to_ticket(q) \/ handoff(q) \/ ask_person(q)

Talk(q) == send(q) \/ ToolAsks(q) \/ (\E needs \in {"approve", "code"} : propose(q, needs)) \/ Answer(q)

Change(q) ==
    \/ approve(q) \/ verify(q) \/ CheckCode(q) \/ Lock(q) \/ cancel(q)
    \/ Execute(q) \/ Perform(q) \/ SaveOutcome(q) \/ Tell(q)

Next ==
    \/ \E q \in Requests : Live(q) \/ Talk(q) \/ Change(q) \/ Die(q)
    \/ \E s \in Staff : take(s)
    \/ new_chat \/ GrowOld \/ resend_code

Spec == Init /\ [][Next]_vars

----------------------------------------------------------------------------
(* Correctness.                                                             *)

\* Only the customer's own click runs a change, "once": a double click, two
\* tabs, or a right code typed twice make one change on the server, and one
\* that needs the code is made only after it was typed.
RunsOnce ==
    /\ ran <= 1
    /\ ran = 1 => change.status \in {"running", "done", "failed"} /\ (change.needs = "code" => typed)

\* What the customer was told of a change stays true: after "cancelled",
\* "locked" or "expired" nothing was changed and nothing will be, after "done"
\* it was, and what ended does not begin again.  Only a lock or an expiry may be
\* told of a change that is something else by then: verify says that nothing was
\* changed, and approve that the request expired, whether or not the row was
\* still pending.  ("failed" is told also when the server's answer was lost.)
ToldIsTrue ==
    \A t \in told :
        IF t.hit THEN /\ change.status = t.status
                      /\ t.status \in {"cancelled", "locked", "expired"} => ran = 0
                      /\ t.status = "done" => ran = 1
        ELSE t.status \in {"locked", "expired"}
=============================================================================
