------------------------- MODULE CancellationProofs -------------------------
(***************************************************************************)
(* Proofs about Cancellation, for any number of requests and workers, any  *)
(* price and any limits with WorkLimit < ClaimTimeout.                     *)
(*                                                                         *)
(* Everything hangs on the claim.  A worker past its claim holds a claim   *)
(* exactly as old as itself; as the worker ends before the claim runs out, *)
(* nobody else can claim the request and nobody can withdraw it.  So a     *)
(* request that is being carried out stays approved, it is completed by    *)
(* the worker that gave the refund, and a refund is given once - as long   *)
(* as no worker dies, which is when the properties about money hold.       *)
(***************************************************************************)
EXTENDS Cancellation, TLAPS

\* A worker past its claim holds a claim of just its own age, on a request of
\* its own: the claim cannot run out before the worker's own limit.
ClaimIsHeld ==
    \A w \in Workers :
        /\ worker[w].pc # "idle" => worker[w].request \in Requests
        /\ Executing(w) => cr[worker[w].request].claim = worker[w].age

\* The refund and the completion come after the end of the service.
EndComesFirst == \A w \in Workers : worker[w].pc \in {"refund", "complete"} => ~live

\* At most one request for the service is open.
OneOpen ==
    \A r, s \in Requests : cr[r].status \in OPEN_STATUSES /\ cr[s].status \in OPEN_STATUSES => r = s

\* While no worker dies: what is being carried out is still approved, and
\* money was given only for what is complete or about to be completed.
NobodyDied ==
    crashes = 0 =>
        /\ \A w \in Workers : Executing(w) => cr[worker[w].request].status = "approved"
        /\ \A r \in Requests :
              \/ given[r] = 0
              \/ /\ given[r] = cr[r].refund
                 /\ \/ cr[r].status = "completed"
                    \/ \E w \in Workers : worker[w].pc = "complete" /\ worker[w].request = r

\* An approved request of a domain remembers how the customer had it.
BeforeIsWanted ==
    \A r \in Requests :
        /\ cr[r].status \in {"none", "pending"} => cr[r].before = "none"
        /\ cr[r].status = "approved" /\ kind = "domain" =>
              /\ cr[r].before # "none"
              /\ live /\ wanted # "mixed" => cr[r].before = wanted

CancelInv ==
    /\ TypeOK /\ ClaimIsHeld /\ OneExecutor /\ EndComesFirst /\ EndedFirst
    /\ OneOpen /\ NobodyDied /\ NoInvoiceForEndingService /\ BeforeIsWanted /\ AutoRenewIsKept

WorkerRow == [pc : {"idle", "claim", "end", "refund", "complete"},
              request : Requests \cup {"none"}, age : 0..WorkLimit, tx : BOOLEAN]

----------------------------------------------------------------------------
(* Rows: what the writes of a step make of a request or a worker.           *)

Claimed(row) == [row EXCEPT !.claim = 0]
Aged(row) == [row EXCEPT !.claim = @ + 1]
Released(row) == [row EXCEPT !.claim = NotClaimed, !.error = TRUE]
Completed(row, x) == [row EXCEPT !.status = "completed", !.claim = NotClaimed, !.tx = x, !.error = FALSE]
Granted(row, im, n, b) ==
    [row EXCEPT !.status = "approved", !.due = im, !.refund = n, !.error = FALSE, !.before = b]
Started(row, x) == [row EXCEPT !.pc = "end", !.tx = x, !.age = 0]
At(row, pc) == [row EXCEPT !.pc = pc]
Refunding(row) == [row EXCEPT !.pc = "complete", !.tx = TRUE]
Older(row) == [row EXCEPT !.age = @ + 1]

\* One column of a request is written.
LEMMA OneColumn ==
    ASSUME NEW row \in RequestRow
    PROVE  /\ \A s \in CancellationStatus :
                 LET new == [row EXCEPT !.status = s]
                 IN  /\ new \in RequestRow /\ new.status = s /\ new.due = row.due
                     /\ new.refund = row.refund /\ new.claim = row.claim /\ new.before = row.before
           /\ LET new == [row EXCEPT !.due = TRUE]
              IN  /\ new \in RequestRow /\ new.status = row.status /\ new.refund = row.refund
                  /\ new.claim = row.claim /\ new.before = row.before
           /\ \A n \in NotClaimed..ClaimTimeout :
                 LET new == [row EXCEPT !.claim = n]
                 IN  /\ new \in RequestRow /\ new.status = row.status /\ new.refund = row.refund
                     /\ new.claim = n /\ new.before = row.before
           /\ \A e \in BOOLEAN :
                 LET new == [row EXCEPT !.error = e]
                 IN  /\ new \in RequestRow /\ new.status = row.status /\ new.refund = row.refund
                     /\ new.claim = row.claim /\ new.before = row.before
           /\ \A x \in BOOLEAN :
                 LET new == [row EXCEPT !.tx = x]
                 IN  /\ new \in RequestRow /\ new.status = row.status /\ new.refund = row.refund
                     /\ new.claim = row.claim /\ new.before = row.before
<1> USE CancellationAssumption DEF RequestRow, CancellationStatus, NotClaimed
<1>1. \A s \in CancellationStatus :
         LET new == [row EXCEPT !.status = s]
         IN  /\ new \in RequestRow /\ new.status = s /\ new.due = row.due
             /\ new.refund = row.refund /\ new.claim = row.claim /\ new.before = row.before
  OBVIOUS
<1>2. LET new == [row EXCEPT !.due = TRUE]
      IN  /\ new \in RequestRow /\ new.status = row.status /\ new.refund = row.refund
          /\ new.claim = row.claim /\ new.before = row.before
  OBVIOUS
<1>3. \A n \in NotClaimed..ClaimTimeout :
         LET new == [row EXCEPT !.claim = n]
         IN  /\ new \in RequestRow /\ new.status = row.status /\ new.refund = row.refund
             /\ new.claim = n /\ new.before = row.before
  OBVIOUS
<1>4. \A e \in BOOLEAN :
         LET new == [row EXCEPT !.error = e]
         IN  /\ new \in RequestRow /\ new.status = row.status /\ new.refund = row.refund
             /\ new.claim = row.claim /\ new.before = row.before
  OBVIOUS
<1>5. \A x \in BOOLEAN :
         LET new == [row EXCEPT !.tx = x]
         IN  /\ new \in RequestRow /\ new.status = row.status /\ new.refund = row.refund
             /\ new.claim = row.claim /\ new.before = row.before
  OBVIOUS
<1> QED BY <1>1, <1>2, <1>3, <1>4, <1>5

\* end_service releases the claim and notes the error.
LEMMA ReleasedRow ==
    ASSUME NEW row \in RequestRow
    PROVE  LET new == Released(row)
           IN  /\ new \in RequestRow /\ new.status = row.status /\ new.refund = row.refund
               /\ new.claim = NotClaimed /\ new.before = row.before
<1> DEFINE a == [row EXCEPT !.claim = NotClaimed]
<1>1. NotClaimed \in NotClaimed..ClaimTimeout
  BY CancellationAssumption DEF NotClaimed
<1>2. a \in RequestRow /\ a.status = row.status /\ a.refund = row.refund /\ a.claim = NotClaimed
      /\ a.before = row.before
  BY <1>1, OneColumn
<1>3. [row EXCEPT !.claim = NotClaimed, !.error = TRUE] = [a EXCEPT !.error = TRUE]
  OBVIOUS
<1> HIDE DEF a
<1> DEFINE c == [a EXCEPT !.error = TRUE]
<1>4. c \in RequestRow /\ c.status = a.status /\ c.refund = a.refund /\ c.claim = a.claim
      /\ c.before = a.before
  BY <1>2, OneColumn
<1> HIDE DEF c
<1>5. Released(row) = c
  BY <1>3 DEF c, Released
<1> QED BY <1>2, <1>4, <1>5

\* complete writes the status, the refund's transaction and releases the claim.
LEMMA CompletedRow ==
    ASSUME NEW row \in RequestRow, NEW x \in BOOLEAN
    PROVE  LET new == Completed(row, x)
           IN  /\ new \in RequestRow /\ new.status = "completed" /\ new.refund = row.refund
               /\ new.claim = NotClaimed /\ new.before = row.before
<1> DEFINE a == [row EXCEPT !.status = "completed"]
           b == [a EXCEPT !.claim = NotClaimed]
           c == [b EXCEPT !.tx = x]
<1>1. NotClaimed \in NotClaimed..ClaimTimeout /\ "completed" \in CancellationStatus
  BY CancellationAssumption DEF NotClaimed, CancellationStatus
<1>2. Completed(row, x) = [c EXCEPT !.error = FALSE]
  BY DEF Completed
<1>3. a \in RequestRow /\ a.status = "completed" /\ a.refund = row.refund /\ a.before = row.before
  BY <1>1, OneColumn
<1> HIDE DEF a
<1>4. b \in RequestRow /\ b.status = "completed" /\ b.refund = row.refund /\ b.before = row.before
      /\ b.claim = NotClaimed
  BY <1>1, <1>3, OneColumn
<1> HIDE DEF b
<1>5. c \in RequestRow /\ c.status = "completed" /\ c.refund = row.refund /\ c.before = row.before
      /\ c.claim = NotClaimed
  BY <1>4, OneColumn
<1> HIDE DEF c
<1> QED BY <1>2, <1>5, OneColumn

\* approve writes the decision, the refund and the remembered auto-renewal.
LEMMA ApprovedRow ==
    ASSUME NEW row \in RequestRow, NEW im \in BOOLEAN, NEW n \in 0..Paid, NEW b \in {"none", "on", "off"}
    PROVE  LET new == Granted(row, im, n, b)
           IN  /\ new \in RequestRow /\ new.status = "approved" /\ new.refund = n
               /\ new.claim = row.claim /\ new.before = b
BY CancellationAssumption DEF Granted, RequestRow, CancellationStatus, NotClaimed

\* A claim is set, and grows older until it counts for nothing.
LEMMA ClaimedRow ==
    ASSUME NEW row \in RequestRow
    PROVE  /\ LET new == Claimed(row)
              IN  /\ new \in RequestRow /\ new.status = row.status /\ new.refund = row.refund
                  /\ new.claim = 0 /\ new.before = row.before
           /\ row.claim # NotClaimed /\ row.claim < ClaimTimeout =>
              LET new == Aged(row)
              IN  /\ new \in RequestRow /\ new.status = row.status /\ new.refund = row.refund
                  /\ new.claim = row.claim + 1 /\ new.before = row.before
<1> USE CancellationAssumption DEF RequestRow, NotClaimed
<1>1. LET new == Claimed(row)
      IN  /\ new \in RequestRow /\ new.status = row.status /\ new.refund = row.refund
          /\ new.claim = 0 /\ new.before = row.before
  BY DEF Claimed
<1>2. ASSUME row.claim # NotClaimed, row.claim < ClaimTimeout
      PROVE  LET new == Aged(row)
             IN  /\ new \in RequestRow /\ new.status = row.status /\ new.refund = row.refund
                 /\ new.claim = row.claim + 1 /\ new.before = row.before
  BY <1>2 DEF Aged
<1> QED BY <1>1, <1>2

\* The states a worker is put into.
LEMMA WorkerWrites ==
    ASSUME NEW row \in WorkerRow
    PROVE  /\ IdleWorker \in WorkerRow /\ IdleWorker.pc = "idle"
           /\ \A r \in Requests : LET new == [IdleWorker EXCEPT !.pc = "claim", !.request = r]
                                  IN  new \in WorkerRow /\ new.pc = "claim" /\ new.request = r
           /\ \A x \in BOOLEAN : LET new == Started(row, x)
                                 IN  /\ new \in WorkerRow /\ new.pc = "end" /\ new.age = 0
                                     /\ new.request = row.request
           /\ \A pc \in {"refund", "complete"} :
                 LET new == At(row, pc)
                 IN  new \in WorkerRow /\ new.pc = pc /\ new.age = row.age /\ new.request = row.request
           /\ LET new == Refunding(row)
              IN  new \in WorkerRow /\ new.pc = "complete" /\ new.age = row.age /\ new.request = row.request
           /\ row.age < WorkLimit => LET new == Older(row)
                                     IN  /\ new \in WorkerRow /\ new.pc = row.pc
                                         /\ new.age = row.age + 1 /\ new.request = row.request
<1> USE CancellationAssumption DEF WorkerRow
<1>1. IdleWorker \in WorkerRow /\ IdleWorker.pc = "idle"
  BY DEF IdleWorker
<1>2. ASSUME NEW r \in Requests
      PROVE  LET new == [IdleWorker EXCEPT !.pc = "claim", !.request = r]
             IN  new \in WorkerRow /\ new.pc = "claim" /\ new.request = r
  BY <1>1
<1>3. ASSUME NEW x \in BOOLEAN
      PROVE  LET new == Started(row, x)
             IN  /\ new \in WorkerRow /\ new.pc = "end" /\ new.age = 0 /\ new.request = row.request
  <2> DEFINE a == [row EXCEPT !.pc = "end", !.tx = x]
  <2>1. a \in WorkerRow /\ a.pc = "end" /\ a.request = row.request
    OBVIOUS
  <2>2. Started(row, x) = [a EXCEPT !.age = 0]
    BY DEF Started
  <2> HIDE DEF a
  <2> QED BY <2>1, <2>2
<1>4. ASSUME NEW pc \in {"refund", "complete"}
      PROVE  LET new == At(row, pc)
             IN  new \in WorkerRow /\ new.pc = pc /\ new.age = row.age /\ new.request = row.request
  BY DEF At
<1>5. LET new == Refunding(row)
      IN  new \in WorkerRow /\ new.pc = "complete" /\ new.age = row.age /\ new.request = row.request
  BY DEF Refunding
<1>6. ASSUME row.age < WorkLimit
      PROVE  LET new == Older(row)
             IN  new \in WorkerRow /\ new.pc = row.pc /\ new.age = row.age + 1 /\ new.request = row.request
  BY <1>6 DEF Older
<1> QED BY <1>1, <1>2, <1>3, <1>4, <1>5, <1>6

----------------------------------------------------------------------------
(* Steps.                                                                   *)

\* What a step that leaves the workers and the claims alone cannot disturb.
LEMMA WorkersUntouched ==
    ASSUME CancelInv, UNCHANGED <<worker, live>>, \A s \in Requests : cr'[s].claim = cr[s].claim
    PROVE  ClaimIsHeld' /\ OneExecutor' /\ EndComesFirst'
BY DEF CancelInv, ClaimIsHeld, OneExecutor, EndComesFirst, Executing

\* The renewal invoice and the customer's switch.
LEMMA RenewalStep ==
    ASSUME CancelInv, create_renewal \/ PayPart \/ PayRenewal \/ set_auto_renew
    PROVE  CancelInv'
<1>1. UNCHANGED <<kind, live, cr, worker, given, returned, crashes>>
  BY DEF create_renewal, PayPart, PayRenewal, set_auto_renew, service
<1>2. ClaimIsHeld' /\ OneExecutor' /\ EndComesFirst'
  BY <1>1, WorkersUntouched
<1>3. EndedFirst' /\ OneOpen' /\ NobodyDied'
  BY <1>1 DEF CancelInv, EndedFirst, OneOpen, NobodyDied, Executing
<1>4. TypeOK'
  BY <1>1 DEF CancelInv, TypeOK, create_renewal, PayPart, PayRenewal, set_auto_renew, service
<1>5. NoInvoiceForEndingService'
  BY <1>1 DEF CancelInv, NoInvoiceForEndingService, Approved, HasOpenRequest, OPEN_STATUSES,
              create_renewal, PayPart, PayRenewal, set_auto_renew
<1>6. CASE UNCHANGED <<auto, wanted>>
  <2>1. BeforeIsWanted' /\ AutoRenewIsKept'
    BY <1>1, <1>6 DEF CancelInv, BeforeIsWanted, AutoRenewIsKept, Approved
  <2> QED BY <1>2, <1>3, <1>4, <1>5, <2>1 DEF CancelInv
<1>7. CASE set_auto_renew
  <2>1. /\ auto' \in {"on", "off"} /\ UNCHANGED <<kind, live, cr>>
        /\ wanted' = IF Approved = {} THEN auto' ELSE "mixed"
    BY <1>7 DEF set_auto_renew
  <2>2. BeforeIsWanted'
    BY <2>1 DEF CancelInv, BeforeIsWanted, Approved
  <2>3. AutoRenewIsKept'
    BY <2>1 DEF AutoRenewIsKept, Approved
  <2> QED BY <1>2, <1>3, <1>4, <1>5, <2>2, <2>3 DEF CancelInv
<1> QED BY <1>6, <1>7 DEF create_renewal, PayPart, PayRenewal, service

\* Requesting, rejecting, and the day a request takes effect.
LEMMA RequestStep ==
    ASSUME CancelInv, NEW r \in Requests, request_cancellation(r) \/ reject(r) \/ EffectiveDay(r)
    PROVE  CancelInv'
<1> USE DEF CancellationStatus, OPEN_STATUSES
<1>1. cr \in [Requests -> RequestRow] /\ TypeOK
  BY DEF CancelInv, TypeOK
<1>2. /\ UNCHANGED <<kind, live, auto, wanted, renewal, worker, given, returned, crashes>>
      /\ \/ cr[r].status = "none" /\ ~HasOpenRequest /\ cr' = [cr EXCEPT ![r].status = "pending"]
         \/ cr[r].status = "pending" /\ cr' = [cr EXCEPT ![r].status = "rejected"]
         \/ cr[r].status = "approved" /\ cr' = [cr EXCEPT ![r].due = TRUE]
  BY <1>1 DEF request_cancellation, reject, EffectiveDay, service, CanTransition, TRANSITIONS, RequestRow
<1>3. /\ cr' \in [Requests -> RequestRow]
      /\ \A s \in Requests : s # r => cr'[s] = cr[s]
      /\ cr'[r].claim = cr[r].claim /\ cr'[r].refund = cr[r].refund /\ cr'[r].before = cr[r].before
      /\ \/ cr[r].status = "none" /\ ~HasOpenRequest /\ cr'[r].status = "pending"
         \/ cr[r].status = "pending" /\ cr'[r].status = "rejected"
         \/ cr[r].status = "approved" /\ cr'[r].status = "approved"
  <2>1. cr[r] \in RequestRow /\ "pending" \in CancellationStatus /\ "rejected" \in CancellationStatus
    BY <1>1
  <2>2. CASE cr[r].status = "none" /\ ~HasOpenRequest /\ cr' = [cr EXCEPT ![r].status = "pending"]
    <3> DEFINE new == [cr[r] EXCEPT !.status = "pending"]
    <3>1. cr' = [cr EXCEPT ![r] = new]
      BY <2>2
    <3>2. /\ new \in RequestRow /\ new.status = "pending" /\ new.claim = cr[r].claim
          /\ new.refund = cr[r].refund /\ new.before = cr[r].before
      BY <2>1, OneColumn
    <3> HIDE DEF new
    <3> QED BY <1>1, <2>2, <3>1, <3>2
  <2>3. CASE cr[r].status = "pending" /\ cr' = [cr EXCEPT ![r].status = "rejected"]
    <3> DEFINE new == [cr[r] EXCEPT !.status = "rejected"]
    <3>1. cr' = [cr EXCEPT ![r] = new]
      BY <2>3
    <3>2. /\ new \in RequestRow /\ new.status = "rejected" /\ new.claim = cr[r].claim
          /\ new.refund = cr[r].refund /\ new.before = cr[r].before
      BY <2>1, OneColumn
    <3> HIDE DEF new
    <3> QED BY <1>1, <2>3, <3>1, <3>2
  <2>4. CASE cr[r].status = "approved" /\ cr' = [cr EXCEPT ![r].due = TRUE]
    <3> DEFINE new == [cr[r] EXCEPT !.due = TRUE]
    <3>1. cr' = [cr EXCEPT ![r] = new]
      BY <2>4
    <3>2. /\ new \in RequestRow /\ new.status = cr[r].status /\ new.claim = cr[r].claim
          /\ new.refund = cr[r].refund /\ new.before = cr[r].before
      BY <2>1, OneColumn
    <3> HIDE DEF new
    <3> QED BY <1>1, <2>4, <3>1, <3>2
  <2> QED BY <1>2, <2>2, <2>3, <2>4
<1>4. TypeOK'
  BY <1>1, <1>2, <1>3 DEF TypeOK
<1>5. ClaimIsHeld' /\ OneExecutor' /\ EndComesFirst'
  BY <1>2, <1>3, WorkersUntouched
<1>6. EndedFirst' /\ OneOpen' /\ NobodyDied'
  <2>1. EndedFirst'
    BY <1>2, <1>3 DEF CancelInv, EndedFirst
  <2>2. OneOpen'
    BY <1>2, <1>3 DEF CancelInv, OneOpen, HasOpenRequest
  <2>3. NobodyDied'
    BY <1>2, <1>3 DEF CancelInv, NobodyDied, Executing, ClaimIsHeld
  <2> QED BY <2>1, <2>2, <2>3
<1>7. Approved' = Approved
  BY <1>3 DEF Approved
<1>8. NoInvoiceForEndingService' /\ AutoRenewIsKept'
  BY <1>2, <1>7 DEF CancelInv, NoInvoiceForEndingService, AutoRenewIsKept
<1>9. BeforeIsWanted'
  BY <1>2, <1>3 DEF CancelInv, BeforeIsWanted
<1> QED BY <1>4, <1>5, <1>6, <1>8, <1>9 DEF CancelInv

\* The claim of a worker at work has not run out.
LEMMA ExecutorsClaimIsFresh ==
    ASSUME CancelInv, NEW w \in Workers, Executing(w)
    PROVE  worker[w].request \in Requests /\ FreshClaim(worker[w].request)
<1>1. worker[w].age \in 0..WorkLimit
  BY DEF CancelInv, TypeOK
<1> QED BY <1>1, CancellationAssumption DEF CancelInv, ClaimIsHeld, Executing, FreshClaim, NotClaimed

\* Taking a request back.
LEMMA WithdrawStep ==
    ASSUME CancelInv, NEW r \in Requests, withdraw(r)
    PROVE  CancelInv'
<1> USE DEF CancellationStatus, OPEN_STATUSES
<1>1. cr \in [Requests -> RequestRow] /\ TypeOK /\ cr[r].before \in {"none", "on", "off"}
  BY DEF CancelInv, TypeOK, RequestRow
<1>2. /\ UNCHANGED <<kind, live, wanted, renewal, worker, given, returned, crashes>>
      /\ cr[r].status \in {"pending", "approved"}
      /\ cr[r].status = "approved" => ~FreshClaim(r)
      /\ auto' = IF cr[r].before = "none" THEN auto ELSE cr[r].before
  BY <1>1 DEF withdraw, CanTransition, TRANSITIONS, RequestRow
<1>3. /\ cr' \in [Requests -> RequestRow]
      /\ \A s \in Requests : s # r => cr'[s] = cr[s]
      /\ cr'[r].status = "withdrawn" /\ cr'[r].claim = cr[r].claim
      /\ cr'[r].refund = cr[r].refund /\ cr'[r].before = cr[r].before
  <2> DEFINE new == [cr[r] EXCEPT !.status = "withdrawn"]
  <2>1. cr' = [cr EXCEPT ![r] = new]
    BY DEF withdraw
  <2>2. /\ new \in RequestRow /\ new.status = "withdrawn" /\ new.claim = cr[r].claim
        /\ new.refund = cr[r].refund /\ new.before = cr[r].before
    BY <1>1, OneColumn
  <2> HIDE DEF new
  <2> QED BY <1>1, <2>1, <2>2
<1>4. TypeOK'
  BY <1>1, <1>2, <1>3 DEF TypeOK
<1>5. ClaimIsHeld' /\ OneExecutor' /\ EndComesFirst'
  BY <1>2, <1>3, WorkersUntouched
<1>6. EndedFirst' /\ OneOpen'
  BY <1>2, <1>3 DEF CancelInv, EndedFirst, OneOpen
<1>7. NobodyDied'
  <2>1. crashes = 0 => \A w \in Workers : Executing(w) => worker[w].request # r
    BY <1>2, ExecutorsClaimIsFresh DEF CancelInv, NobodyDied
  <2> QED BY <1>2, <1>3, <2>1 DEF CancelInv, NobodyDied, Executing, ClaimIsHeld
<1>8. Approved' = Approved \ {r}
  BY <1>3 DEF Approved
<1>9. NoInvoiceForEndingService'
  BY <1>2, <1>8 DEF CancelInv, NoInvoiceForEndingService
<1>10. AutoRenewIsKept'
  <2>1. CASE cr[r].status = "approved"
    <3>1. Approved' = {} /\ r \in Approved
      BY <1>3, <2>1 DEF Approved, CancelInv, OneOpen
    <3> QED BY <1>2, <2>1, <3>1 DEF AutoRenewIsKept, CancelInv, BeforeIsWanted
  <2>2. CASE cr[r].status = "pending"
    <3>1. Approved' = Approved /\ auto' = auto
      BY <1>2, <1>8, <2>2 DEF Approved, CancelInv, BeforeIsWanted
    <3> QED BY <1>2, <3>1 DEF AutoRenewIsKept, CancelInv
  <2> QED BY <1>2, <2>1, <2>2
<1>11. BeforeIsWanted'
  BY <1>2, <1>3 DEF CancelInv, BeforeIsWanted
<1> QED BY <1>4, <1>5, <1>6, <1>7, <1>9, <1>10, <1>11 DEF CancelInv

\* A worker that turns to a request, or away from one, changes nothing else;
\* whoever turns away dies or has not claimed.
LEMMA WorkerTurns ==
    ASSUME CancelInv, NEW w \in Workers, NEW row \in WorkerRow,
           worker' = [worker EXCEPT ![w] = row], UNCHANGED <<service, renewal, cr, given, returned>>,
           \/ row.pc = "idle"
           \/ row.pc = "claim" /\ row.request \in Requests,
           \/ crashes' = crashes /\ ~Executing(w)
           \/ crashes' = crashes + 1 /\ crashes < MaxCrashes
    PROVE  CancelInv'
<1>1. worker \in [Workers -> WorkerRow] /\ TypeOK
  BY DEF CancelInv, TypeOK, WorkerRow
<1>2. /\ worker' \in [Workers -> WorkerRow] /\ \A v \in Workers : v # w => worker'[v] = worker[v]
      /\ worker'[w].pc \in {"idle", "claim"} /\ (worker'[w].pc # "idle" => worker'[w].request \in Requests)
  BY <1>1
<1>3. TypeOK'
  BY <1>1, <1>2, CancellationAssumption DEF TypeOK, WorkerRow, service
<1>4. ClaimIsHeld' /\ OneExecutor' /\ EndComesFirst'
  BY <1>2 DEF CancelInv, ClaimIsHeld, OneExecutor, EndComesFirst, Executing, service
<1>5. EndedFirst' /\ OneOpen' /\ NoInvoiceForEndingService' /\ AutoRenewIsKept' /\ BeforeIsWanted'
  BY DEF CancelInv, EndedFirst, OneOpen, NoInvoiceForEndingService, AutoRenewIsKept, BeforeIsWanted,
         Approved, service
<1>6. NobodyDied'
  <2>1. CASE crashes' = crashes + 1
    BY <1>1, <2>1 DEF TypeOK, NobodyDied
  <2>2. CASE crashes' = crashes /\ ~Executing(w)
    BY <1>2, <2>2 DEF CancelInv, NobodyDied, Executing
  <2> QED BY <2>1, <2>2
<1> QED BY <1>3, <1>4, <1>5, <1>6 DEF CancelInv

\* The job or staff begin, a worker is refused the claim, or it dies.
LEMMA TurnStep ==
    ASSUME CancelInv, NEW w \in Workers,
           \/ \E r \in Requests : Begin(w, r)
           \/ claim(w) /\ ~MayClaim(worker[w].request)
           \/ Die(w)
    PROVE  CancelInv'
<1>1. worker[w] \in WorkerRow
  BY DEF CancelInv, TypeOK, WorkerRow
<1>2. ASSUME NEW r \in Requests, Begin(w, r) PROVE CancelInv'
  <2> DEFINE row == [IdleWorker EXCEPT !.pc = "claim", !.request = r]
  <2>1. row \in WorkerRow /\ row.pc = "claim" /\ row.request = r
    BY <1>1, WorkerWrites
  <2>2. worker' = [worker EXCEPT ![w] = row] /\ UNCHANGED <<service, renewal, cr, given, returned, crashes>>
        /\ ~Executing(w)
    BY <1>2 DEF Begin, Executing
  <2> HIDE DEF row
  <2> QED BY <2>1, <2>2, WorkerTurns
<1>3. IdleWorker \in WorkerRow /\ IdleWorker.pc = "idle"
  BY <1>1, WorkerWrites
<1>4. CASE claim(w) /\ ~MayClaim(worker[w].request)
  BY <1>3, <1>4, WorkerTurns DEF claim, Executing
<1>5. CASE Die(w)
  BY <1>3, <1>5, WorkerTurns DEF Die
<1> QED BY <1>2, <1>4, <1>5

\* Granting a request.
LEMMA ApproveStep ==
    ASSUME CancelInv, NEW r \in Requests, NEW w \in Workers, NEW im \in BOOLEAN, NEW n \in 0..Paid,
           approve(w, r, im, n)
    PROVE  CancelInv'
<1> USE DEF CancellationStatus, OPEN_STATUSES
<1> DEFINE b == IF kind = "domain" THEN auto ELSE cr[r].before
<1>1. /\ cr \in [Requests -> RequestRow] /\ worker \in [Workers -> WorkerRow] /\ TypeOK
      /\ b \in {"none", "on", "off"}
  BY DEF CancelInv, TypeOK, RequestRow, WorkerRow
<1>2. /\ UNCHANGED <<kind, live, wanted, given, returned, crashes>>
      /\ cr[r].status = "pending" /\ live /\ auto' = "off" /\ worker[w].pc = "idle"
      /\ renewal' = IF renewal = "unpaid" THEN "none" ELSE renewal
  BY <1>1 DEF approve, CanTransition, TRANSITIONS, RequestRow, cancel_open_renewals
<1>3. /\ cr' \in [Requests -> RequestRow]
      /\ \A s \in Requests : s # r => cr'[s] = cr[s]
      /\ cr'[r].status = "approved" /\ cr'[r].claim = cr[r].claim /\ cr'[r].before = b
  <2> DEFINE new == Granted(cr[r], im, n, b)
  <2>1. cr' = [cr EXCEPT ![r] = new]
    BY DEF approve, Granted
  <2> HIDE DEF b
  <2>2. new \in RequestRow /\ new.status = "approved" /\ new.claim = cr[r].claim /\ new.before = b
    BY <1>1, ApprovedRow
  <2> HIDE DEF new
  <2> QED BY <1>1, <2>1, <2>2
<1>4. /\ worker' \in [Workers -> WorkerRow] /\ \A v \in Workers : v # w => worker'[v] = worker[v]
      /\ \/ worker'[w] = worker[w]
         \/ worker'[w].pc = "claim" /\ worker'[w].request = r
  <2> DEFINE row == [IdleWorker EXCEPT !.pc = "claim", !.request = r]
  <2>1. row \in WorkerRow /\ row.pc = "claim" /\ row.request = r
    BY <1>1, WorkerWrites
  <2>2. worker' = [worker EXCEPT ![w] = row] \/ worker' = worker
    BY DEF approve
  <2> HIDE DEF row
  <2> QED BY <1>1, <2>1, <2>2
<1>5. TypeOK'
  BY <1>1, <1>2, <1>3, <1>4 DEF TypeOK, WorkerRow
<1>6. \A v \in Workers : (Executing(v))' <=> Executing(v)
  BY <1>2, <1>4 DEF Executing
<1>7. ClaimIsHeld'
  BY <1>2, <1>3, <1>4 DEF CancelInv, ClaimIsHeld, Executing
<1>8. OneExecutor' /\ EndComesFirst'
  BY <1>2, <1>4, <1>6 DEF CancelInv, OneExecutor, EndComesFirst, Executing
<1>9. EndedFirst' /\ OneOpen'
  BY <1>2, <1>3 DEF CancelInv, EndedFirst, OneOpen
<1>10. NobodyDied'
  <2> SUFFICES ASSUME crashes = 0
               PROVE  /\ \A v \in Workers : (Executing(v))' => cr'[worker'[v].request].status = "approved"
                      /\ \A s \in Requests :
                            \/ given[s] = 0
                            \/ /\ given[s] = cr'[s].refund
                               /\ \/ cr'[s].status = "completed"
                                  \/ \E v \in Workers : worker'[v].pc = "complete" /\ worker'[v].request = s
    BY <1>2 DEF NobodyDied
  <2>1. given[r] = 0
    BY <1>2 DEF CancelInv, NobodyDied, Executing
  <2>2. \A v \in Workers : (Executing(v))' => cr'[worker'[v].request].status = "approved"
    BY <1>2, <1>3, <1>4, <1>6 DEF CancelInv, NobodyDied, ClaimIsHeld, Executing
  <2>3. \A s \in Requests : s # r =>
           \/ given[s] = 0
           \/ /\ given[s] = cr'[s].refund
              /\ \/ cr'[s].status = "completed"
                 \/ \E v \in Workers : worker'[v].pc = "complete" /\ worker'[v].request = s
    BY <1>2, <1>3, <1>4 DEF CancelInv, NobodyDied
  <2> QED BY <2>1, <2>2, <2>3
<1>11. NoInvoiceForEndingService' /\ AutoRenewIsKept'
  BY <1>2, <1>3 DEF NoInvoiceForEndingService, AutoRenewIsKept, Approved
<1>12. BeforeIsWanted'
  <2>1. kind = "domain" /\ wanted # "mixed" => auto = wanted
    <3>1. Approved = {}
      BY <1>2 DEF CancelInv, OneOpen, Approved
    <3> QED BY <1>2, <3>1 DEF CancelInv, AutoRenewIsKept
  <2>2. \A s \in Requests : s # r => cr[s].status # "approved"
    BY <1>2 DEF CancelInv, OneOpen
  <2>3. auto \in {"on", "off"}
    BY <1>1 DEF TypeOK
  <2> QED BY <1>2, <1>3, <2>1, <2>2, <2>3 DEF CancelInv, BeforeIsWanted
<1> QED BY <1>5, <1>7, <1>8, <1>9, <1>10, <1>11, <1>12 DEF CancelInv

\* A worker gets the claim.
LEMMA ClaimStep ==
    ASSUME CancelInv, NEW w \in Workers, claim(w), MayClaim(worker[w].request)
    PROVE  CancelInv'
<1> USE DEF CancellationStatus, OPEN_STATUSES
<1> DEFINE r == worker[w].request
<1>1. /\ cr \in [Requests -> RequestRow] /\ worker \in [Workers -> WorkerRow] /\ TypeOK
      /\ r \in Requests /\ worker[w].pc = "claim" /\ cr[r].status = "approved" /\ ~FreshClaim(r)
      /\ UNCHANGED <<kind, live, auto, wanted, renewal, given, returned, crashes>>
  BY DEF CancelInv, TypeOK, WorkerRow, ClaimIsHeld, claim, MayClaim, service
<1>2. /\ cr' \in [Requests -> RequestRow]
      /\ \A s \in Requests : /\ cr'[s].status = cr[s].status /\ cr'[s].refund = cr[s].refund
                             /\ cr'[s].before = cr[s].before
                             /\ cr'[s].claim = IF s = r THEN 0 ELSE cr[s].claim
  <2> DEFINE new == Claimed(cr[r])
  <2>1. cr' = [cr EXCEPT ![r] = new]
    BY DEF claim, Claimed
  <2> HIDE DEF r
  <2>2. /\ new \in RequestRow /\ new.status = cr[r].status /\ new.refund = cr[r].refund /\ new.claim = 0
        /\ new.before = cr[r].before
    BY <1>1, ClaimedRow
  <2> HIDE DEF new
  <2> QED BY <1>1, <2>1, <2>2
<1>3. /\ worker' \in [Workers -> WorkerRow] /\ \A v \in Workers : v # w => worker'[v] = worker[v]
      /\ worker'[w].pc = "end" /\ worker'[w].age = 0 /\ worker'[w].request = r
  <2> DEFINE x == cr[r].tx
             row == Started(worker[w], x)
  <2>1. worker' = [worker EXCEPT ![w] = row]
    BY DEF claim, Started
  <2>2. x \in BOOLEAN
    BY <1>1 DEF RequestRow
  <2> HIDE DEF x
  <2>3. row \in WorkerRow /\ row.pc = "end" /\ row.age = 0 /\ row.request = r
    BY <1>1, <2>2, WorkerWrites
  <2> HIDE DEF row, r
  <2> QED BY <1>1, <2>1, <2>3
<1>4. \A v \in Workers : Executing(v) => worker[v].request # r
  BY <1>1, ExecutorsClaimIsFresh
<1> HIDE DEF r
<1>5. TypeOK'
  BY <1>1, <1>2, <1>3 DEF TypeOK, WorkerRow
<1>6. ClaimIsHeld'
  BY <1>1, <1>2, <1>3, <1>4 DEF CancelInv, ClaimIsHeld, Executing
<1>7. OneExecutor' /\ EndComesFirst'
  BY <1>1, <1>3, <1>4 DEF CancelInv, OneExecutor, EndComesFirst, Executing
<1>8. EndedFirst' /\ OneOpen' /\ BeforeIsWanted'
  BY <1>1, <1>2 DEF CancelInv, EndedFirst, OneOpen, BeforeIsWanted
<1>9. NobodyDied'
  BY <1>1, <1>2, <1>3 DEF CancelInv, NobodyDied, Executing, ClaimIsHeld
<1>10. NoInvoiceForEndingService' /\ AutoRenewIsKept'
  <2>1. Approved' = Approved
    BY <1>2 DEF Approved
  <2> QED BY <1>1, <2>1 DEF CancelInv, NoInvoiceForEndingService, AutoRenewIsKept
<1> QED BY <1>5, <1>6, <1>7, <1>8, <1>9, <1>10 DEF CancelInv

\* The service is ended, or that fails and the claim is released.
LEMMA EndStep ==
    ASSUME CancelInv, NEW w \in Workers, end_service(w)
    PROVE  CancelInv'
<1> USE DEF CancellationStatus, OPEN_STATUSES
<1> DEFINE r == worker[w].request
<1>1. /\ cr \in [Requests -> RequestRow] /\ worker \in [Workers -> WorkerRow] /\ TypeOK
      /\ r \in Requests /\ worker[w].pc = "end" /\ Executing(w)
      /\ UNCHANGED <<kind, wanted, renewal, given, returned, crashes>>
  BY DEF CancelInv, TypeOK, WorkerRow, ClaimIsHeld, end_service, Executing
<1>2. CASE /\ live' = FALSE /\ auto' = IF live THEN "off" ELSE auto
           /\ worker' = [worker EXCEPT ![w].pc = "refund"] /\ UNCHANGED cr
  <2>1. /\ worker' \in [Workers -> WorkerRow] /\ \A v \in Workers : v # w => worker'[v] = worker[v]
        /\ worker'[w].pc = "refund" /\ worker'[w].request = r /\ worker'[w].age = worker[w].age
    <3> DEFINE row == At(worker[w], "refund")
    <3>1. worker' = [worker EXCEPT ![w] = row]
      BY <1>2 DEF At
    <3>2. row \in WorkerRow /\ row.pc = "refund" /\ row.age = worker[w].age /\ row.request = r
      BY <1>1, WorkerWrites
    <3> HIDE DEF row, r
    <3> QED BY <1>1, <3>1, <3>2
  <2>2. TypeOK'
    BY <1>1, <1>2, <2>1 DEF TypeOK, WorkerRow
  <2>3. ClaimIsHeld' /\ OneExecutor'
    BY <1>1, <1>2, <2>1 DEF CancelInv, ClaimIsHeld, OneExecutor, Executing
  <2>4. EndComesFirst' /\ EndedFirst' /\ OneOpen' /\ AutoRenewIsKept' /\ BeforeIsWanted'
    BY <1>1, <1>2 DEF CancelInv, EndComesFirst, EndedFirst, OneOpen, AutoRenewIsKept, BeforeIsWanted
  <2>5. NobodyDied'
    BY <1>1, <1>2, <2>1 DEF CancelInv, NobodyDied, Executing
  <2>6. NoInvoiceForEndingService'
    BY <1>1, <1>2 DEF CancelInv, NoInvoiceForEndingService, Approved
  <2> QED BY <2>2, <2>3, <2>4, <2>5, <2>6 DEF CancelInv
<1>3. CASE /\ live /\ cr' = [cr EXCEPT ![r].claim = NotClaimed, ![r].error = TRUE]
           /\ worker' = [worker EXCEPT ![w] = IdleWorker] /\ UNCHANGED <<live, auto>>
  <2>1. /\ cr' \in [Requests -> RequestRow]
        /\ \A s \in Requests : /\ cr'[s].status = cr[s].status /\ cr'[s].refund = cr[s].refund
                               /\ cr'[s].before = cr[s].before
                               /\ s # r => cr'[s].claim = cr[s].claim
    <3> DEFINE new == Released(cr[r])
    <3>1. cr' = [cr EXCEPT ![r] = new]
      BY <1>3 DEF Released
    <3> HIDE DEF r
    <3>2. new \in RequestRow /\ new.status = cr[r].status /\ new.refund = cr[r].refund
          /\ new.before = cr[r].before
      BY <1>1, ReleasedRow
    <3> HIDE DEF new
    <3> QED BY <1>1, <3>1, <3>2
  <2>2. /\ worker' \in [Workers -> WorkerRow] /\ \A v \in Workers : v # w => worker'[v] = worker[v]
        /\ worker'[w].pc = "idle"
    BY <1>1, <1>3, WorkerWrites
  <2>3. \A v \in Workers : v # w /\ Executing(v) => worker[v].request # r
    BY <1>1 DEF CancelInv, OneExecutor
  <2> HIDE DEF r
  <2>4. TypeOK'
    BY <1>1, <1>3, <2>1, <2>2 DEF TypeOK, WorkerRow
  <2>5. ClaimIsHeld' /\ OneExecutor'
    BY <2>1, <2>2, <2>3 DEF CancelInv, ClaimIsHeld, OneExecutor, Executing
  <2>6. EndComesFirst' /\ EndedFirst' /\ OneOpen' /\ BeforeIsWanted'
    BY <1>1, <1>3, <2>1, <2>2 DEF CancelInv, EndComesFirst, EndedFirst, OneOpen, BeforeIsWanted
  <2>7. NobodyDied'
    BY <1>1, <2>1, <2>2 DEF CancelInv, NobodyDied, Executing, ClaimIsHeld
  <2>8. NoInvoiceForEndingService' /\ AutoRenewIsKept'
    <3>1. Approved' = Approved
      BY <2>1 DEF Approved
    <3> QED BY <1>1, <1>3, <3>1 DEF CancelInv, NoInvoiceForEndingService, AutoRenewIsKept
  <2> QED BY <2>4, <2>5, <2>6, <2>7, <2>8 DEF CancelInv
<1> QED BY <1>2, <1>3 DEF end_service

\* The refund is given, skipped or refused.
LEMMA GiveRefundStep ==
    ASSUME CancelInv, NEW w \in Workers, give_refund(w)
    PROVE  CancelInv'
<1> DEFINE r == worker[w].request
<1>1. /\ cr \in [Requests -> RequestRow] /\ worker \in [Workers -> WorkerRow] /\ TypeOK
      /\ r \in Requests /\ worker[w].pc = "refund" /\ Executing(w) /\ ~live
      /\ UNCHANGED <<kind, live, auto, wanted, renewal, cr, crashes>>
  BY DEF CancelInv, TypeOK, WorkerRow, ClaimIsHeld, EndComesFirst, give_refund, Executing, service
<1>2. cr[r].refund \in Nat /\ given \in [Requests -> Nat] /\ returned \in 0..Paid /\ Paid \in Nat
  BY <1>1, CancellationAssumption DEF TypeOK, RequestRow
<1>3. /\ worker' \in [Workers -> WorkerRow] /\ \A v \in Workers : v # w => worker'[v] = worker[v]
      /\ worker'[w].pc = "complete" /\ worker'[w].request = r /\ worker'[w].age = worker[w].age
  <2> DEFINE plain == At(worker[w], "complete")
             repaid == Refunding(worker[w])
  <2>1. worker' = [worker EXCEPT ![w] = plain] \/ worker' = [worker EXCEPT ![w] = repaid]
    BY DEF give_refund, At, Refunding
  <2>2. plain \in WorkerRow /\ plain.pc = "complete" /\ plain.age = worker[w].age /\ plain.request = r
    BY <1>1, WorkerWrites
  <2>3. repaid \in WorkerRow /\ repaid.pc = "complete" /\ repaid.age = worker[w].age /\ repaid.request = r
    BY <1>1, WorkerWrites
  <2> HIDE DEF plain, repaid, r
  <2> QED BY <1>1, <2>1, <2>2, <2>3
<1>4. \/ UNCHANGED <<given, returned>>
      \/ /\ cr[r].refund <= Paid - returned
         /\ given' = [given EXCEPT ![r] = @ + cr[r].refund] /\ returned' = returned + cr[r].refund
  BY DEF give_refund
<1>5. given' \in [Requests -> Nat] /\ returned' \in 0..Paid
  BY <1>1, <1>2, <1>4
<1>6. TypeOK'
  BY <1>1, <1>3, <1>5 DEF TypeOK, WorkerRow
<1>7. ClaimIsHeld' /\ OneExecutor'
  BY <1>1, <1>3 DEF CancelInv, ClaimIsHeld, OneExecutor, Executing
<1>8. EndComesFirst' /\ EndedFirst' /\ OneOpen' /\ AutoRenewIsKept' /\ BeforeIsWanted'
  BY <1>1 DEF CancelInv, EndComesFirst, EndedFirst, OneOpen, AutoRenewIsKept, BeforeIsWanted
<1>9. NoInvoiceForEndingService'
  BY <1>1 DEF CancelInv, NoInvoiceForEndingService, Approved
<1>10. NobodyDied'
  <2> SUFFICES ASSUME crashes = 0
               PROVE  /\ \A v \in Workers : (Executing(v))' => cr[worker'[v].request].status = "approved"
                      /\ \A s \in Requests :
                            \/ given'[s] = 0
                            \/ /\ given'[s] = cr[s].refund
                               /\ \/ cr[s].status = "completed"
                                  \/ \E v \in Workers : worker'[v].pc = "complete" /\ worker'[v].request = s
    BY <1>1 DEF NobodyDied
  <2>1. \A v \in Workers : (Executing(v))' => cr[worker'[v].request].status = "approved"
    BY <1>1, <1>3 DEF CancelInv, NobodyDied, Executing
  <2>2. given[r] = 0
    BY <1>1 DEF CancelInv, NobodyDied, OneExecutor, Executing
  <2>3. given'[r] = 0 \/ given'[r] = cr[r].refund
    BY <1>1, <1>2, <1>4, <2>2
  <2>4. \A s \in Requests : s # r => given'[s] = given[s]
    BY <1>2, <1>4
  <2> HIDE DEF r
  <2>5. ASSUME NEW s \in Requests, s # r
        PROVE  \/ given[s] = 0
               \/ /\ given[s] = cr[s].refund
                  /\ \/ cr[s].status = "completed"
                     \/ \E v \in Workers : worker'[v].pc = "complete" /\ worker'[v].request = s
    BY <1>1, <1>3, <2>5 DEF CancelInv, NobodyDied
  <2> QED BY <1>3, <2>1, <2>3, <2>4, <2>5
<1> QED BY <1>6, <1>7, <1>8, <1>9, <1>10 DEF CancelInv

\* The request is completed, or was withdrawn after its worker's claim ran out.
LEMMA CompleteStep ==
    ASSUME CancelInv, NEW w \in Workers, complete(w)
    PROVE  CancelInv'
<1> USE DEF CancellationStatus, OPEN_STATUSES
<1> DEFINE r == worker[w].request
<1>1. /\ cr \in [Requests -> RequestRow] /\ worker \in [Workers -> WorkerRow] /\ TypeOK
      /\ r \in Requests /\ worker[w].pc = "complete" /\ Executing(w) /\ ~live
      /\ UNCHANGED <<kind, live, auto, wanted, renewal, given, returned, crashes>>
  BY DEF CancelInv, TypeOK, WorkerRow, ClaimIsHeld, EndComesFirst, complete, Executing, service
<1>2. worker[w].tx \in BOOLEAN /\ cr[r].status \in CancellationStatus \cup {"none"}
  BY <1>1 DEF WorkerRow, RequestRow
<1>3. /\ worker' \in [Workers -> WorkerRow] /\ \A v \in Workers : v # w => worker'[v] = worker[v]
      /\ worker'[w].pc = "idle"
  BY <1>1, WorkerWrites DEF complete
<1>4. /\ cr' \in [Requests -> RequestRow]
      /\ \A s \in Requests : s # r => cr'[s] = cr[s]
      /\ \/ cr[r].status = "approved" /\ cr'[r].status = "completed" /\ cr'[r].refund = cr[r].refund
         \/ cr[r].status # "approved" /\ cr' = cr
  <2>1. CanTransition(r, "completed") <=> cr[r].status = "approved"
    BY <1>2 DEF CanTransition, TRANSITIONS
  <2>2. CASE cr[r].status = "approved"
    <3> DEFINE x == worker[w].tx
               new == Completed(cr[r], x)
    <3>1. cr' = [cr EXCEPT ![r] = new]
      BY <2>1, <2>2 DEF complete, Completed
    <3>2. x \in BOOLEAN
      BY <1>2
    <3> HIDE DEF x, r
    <3>3. new \in RequestRow /\ new.status = "completed" /\ new.refund = cr[r].refund
      BY <1>1, <3>2, CompletedRow
    <3> HIDE DEF new
    <3> QED BY <1>1, <2>2, <3>1, <3>3
  <2>3. CASE cr[r].status # "approved"
    BY <1>1, <2>1, <2>3 DEF complete
  <2> QED BY <2>2, <2>3
<1>5. \A v \in Workers : v # w /\ Executing(v) => worker[v].request # r
  BY <1>1 DEF CancelInv, OneExecutor
<1>6. crashes = 0 => cr[r].status = "approved"
  BY <1>1 DEF CancelInv, NobodyDied
<1>7. \A s \in Requests : s # r =>
         \A v \in Workers : worker[v].pc = "complete" /\ worker[v].request = s => v # w
  BY DEF Executing
<1> HIDE DEF r
<1>8. TypeOK'
  BY <1>1, <1>3, <1>4 DEF TypeOK, WorkerRow
<1>9. ClaimIsHeld' /\ OneExecutor'
  BY <1>1, <1>3, <1>4, <1>5 DEF CancelInv, ClaimIsHeld, OneExecutor, Executing
<1>10. EndComesFirst' /\ EndedFirst' /\ AutoRenewIsKept'
  BY <1>1 DEF EndComesFirst, EndedFirst, AutoRenewIsKept
<1>11. OneOpen' /\ BeforeIsWanted'
  BY <1>1, <1>4 DEF CancelInv, OneOpen, BeforeIsWanted
<1>12. NobodyDied'
  <2> SUFFICES ASSUME crashes = 0
               PROVE  /\ \A v \in Workers : (Executing(v))' => cr'[worker'[v].request].status = "approved"
                      /\ \A s \in Requests :
                            \/ given[s] = 0
                            \/ /\ given[s] = cr'[s].refund
                               /\ \/ cr'[s].status = "completed"
                                  \/ \E v \in Workers : worker'[v].pc = "complete" /\ worker'[v].request = s
    BY <1>1 DEF NobodyDied
  <2>1. \A v \in Workers : (Executing(v))' => cr'[worker'[v].request].status = "approved"
    BY <1>1, <1>3, <1>4, <1>5 DEF CancelInv, NobodyDied, ClaimIsHeld, Executing
  <2>2. given[r] = 0 \/ (given[r] = cr'[r].refund /\ cr'[r].status = "completed")
    BY <1>1, <1>4, <1>6 DEF CancelInv, NobodyDied
  <2>3. ASSUME NEW s \in Requests, s # r
        PROVE  \/ given[s] = 0
               \/ /\ given[s] = cr'[s].refund
                  /\ \/ cr'[s].status = "completed"
                     \/ \E v \in Workers : worker'[v].pc = "complete" /\ worker'[v].request = s
    BY <1>3, <1>4, <1>7, <2>3 DEF CancelInv, NobodyDied
  <2> QED BY <2>1, <2>2, <2>3
<1>13. NoInvoiceForEndingService'
  <2>1. Approved' \subseteq Approved
    BY <1>4 DEF Approved
  <2> QED BY <1>1, <2>1 DEF CancelInv, NoInvoiceForEndingService
<1> QED BY <1>8, <1>9, <1>10, <1>11, <1>12, <1>13 DEF CancelInv

\* Time passes: a claim and the worker that holds it grow older together.
LEMMA TickStep ==
    ASSUME CancelInv, Tick
    PROVE  CancelInv'
<1>1. /\ cr \in [Requests -> RequestRow] /\ worker \in [Workers -> WorkerRow] /\ TypeOK
      /\ UNCHANGED <<kind, live, auto, wanted, renewal, given, returned, crashes>>
  BY DEF CancelInv, TypeOK, WorkerRow, Tick, service
<1>2. \A s \in Requests : cr'[s] = IF FreshClaim(s) THEN Aged(cr[s]) ELSE cr[s]
  BY DEF Tick, Aged
<1>3. \A s \in Requests :
         /\ cr'[s] \in RequestRow /\ cr'[s].status = cr[s].status /\ cr'[s].refund = cr[s].refund
         /\ cr'[s].before = cr[s].before
         /\ FreshClaim(s) => cr'[s].claim = cr[s].claim + 1
  BY <1>1, <1>2, ClaimedRow DEF FreshClaim
<1>4. cr' \in [Requests -> RequestRow]
  BY <1>3 DEF Tick
<1>5. \A v \in Workers : worker'[v] = IF worker[v].pc = "idle" THEN worker[v] ELSE Older(worker[v])
  BY DEF Tick, Older
<1>6. \A v \in Workers :
         /\ worker'[v] \in WorkerRow /\ worker'[v].pc = worker[v].pc /\ worker'[v].request = worker[v].request
         /\ worker[v].pc # "idle" => worker'[v].age = worker[v].age + 1
  <2> SUFFICES ASSUME NEW v \in Workers
               PROVE  /\ worker'[v] \in WorkerRow /\ worker'[v].pc = worker[v].pc
                      /\ worker'[v].request = worker[v].request
                      /\ worker[v].pc # "idle" => worker'[v].age = worker[v].age + 1
    OBVIOUS
  <2>1. worker[v] \in WorkerRow
    BY <1>1
  <2>2. CASE worker[v].pc # "idle"
    <3> DEFINE row == Older(worker[v])
    <3>1. worker[v].age < WorkLimit /\ worker'[v] = row
      BY <1>5, <2>2 DEF Tick
    <3>2. row \in WorkerRow /\ row.pc = worker[v].pc /\ row.age = worker[v].age + 1
          /\ row.request = worker[v].request
      BY <2>1, <3>1, WorkerWrites
    <3> HIDE DEF row
    <3> QED BY <3>1, <3>2
  <2>3. CASE worker[v].pc = "idle"
    BY <1>5, <2>1, <2>3
  <2> QED BY <2>2, <2>3
<1>7. worker' \in [Workers -> WorkerRow]
  BY <1>6 DEF Tick
<1>8. TypeOK'
  BY <1>1, <1>4, <1>7 DEF TypeOK, WorkerRow
<1>9. ClaimIsHeld'
  <2> SUFFICES ASSUME NEW v \in Workers
               PROVE  /\ worker'[v].pc # "idle" => worker'[v].request \in Requests
                      /\ (Executing(v))' => cr'[worker'[v].request].claim = worker'[v].age
    BY DEF ClaimIsHeld
  <2>1. worker'[v].pc # "idle" => worker'[v].request \in Requests
    BY <1>6 DEF CancelInv, ClaimIsHeld
  <2>2. ASSUME Executing(v) PROVE cr'[worker'[v].request].claim = worker'[v].age
    BY <1>3, <1>6, <2>2, ExecutorsClaimIsFresh DEF CancelInv, ClaimIsHeld, Executing
  <2> QED BY <1>6, <2>1, <2>2 DEF Executing
<1>10. OneExecutor' /\ EndComesFirst'
  BY <1>1, <1>6 DEF CancelInv, OneExecutor, EndComesFirst, Executing
<1>11. EndedFirst' /\ OneOpen' /\ BeforeIsWanted'
  BY <1>1, <1>3 DEF CancelInv, EndedFirst, OneOpen, BeforeIsWanted
<1>12. NobodyDied'
  BY <1>1, <1>3, <1>6 DEF CancelInv, NobodyDied, Executing, ClaimIsHeld
<1>13. NoInvoiceForEndingService' /\ AutoRenewIsKept'
  <2>1. Approved' = Approved
    BY <1>3 DEF Approved
  <2> QED BY <1>1, <2>1 DEF CancelInv, NoInvoiceForEndingService, AutoRenewIsKept
<1> QED BY <1>8, <1>9, <1>10, <1>11, <1>12, <1>13 DEF CancelInv

----------------------------------------------------------------------------
\* With no request made and every worker idle CancelInv holds.
LEMMA CancelInit == Init => CancelInv
<1> SUFFICES ASSUME Init PROVE CancelInv
  OBVIOUS
<1> USE CancellationAssumption DEF Init, NoRequest, IdleWorker
<1>1. TypeOK
  BY DEF TypeOK, RequestRow, NotClaimed
<1>2. ClaimIsHeld /\ OneExecutor /\ EndComesFirst
  BY DEF ClaimIsHeld, OneExecutor, EndComesFirst, Executing
<1>3. EndedFirst /\ OneOpen /\ NobodyDied /\ BeforeIsWanted
  BY DEF EndedFirst, OneOpen, NobodyDied, BeforeIsWanted, Executing, OPEN_STATUSES
<1>4. NoInvoiceForEndingService /\ AutoRenewIsKept
  BY DEF NoInvoiceForEndingService, AutoRenewIsKept, Approved
<1> QED BY <1>1, <1>2, <1>3, <1>4 DEF CancelInv

\* Every operation of customers, staff, the daily job and the workers keeps it.
LEMMA CancelStep == ASSUME CancelInv, [Next]_vars PROVE CancelInv'
<1>1. CASE UNCHANGED vars
  BY <1>1 DEF vars, service, CancelInv, TypeOK, ClaimIsHeld, OneExecutor, EndComesFirst, EndedFirst, OneOpen,
              NobodyDied, NoInvoiceForEndingService, BeforeIsWanted, AutoRenewIsKept, Executing, Approved
<1>2. CASE ReviewNext
  BY <1>2, RequestStep, WithdrawStep, ApproveStep DEF ReviewNext
<1>3. CASE WorkNext
  BY <1>3, TurnStep, ClaimStep, EndStep, GiveRefundStep, CompleteStep
     DEF WorkNext, Work, run_due_cancellations, retry
<1> QED BY <1>1, <1>2, <1>3, RenewalStep, TickStep DEF Next

\* So it holds in every reachable state.
LEMMA CancelInvHolds == Spec => []CancelInv
BY CancelInit, CancelStep, PTL DEF Spec

\* "two workers never end it twice": at most one worker is past the claim of a
\* request, whatever dies, is retried or runs out in between.
THEOREM OneWorkerPerRequest == Spec => []OneExecutor
<1>1. CancelInv => OneExecutor
  BY DEF CancelInv
<1> QED BY <1>1, CancelInvHolds, PTL

\* What a request did to the service, its invoices and the money is what its
\* status says; in particular, while no worker dies a refund is given at most
\* once and a withdrawn request has done nothing.
THEOREM EffectsFollowStatus == Spec => []EffectsMatchStatus
<1>1. ASSUME CancelInv PROVE EffectsMatchStatus
  <2>1. \A r \in Requests : cr[r].refund \in Nat /\ given[r] \in Nat
    BY <1>1, CancellationAssumption DEF CancelInv, TypeOK, RequestRow
  <2>2. RefundedOnce
    <3> SUFFICES ASSUME crashes = 0, NEW r \in Requests PROVE given[r] <= cr[r].refund
      BY DEF RefundedOnce
    <3>1. given[r] = 0 \/ given[r] = cr[r].refund
      BY <1>1 DEF CancelInv, NobodyDied
    <3> QED BY <2>1, <3>1
  <2>3. WithdrawnHadNoEffect
    BY <1>1 DEF CancelInv, NobodyDied, WithdrawnHadNoEffect, Executing
  <2> QED BY <1>1, <2>2, <2>3 DEF CancelInv, EffectsMatchStatus
<1> QED BY <1>1, CancelInvHolds, PTL
=============================================================================
