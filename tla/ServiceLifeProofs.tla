-------------------------- MODULE ServiceLifeProofs --------------------------
(***************************************************************************)
(* Proofs about ServiceLife, for any number of changes, any term and any   *)
(* days of notice, suspension and termination.                             *)
(*                                                                         *)
(* The daily run and staff write the row from a copy, so what they write   *)
(* is justified only while the row still is the one they copied.  The      *)
(* invariant says what that gives: as long as nobody wrote while another   *)
(* held a copy and no call went unrecorded (crossed), the run's copy       *)
(* agrees with the row, the notice that precedes a suspension was sent in  *)
(* this run or stands in the database, and server and row agree whenever   *)
(* nobody is between the call and the write.                               *)
(***************************************************************************)
EXTENDS ServiceLife, FiniteSetTheorems, TLAPS

\* Nobody is paid further ahead than by the first term and what was bought.
PaidAhead == acct.left <= Term * (acct.term + 1)

TermsInv == TypeOK /\ TermsWerePaidFor /\ PaidAhead

\* The run goes by the row as it is: its copy is the row's, and the row has
\* the status the run looked for.
CopyStands ==
    /\ JobHolds => job.copy.left = acct.left /\ job.copy.term = acct.term
    /\ job.pc \in {"lapsed", "suspend", "save_suspended"} => acct.status = "active" /\ acct.left <= 0
    /\ job.pc \in {"end", "save_ended"} => acct.status = "suspended" /\ acct.suspended_for_nonpayment

\* Past the notice, either it exists or a reported payment kept it back, and
\* that payment keeps the suspension back as well.
NoticeStands ==
    /\ job.pc = "suspend" /\ DaysPast >= GraceAfter => noticed \/ payment_awaiting_confirmation
    /\ job.pc = "save_suspended" => noticed

\* The status the server was asked for, while it is not yet in the row.
Asked(op) ==
    CASE op = "suspend"   -> "suspended"
      [] op = "unsuspend" -> "active"
      [] op = "terminate" -> "gone"

\* Between the steps of a caller the server has what the row says, or nothing.
ServerAgrees ==
    /\ job.pc = "save_suspended" /\ staff.pc # "save" => srv.status \in {"suspended", "gone"}
    /\ job.pc # "save_suspended" /\ job.pc # "save_ended" /\ staff.pc = "save" =>
          srv.status \in {Asked(staff.op), "gone"}
    /\ job.pc # "save_suspended" /\ job.pc # "save_ended" /\ staff.pc # "save" =>
          srv.status \in {acct.status, "gone"}

\* What staff suspended is not marked as suspended for non-payment.
HoldIsStaffs == held => ~acct.suspended_for_nonpayment

Uncrossed == CopyStands /\ NoticeStands /\ ServerAgrees /\ HoldIsStaffs

FairInv ==
    /\ job.pc = "save_ended" => srv.status = "gone"
    /\ crossed \/ Uncrossed
    /\ PaidIsUp /\ WarnedFirst /\ StaffHoldStays

\* A backup the run asked for today was asked for by the run that has ended, so
\* the one a removal relies on is older, or another one.
BackupInv ==
    /\ job.pc # "idle" => ran
    /\ srv.backup = "today" => ran /\ job.pc = "idle"
    /\ acct.backup_requested => srv.backup # "none"
    /\ job.pc = "end" /\ job.copy.backup_requested => srv.backup \in {"other", "earlier"}

----------------------------------------------------------------------------
(* Rows and numbers.                                                        *)

WideRow == [status : HostingStatus, suspended_for_nonpayment : BOOLEAN, left : Int,
            term : Nat, plan : Plans, backup_requested : BOOLEAN]

LEMMA AccountRows ==
    /\ AccountRow \subseteq WideRow
    /\ \A a \in WideRow : a.left \in Floor..Ceiling /\ a.term \in 0..MaxChanges => a \in AccountRow
    /\ \A a \in AccountRow : a.left \in Floor..Ceiling /\ a.term \in 0..MaxChanges
<1>1. Floor \in Int /\ Ceiling \in Int BY ServiceLifeAssumption DEF Floor, Ceiling
<1>2. AccountRow \subseteq WideRow BY <1>1 DEF AccountRow, WideRow
<1>3. ASSUME NEW a \in WideRow, a.left \in Floor..Ceiling, a.term \in 0..MaxChanges
      PROVE  a \in AccountRow
    BY <1>3 DEF AccountRow, WideRow
<1>4. \A a \in AccountRow : a.left \in Floor..Ceiling /\ a.term \in 0..MaxChanges
    BY DEF AccountRow
<1> QED BY <1>2, <1>3, <1>4

LEMMA TermsAddUp ==
    ASSUME NEW t \in Nat, NEW n \in Nat, NEW m \in Nat
    PROVE  /\ t * (n + 1) + t = t * ((n + 1) + 1)
           /\ t * (n + 1) \in Int
           /\ n <= m => t * (n + 1) <= t * (m + 1)
           /\ t <= t * (n + 1)
<1>1. t * (n + 1) + t = t * ((n + 1) + 1) OBVIOUS
<1>2. n <= m => t * (n + 1) <= t * (m + 1) OBVIOUS
<1>3. t <= t * (n + 1) OBVIOUS
<1> QED BY <1>1, <1>2, <1>3

Flags == ran \in BOOLEAN /\ noticed \in BOOLEAN /\ history \in Histories

LEMMA Forgotten ==
    ASSUME history' = history
    PROVE  held' = held /\ crossed' = crossed /\ liftFailed' = liftFailed
BY DEF crossed, held, liftFailed

Rows ==
    /\ srv \in ServerAccount /\ change \in [Changes -> ChangeRow]
    /\ job \in [pc : JobSteps, copy : Copy] /\ staff \in [pc : {"idle", "call", "save"}, op : StaffOps]
    /\ Flags

LEMMA RowsOfType == TypeOK <=> acct \in AccountRow /\ Rows
BY DEF TypeOK, Rows, Flags

\* The changes that moved the end of the term.
Bought == {c \in Changes : change[c].status = "applied" /\ change[c].moved}

LEMMA BoughtIsBounded ==
    /\ IsFiniteSet(Bought) /\ Cardinality(Bought) \in Nat /\ Cardinality(Bought) <= MaxChanges
<1>1. IsFiniteSet(Changes) /\ Cardinality(Changes) = MaxChanges
    BY ServiceLifeAssumption, FS_Interval DEF Changes
<1>2. Bought \in SUBSET Changes BY DEF Bought
<1> QED BY <1>1, <1>2, FS_Subset, FS_CardinalityType

LEMMA BoughtIsBoundedNext == Cardinality(Bought') <= MaxChanges
<1>1. IsFiniteSet(Changes) /\ Cardinality(Changes) = MaxChanges
    BY ServiceLifeAssumption, FS_Interval DEF Changes
<1>2. Bought' \in SUBSET Changes BY DEF Bought
<1> QED BY <1>1, <1>2, FS_Subset

\* A row of change is rewritten.
LEMMA ChangeWritten ==
    ASSUME change \in [Changes -> ChangeRow], NEW c \in Changes, NEW new \in ChangeRow,
           change[c].status # "applied", change' = [change EXCEPT ![c] = new]
    PROVE  /\ change' \in [Changes -> ChangeRow]
           /\ Bought' = IF new.status = "applied" /\ new.moved THEN Bought \cup {c} ELSE Bought
           /\ Cardinality(Bought') = IF new.status = "applied" /\ new.moved THEN Cardinality(Bought) + 1
                                     ELSE Cardinality(Bought)
<1>1. change' \in [Changes -> ChangeRow] OBVIOUS
<1>2. \A d \in Changes : change'[d] = IF d = c THEN new ELSE change[d] OBVIOUS
<1>3. Bought' = IF new.status = "applied" /\ new.moved THEN Bought \cup {c} ELSE Bought
    BY <1>2 DEF Bought
<1>4. c \notin Bought BY DEF Bought
<1>5. IsFiniteSet(Bought) BY BoughtIsBounded
<1>6. Cardinality(Bought \cup {c}) = Cardinality(Bought) + 1 BY <1>4, <1>5, FS_AddElement
<1> QED BY <1>1, <1>3, <1>6

----------------------------------------------------------------------------
(* Invoicing.                                                               *)

\* What customers, staff and the daily job do to a change that is not applied.
Invoicing(c) ==
    \/ create_hosting_renewal(c) \/ generate_renewal_invoices(c) \/ create_upgrade(c)
    \/ report_payment(c) \/ reject_payment(c) \/ void_changes(c) \/ dismiss_change(c)

LEMMA InvoicingRow ==
    ASSUME TypeOK, NEW c \in Changes, Invoicing(c)
    PROVE  /\ UNCHANGED <<acct, srv, job, staff, ran, noticed>>
           /\ UNCHANGED history \/ Remember(JobHolds, history)
           /\ change[c].status # "applied"
           /\ \E new \in ChangeRow : new.status # "applied" /\ change' = [change EXCEPT ![c] = new]
<1>1. change \in [Changes -> ChangeRow] /\ change[c] \in ChangeRow BY DEF TypeOK
<1>2. acct.term \in 0..MaxChanges /\ 0 \in 0..MaxChanges
    BY AccountRows, ServiceLifeAssumption DEF TypeOK
<1>3. ASSUME NEW kind \in {"renewal", "upgrade"}, SaveChange(c, kind)
      PROVE  /\ change[c].status # "applied"
             /\ \E new \in ChangeRow : new.status # "applied" /\ change' = [change EXCEPT ![c] = new]
    <2> DEFINE expected == IF kind = "upgrade" THEN acct.term ELSE 0
               new == [NoChange EXCEPT !.kind = kind, !.status = "pending", !.expected = expected]
    <2>1. expected \in 0..MaxChanges BY <1>2
    <2>2. change[c].status = "none" /\ change' = [change EXCEPT ![c] = new] BY <1>3 DEF SaveChange
    <2> HIDE DEF expected
    <2>3. new \in ChangeRow /\ new.status = "pending" BY <2>1 DEF NoChange, ChangeRow, ChangeStatus
    <2> HIDE DEF new
    <2> QED BY <2>2, <2>3
<1>4. ASSUME NEW b \in BOOLEAN, change[c].status = "pending", change' = [change EXCEPT ![c].reported = b]
      PROVE  \E new \in ChangeRow : new.status # "applied" /\ change' = [change EXCEPT ![c] = new]
    <2> DEFINE new == [change[c] EXCEPT !.reported = b]
    <2>1. new \in ChangeRow /\ new.status = "pending" BY <1>1, <1>4 DEF ChangeRow
    <2>2. change' = [change EXCEPT ![c] = new] BY <1>1, <1>4
    <2> HIDE DEF new
    <2> QED BY <2>1, <2>2
<1>5. Void \in ChangeRow /\ Void.status = "void"
    BY <1>2 DEF Void, NoChange, ChangeRow, ChangeStatus
<1>6. CASE create_hosting_renewal(c) \/ generate_renewal_invoices(c) \/ create_upgrade(c)
    <2>1. PICK kind \in {"renewal", "upgrade"} : SaveChange(c, kind)
        BY <1>6 DEF create_hosting_renewal, generate_renewal_invoices, create_upgrade
    <2> QED BY <1>3, <2>1 DEF SaveChange
<1>7. CASE report_payment(c) BY <1>4, <1>7 DEF report_payment
<1>8. CASE reject_payment(c) BY <1>4, <1>8 DEF reject_payment
<1>9. CASE void_changes(c) \/ dismiss_change(c) BY <1>5, <1>9 DEF void_changes, dismiss_change
<1> QED BY <1>6, <1>7, <1>8, <1>9 DEF Invoicing

----------------------------------------------------------------------------
(* A paid change.                                                           *)

LEMMA ExtendedRow ==
    ASSUME NEW a \in WideRow
    PROVE  /\ Extended(a) \in WideRow
           /\ Extended(a).left = (IF a.left > 0 THEN a.left + Term ELSE Term)
           /\ Extended(a).term = a.term + 1 /\ Extended(a).status = a.status
           /\ Extended(a).suspended_for_nonpayment = a.suspended_for_nonpayment
           /\ Extended(a).backup_requested = a.backup_requested
<1> DEFINE left == IF a.left > 0 THEN a.left + Term ELSE Term
<1>1. left \in Int BY ServiceLifeAssumption DEF WideRow
<1>2. Extended(a) = [a EXCEPT !.left = left, !.term = a.term + 1] BY DEF Extended, WideRow
<1>3. a.term + 1 \in Nat BY DEF WideRow
<1> HIDE DEF left
<1>4. Extended(a) \in WideRow /\ Extended(a).left = left BY <1>1, <1>2, <1>3 DEF WideRow
<1> QED BY <1>2, <1>4 DEF left, WideRow

LEMMA ActiveRow ==
    ASSUME NEW a \in WideRow
    PROVE  /\ Active(a) \in WideRow /\ Active(a).left = a.left /\ Active(a).term = a.term
           /\ Active(a).status = "active" /\ ~Active(a).suspended_for_nonpayment
           /\ Active(a).backup_requested = a.backup_requested
BY DEF Active, WideRow, HostingStatus

\* The end of the term moves by a whole term or stays.
Moves == acct'.left = (IF acct.left > 0 THEN acct.left + Term ELSE Term) /\ acct'.term = acct.term + 1
Stays == acct'.left = acct.left /\ acct'.term = acct.term

LEMMA ApplyRow ==
    ASSUME TypeOK, NEW c \in Changes, apply(c), change[c].status \in {"pending", "failed"}
    PROVE  /\ acct' \in WideRow /\ acct'.backup_requested = acct.backup_requested
           /\ \E new \in ChangeRow :
                 /\ change' = [change EXCEPT ![c] = new]
                 /\ IF new.status = "applied" /\ new.moved THEN Moves ELSE Stays
<1>1. change \in [Changes -> ChangeRow] /\ change[c] \in ChangeRow /\ acct \in WideRow
    BY AccountRows DEF TypeOK
<1>2. CASE ApplyFails(c)
    <2> DEFINE new == [change[c] EXCEPT !.status = "failed", !.reported = FALSE]
    <2>1. new \in ChangeRow /\ new.status = "failed" BY <1>1 DEF ChangeRow, ChangeStatus
    <2>2. change' = [change EXCEPT ![c] = new] /\ acct' = acct BY <1>1, <1>2 DEF ApplyFails
    <2> HIDE DEF new
    <2> QED BY <1>1, <2>1, <2>2 DEF Stays
<1>3. ASSUME NEW m \in BOOLEAN, Applied(c, m)
      PROVE  \E new \in ChangeRow : /\ change' = [change EXCEPT ![c] = new]
                                    /\ new.status = "applied" /\ new.moved = m
    <2> DEFINE new == [change[c] EXCEPT !.status = "applied", !.reported = FALSE, !.moved = m]
    <2>1. new \in ChangeRow /\ new.status = "applied" /\ new.moved = m BY <1>1 DEF ChangeRow, ChangeStatus
    <2>2. change' = [change EXCEPT ![c] = new] BY <1>1, <1>3 DEF Applied
    <2> HIDE DEF new
    <2> QED BY <2>1, <2>2
<1>4. CASE apply_renewal(c)
    <2>1. acct' = Extended(acct) \/ acct' = Active(Extended(acct)) BY <1>4 DEF apply_renewal
    <2>2. Extended(acct) \in WideRow BY <1>1, ExtendedRow
    <2>3. acct' \in WideRow /\ acct'.backup_requested = acct.backup_requested /\ Moves
        BY <1>1, <2>1, <2>2, ExtendedRow, ActiveRow DEF Moves
    <2>4. Applied(c, TRUE) BY <1>4 DEF apply_renewal
    <2> QED BY <1>3, <2>3, <2>4
<1>5. CASE apply_upgrade(c)
    <2> DEFINE base == IF acct.left > 0 THEN acct ELSE Extended(acct)
    <2>1. acct' = [base EXCEPT !.plan = "large"] /\ Applied(c, acct.left <= 0) BY <1>5 DEF apply_upgrade
    <2>2. base \in WideRow /\ base.backup_requested = acct.backup_requested BY <1>1, ExtendedRow
    <2>3. acct.left \in Int BY <1>1 DEF WideRow
    <2>4. acct.left > 0 => base = acct OBVIOUS
    <2>5. acct.left <= 0 => base.left = Term /\ base.term = acct.term + 1 BY <1>1, <2>3, ExtendedRow
    <2> HIDE DEF base
    <2>6. /\ acct' \in WideRow /\ acct'.backup_requested = acct.backup_requested
          /\ acct'.left = base.left /\ acct'.term = base.term
        BY <2>1, <2>2 DEF WideRow, Plans
    <2>7. IF acct.left <= 0 THEN Moves ELSE Stays BY <2>3, <2>4, <2>5, <2>6 DEF Moves, Stays
    <2>8. PICK new \in ChangeRow : /\ change' = [change EXCEPT ![c] = new]
                                   /\ new.status = "applied" /\ new.moved = (acct.left <= 0)
        <3> DEFINE m == acct.left <= 0
        <3>1. m \in BOOLEAN BY <2>3
        <3>2. Applied(c, m) BY <2>1
        <3> HIDE DEF m
        <3>3. \E new \in ChangeRow : /\ change' = [change EXCEPT ![c] = new]
                                     /\ new.status = "applied" /\ new.moved = m
            BY <1>3, <3>1, <3>2
        <3> QED BY <3>3 DEF m
    <2> QED BY <2>6, <2>7, <2>8
<1> QED BY <1>2, <1>4, <1>5 DEF apply

----------------------------------------------------------------------------
(* Terms.                                                                   *)

\* A day passes.
Shortens == acct'.left = acct.left - 1 /\ acct.left > Floor /\ acct'.term = acct.term

\* Whatever a step writes, the term it leaves is within what was bought.
LEMMA TermsKept ==
    ASSUME TermsInv, Rows', acct' \in WideRow,
           \/ (Stays \/ Shortens) /\ Cardinality(Bought') = Cardinality(Bought)
           \/ Moves /\ Cardinality(Bought') = Cardinality(Bought) + 1
    PROVE  TermsInv'
<1>1. /\ acct \in WideRow /\ acct.left \in Floor..Ceiling /\ acct.term \in 0..MaxChanges
      /\ acct.left \in Int /\ acct.term \in Nat
    BY AccountRows DEF TermsInv, TypeOK, WideRow
<1>2. acct.term = Cardinality(Bought) /\ acct.left <= Term * (acct.term + 1)
    BY DEF TermsInv, TermsWerePaidFor, Bought, PaidAhead
<1>3. acct'.term = Cardinality(Bought') BY <1>1, <1>2 DEF Stays, Shortens, Moves
<1>4. acct'.term \in 0..MaxChanges
    <2>1. acct'.term \in Nat BY DEF WideRow
    <2> QED BY <1>3, <2>1, BoughtIsBoundedNext, ServiceLifeAssumption
<1>5. Term \in Nat /\ Term > 0 /\ MaxChanges \in Nat /\ Floor \in Int /\ Floor <= 0
    BY ServiceLifeAssumption DEF Floor
<1>6. /\ Term * (acct.term + 1) + Term = Term * ((acct.term + 1) + 1)
      /\ Term * (acct.term + 1) \in Int /\ Term <= Term * (acct.term + 1)
    BY <1>1, <1>5, TermsAddUp
<1>7. acct'.left \in Int /\ Floor <= acct'.left /\ acct'.left <= Term * (acct'.term + 1)
    <2>1. CASE Stays BY <1>1, <1>2, <1>5, <2>1 DEF Stays
    <2>2. CASE Shortens
        <3>1. acct'.left \in Int /\ Floor <= acct'.left /\ acct'.left <= acct.left
            BY <1>1, <1>5, <2>2 DEF Shortens
        <3>2. acct'.term = acct.term BY <2>2 DEF Shortens
        <3> HIDE DEF Shortens
        <3> QED BY <1>1, <1>2, <1>6, <3>1, <3>2
    <2>3. CASE Moves
        <3>1. acct'.term = acct.term + 1 BY <2>3 DEF Moves
        <3>2. acct'.left \in Int /\ acct'.left > 0 BY <1>1, <1>5, <2>3 DEF Moves
        <3>3. acct'.left <= Term * (acct.term + 1) + Term BY <1>1, <1>2, <1>5, <1>6, <2>3 DEF Moves
        <3> QED BY <1>5, <1>6, <3>1, <3>2, <3>3
    <2> QED BY <2>1, <2>2, <2>3
<1>8. acct'.left <= Ceiling /\ Ceiling \in Int
    <2>1. Term * (acct'.term + 1) <= Ceiling /\ Ceiling \in Int /\ Term * (acct'.term + 1) \in Int
        BY <1>4, <1>5, TermsAddUp DEF Ceiling
    <2> QED BY <1>7, <2>1
<1>9. acct' \in AccountRow BY <1>4, <1>5, <1>7, <1>8, AccountRows
<1>10. TypeOK' BY <1>9 DEF TypeOK, Rows, Flags
<1> QED BY <1>3, <1>7, <1>10 DEF TermsInv, TermsWerePaidFor, Bought, PaidAhead

LEMMA CopyRow ==
    ASSUME TypeOK
    PROVE  /\ NoCopy \in Copy /\ Loaded(acct) \in Copy
           /\ Loaded(acct).left = acct.left /\ Loaded(acct).term = acct.term
           /\ Loaded(acct).backup_requested = acct.backup_requested
<1>1. 0 \in Floor..Ceiling /\ 0 \in 0..MaxChanges
    <2>1. Ceiling \in Nat
        <3>1. Term * (MaxChanges + 1) \in Int /\ Term <= Term * (MaxChanges + 1)
            BY ServiceLifeAssumption, TermsAddUp
        <3> QED BY <3>1, ServiceLifeAssumption DEF Ceiling
    <2> QED BY <2>1, ServiceLifeAssumption DEF Floor
<1> QED BY <1>1 DEF TypeOK, AccountRow, NoCopy, Loaded, Copy

\* The daily run and the day.
LEMMA JobRows ==
    ASSUME TypeOK, Job
    PROVE  Rows' /\ acct' \in WideRow /\ Stays /\ UNCHANGED change
<1>1. Rows /\ acct \in WideRow BY RowsOfType, AccountRows
<1>2. job.pc \in JobSteps /\ job.copy \in Copy BY <1>1 DEF Rows
<1>3. \A pc \in JobSteps : [job EXCEPT !.pc = pc] \in [pc : JobSteps, copy : Copy] BY <1>1 DEF Rows
<1>4. \A pc \in JobSteps : [pc |-> pc, copy |-> NoCopy] \in [pc : JobSteps, copy : Copy]
    BY CopyRow
<1>5. \A pc \in JobSteps : [pc |-> pc, copy |-> Loaded(acct)] \in [pc : JobSteps, copy : Copy]
    BY CopyRow
<1>6. job' \in [pc : JobSteps, copy : Copy]
    <2>1. \/ \E pc \in JobSteps : Goto(pc) \/ Leave(pc)
          \/ \E pc \in JobSteps : job' = [pc |-> pc, copy |-> Loaded(acct)]
        <3>1. CASE JobStart BY <3>1 DEF JobStart, Leave, JobSteps
        <3>2. CASE JobStale BY <3>2 DEF JobStale, Leave, JobSteps
        <3>3. CASE JobNotSaved BY <3>3 DEF JobNotSaved, JobSteps
        <3>4. CASE JobNotice \/ JobSuspend \/ JobNoSuspend \/ JobSaveSuspended \/ JobEnd \/ JobSaveEnd
            BY <3>4 DEF JobNotice, JobSuspend, JobNoSuspend, JobSaveSuspended, JobEnd, JobSaveEnd, JobSteps
        <3> QED BY <3>1, <3>2, <3>3, <3>4 DEF Job
    <2> QED BY <1>3, <1>4, <1>5, <2>1 DEF Goto, Leave
<1>7. srv' \in ServerAccount
    <2>1. [srv EXCEPT !.status = "suspended"] \in ServerAccount /\ [srv EXCEPT !.status = "gone"] \in ServerAccount
          /\ [srv EXCEPT !.backup = "today"] \in ServerAccount
        BY <1>1 DEF Rows, ServerAccount
    <2> QED BY <1>1, <2>1
        DEF Job, JobStart, JobNotice, JobSuspend, JobNoSuspend, JobSaveSuspended, JobStale, JobEnd, JobSaveEnd,
            JobNotSaved, Rows
<1>8. acct' \in WideRow /\ Stays
    <2>1. \/ acct' = acct \/ acct' = [acct EXCEPT !.status = "suspended", !.suspended_for_nonpayment = TRUE]
          \/ acct' = [acct EXCEPT !.backup_requested = TRUE] \/ acct' = [acct EXCEPT !.status = "terminated"]
        BY DEF Job, JobStart, JobNotice, JobSuspend, JobNoSuspend, JobSaveSuspended, JobStale, JobEnd, JobSaveEnd,
               JobNotSaved, BackupRecorded
    <2> QED BY <1>1, <2>1 DEF WideRow, HostingStatus, Stays
<1>9. /\ UNCHANGED <<staff, change>>
      /\ ran' = ran \/ ran' = TRUE
      /\ noticed' = noticed \/ noticed' = (noticed \/ (send_grace_notice /\ acct.term = job.copy.term))
      /\ history' = history \/ history' = "crossed"
    BY DEF Job, JobStart, JobNotice, JobSuspend, JobNoSuspend, JobSaveSuspended, JobStale, JobEnd, JobSaveEnd,
           JobNotSaved, Remember, crossed
<1>10. Flags' BY <1>1, <1>9 DEF Rows, Flags, Histories
<1> QED BY <1>1, <1>6, <1>7, <1>8, <1>9, <1>10 DEF Rows

LEMMA DayRows ==
    ASSUME TypeOK, NextDay
    PROVE  Rows' /\ acct' \in WideRow /\ (Stays \/ Shortens) /\ UNCHANGED change
<1>1. Rows /\ acct \in WideRow BY RowsOfType, AccountRows
<1> DEFINE left == IF acct.left > Floor THEN acct.left - 1 ELSE acct.left
<1>2. left \in Int BY <1>1 DEF WideRow
<1>3. acct' = [acct EXCEPT !.left = left] BY DEF NextDay
<1>4. left = acct.left \/ (left = acct.left - 1 /\ acct.left > Floor) OBVIOUS
<1> HIDE DEF left
<1>5. acct' \in WideRow /\ (Stays \/ Shortens) BY <1>1, <1>2, <1>3, <1>4 DEF WideRow, Stays, Shortens
<1>6. srv' \in ServerAccount
    <2> DEFINE backup == IF srv.backup = "today" THEN "earlier" ELSE srv.backup
    <2>1. backup \in {"none", "other", "today", "earlier"} BY <1>1 DEF Rows, ServerAccount
    <2>2. srv' = [srv EXCEPT !.backup = backup] BY DEF NextDay
    <2> HIDE DEF backup
    <2> QED BY <1>1, <2>1, <2>2 DEF Rows, ServerAccount
<1> QED BY <1>1, <1>5, <1>6 DEF NextDay, Rows, Flags

\* Staff.
StaffNext ==
    \/ \E op \in StaffOps : StaffLoad(op)
    \/ StaffCall \/ StaffFails \/ StaffSave \/ StaffNotSaved \/ sync_status \/ backup_account

LEMMA StaffRows ==
    ASSUME TypeOK, StaffNext
    PROVE  Rows' /\ acct' \in WideRow /\ Stays /\ UNCHANGED change
<1>1. Rows /\ acct \in WideRow BY RowsOfType, AccountRows
<1>2. staff.op \in StaffOps BY <1>1 DEF Rows
<1>3. staff' \in [pc : {"idle", "call", "save"}, op : StaffOps]
    <2>1. IdleStaff \in [pc : {"idle", "call", "save"}, op : StaffOps] BY DEF IdleStaff, StaffOps
    <2>2. \A op \in StaffOps : [IdleStaff EXCEPT !.pc = "call", !.op = op] \in [pc : {"idle", "call", "save"}, op : StaffOps]
        BY <2>1
    <2>3. [staff EXCEPT !.pc = "save"] \in [pc : {"idle", "call", "save"}, op : StaffOps] BY <1>1 DEF Rows
    <2>4. CASE \E op \in StaffOps : StaffLoad(op) BY <2>2, <2>4 DEF StaffLoad
    <2>5. CASE StaffCall BY <2>3, <2>5 DEF StaffCall
    <2>6. CASE StaffFails \/ StaffSave \/ StaffNotSaved BY <2>1, <2>6 DEF StaffFails, StaffSave, StaffNotSaved
    <2>7. CASE sync_status \/ backup_account BY <1>1, <2>7 DEF sync_status, backup_account, Rows
    <2> QED BY <2>4, <2>5, <2>6, <2>7 DEF StaffNext
<1>4. srv' \in ServerAccount
    <2>1. \/ srv' = srv \/ \E x \in {"active", "suspended", "gone"} : srv' = [srv EXCEPT !.status = x]
          \/ \E x \in {"other", "earlier"} : srv' = [srv EXCEPT !.backup = x]
        <3>1. CASE backup_account
            <4> DEFINE x == IF srv.backup = "earlier" THEN srv.backup ELSE "other"
            <4>1. x \in {"other", "earlier"} /\ srv' = [srv EXCEPT !.backup = x] BY <3>1 DEF backup_account
            <4> HIDE DEF x
            <4> QED BY <4>1
        <3>2. CASE StaffCall BY <1>2, <3>2 DEF StaffCall, StaffOps
        <3>3. CASE \E op \in StaffOps : StaffLoad(op) BY <3>3 DEF StaffLoad
        <3>4. CASE StaffFails \/ StaffSave \/ StaffNotSaved \/ sync_status
            BY <3>4 DEF StaffFails, StaffSave, StaffNotSaved, sync_status
        <3> QED BY <3>1, <3>2, <3>3, <3>4 DEF StaffNext
    <2> QED BY <1>1, <2>1 DEF Rows, ServerAccount
<1>5. acct' \in WideRow /\ Stays
    <2>1. \/ acct' = acct \/ acct' = [acct EXCEPT !.status = "suspended", !.suspended_for_nonpayment = FALSE]
          \/ acct' = Active(acct) \/ acct' = [acct EXCEPT !.status = "terminated"]
          \/ acct' = [acct EXCEPT !.backup_requested = TRUE]
          \/ srv.status # "gone" /\ acct' = [acct EXCEPT !.status = srv.status]
        BY <1>2 DEF StaffNext, StaffLoad, StaffCall, StaffFails, StaffSave, StaffNotSaved, sync_status, backup_account, BackupRecorded, StaffOps
    <2>2. srv.status # "gone" => srv.status \in HostingStatus BY <1>1 DEF Rows, ServerAccount, HostingStatus
    <2>3. CASE acct' = Active(acct) BY <1>1, <2>3, ActiveRow DEF Stays
    <2>4. CASE srv.status # "gone" /\ acct' = [acct EXCEPT !.status = srv.status]
        BY <1>1, <2>2, <2>4 DEF WideRow, Stays
    <2> QED BY <1>1, <2>1, <2>3, <2>4 DEF WideRow, HostingStatus, Stays
<1>6. /\ UNCHANGED <<job, ran, noticed, change>>
      /\ history' \in {history, "crossed", "held", "plain"}
    <2>1. CASE StaffCall BY <2>1 DEF StaffCall, Remember
    <2>2. CASE StaffSave BY <2>2 DEF StaffSave, Remember
    <2>3. CASE StaffNotSaved \/ sync_status BY <2>3 DEF StaffNotSaved, sync_status, Remember
    <2>4. CASE \E op \in StaffOps : StaffLoad(op) BY <2>4 DEF StaffLoad
    <2>5. CASE StaffFails \/ backup_account BY <2>5 DEF StaffFails, backup_account
    <2> QED BY <2>1, <2>2, <2>3, <2>4, <2>5 DEF StaffNext
<1> QED BY <1>1, <1>3, <1>4, <1>5, <1>6 DEF Rows, Flags, Histories

LEMMA PastServer ==
    ASSUME srv \in ServerAccount
    PROVE  /\ OfThePast(srv) \in ServerAccount /\ OfThePast(srv).status = srv.status
           /\ [OfThePast(srv) EXCEPT !.status = "active"] \in ServerAccount
           /\ [OfThePast(srv) EXCEPT !.status = "active"].status = "active"
           /\ [OfThePast(srv) EXCEPT !.status = "active"].backup = OfThePast(srv).backup
           /\ OfThePast(srv).backup = IF srv.backup = "none" THEN "none" ELSE "other"
BY DEF OfThePast, ServerAccount

LEMMA ApplyRows ==
    ASSUME TypeOK, NEW c \in Changes, apply(c), change' \in [Changes -> ChangeRow]
    PROVE  Rows'
<1>1. Rows BY RowsOfType
<1>2. srv' \in {srv, OfThePast(srv), [OfThePast(srv) EXCEPT !.status = "active"]}
    BY DEF apply, apply_renewal, apply_upgrade, ApplyFails
<1>3. srv' \in ServerAccount BY <1>1, <1>2, PastServer DEF Rows
<1>4. UNCHANGED <<job, staff, ran>> BY DEF apply
<1>5. noticed' \in BOOLEAN /\ history' \in Histories
    <2>1. CASE apply_renewal(c) BY <1>1, <2>1 DEF apply_renewal, Rows, Flags, Remember, Histories
    <2>2. CASE apply_upgrade(c) BY <1>1, <2>2 DEF apply_upgrade, Rows, Flags, Remember, Histories
    <2>3. CASE ApplyFails(c) BY <1>1, <2>3 DEF ApplyFails, Rows, Flags, Remember, Histories
    <2> QED BY <2>1, <2>2, <2>3 DEF apply
<1> QED BY <1>1, <1>3, <1>4, <1>5 DEF Rows, Flags

LEMMA RolledBack ==
    ASSUME TypeOK, NEW c \in Changes, LiftRolledBack(c)
    PROVE  /\ UNCHANGED <<acct, change, job, staff, ran, noticed>> /\ history' = "crossed"
           /\ srv' \in ServerAccount /\ srv'.backup = srv.backup /\ srv.status # "gone"
BY DEF LiftRolledBack, Remember, TypeOK, ServerAccount

LEMMA NextGroups ==
    ASSUME [Next]_vars
    PROVE  \/ \E c \in Changes : Invoicing(c) \/ apply_paid_invoice(c) \/ retry_change(c) \/ LiftRolledBack(c)
           \/ Job \/ NextDay \/ StaffNext \/ UNCHANGED vars
BY DEF Next, Invoicing, StaffNext

LEMMA TermsStep ==
    ASSUME TermsInv, [Next]_vars
    PROVE  TermsInv'
<1>1. TypeOK /\ Rows /\ acct \in WideRow BY RowsOfType, AccountRows DEF TermsInv
<1>2. change \in [Changes -> ChangeRow] BY <1>1 DEF Rows
<1>3. ASSUME NEW c \in Changes, Invoicing(c) PROVE TermsInv'
    <2>1. /\ UNCHANGED <<acct, srv, job, staff, ran, noticed>>
          /\ UNCHANGED history \/ Remember(JobHolds, history)
          /\ change[c].status # "applied"
        BY <1>1, <1>3, InvoicingRow
    <2>2. PICK new \in ChangeRow : new.status # "applied" /\ change' = [change EXCEPT ![c] = new]
        BY <1>1, <1>3, InvoicingRow
    <2>3. change' \in [Changes -> ChangeRow] /\ Cardinality(Bought') = Cardinality(Bought)
        BY <1>2, <2>1, <2>2, ChangeWritten
    <2>4. Rows' BY <1>1, <2>1, <2>3 DEF Rows, Flags, Remember, Histories
    <2> QED BY <1>1, <2>1, <2>3, <2>4, TermsKept DEF Stays
<1>4. ASSUME NEW c \in Changes, apply_paid_invoice(c) \/ retry_change(c) PROVE TermsInv'
    <2>1. apply(c) /\ change[c].status \in {"pending", "failed"} BY <1>4 DEF apply_paid_invoice, retry_change
    <2>2. acct' \in WideRow BY <1>1, <2>1, ApplyRow
    <2>3. PICK new \in ChangeRow : /\ change' = [change EXCEPT ![c] = new]
                                   /\ IF new.status = "applied" /\ new.moved THEN Moves ELSE Stays
        BY <1>1, <2>1, ApplyRow
    <2>4. /\ change' \in [Changes -> ChangeRow]
          /\ Cardinality(Bought') = IF new.status = "applied" /\ new.moved THEN Cardinality(Bought) + 1
                                    ELSE Cardinality(Bought)
        BY <1>2, <2>1, <2>3, ChangeWritten
    <2>5. Rows' BY <1>1, <2>1, <2>4, ApplyRows
    <2> QED BY <2>2, <2>3, <2>4, <2>5, TermsKept
<1>5. CASE Job \/ NextDay \/ StaffNext
    <2>1. Rows' /\ acct' \in WideRow /\ (Stays \/ Shortens) /\ UNCHANGED change
        BY <1>1, <1>5, JobRows, DayRows, StaffRows
    <2>2. Cardinality(Bought') = Cardinality(Bought) BY <2>1 DEF Bought
    <2> QED BY <2>1, <2>2, TermsKept
<1>6. CASE UNCHANGED vars
    <2>1. Rows' /\ acct' \in WideRow /\ Stays BY <1>1, <1>6 DEF vars, Rows, Flags, Stays
    <2>2. Cardinality(Bought') = Cardinality(Bought) BY <1>6 DEF vars, Bought
    <2> QED BY <2>1, <2>2, TermsKept
<1>7. ASSUME NEW c \in Changes, LiftRolledBack(c) PROVE TermsInv'
    <2>1. Rows' /\ acct' \in WideRow /\ Stays BY <1>1, <1>7, RolledBack DEF Rows, Flags, Histories, Stays
    <2>2. Cardinality(Bought') = Cardinality(Bought) BY <1>1, <1>7, RolledBack DEF Bought
    <2> QED BY <2>1, <2>2, TermsKept
<1> QED BY <1>3, <1>4, <1>5, <1>6, <1>7, NextGroups

LEMMA TermsStart ==
    ASSUME Init
    PROVE  TermsInv
<1>1. Bought = {} BY DEF Init, NoChange, Bought
<1>2. Cardinality(Bought) = 0 BY <1>1, FS_EmptySet
<1>3. acct.term = 0 /\ acct.left = Term BY DEF Init
<1>4. Term * (MaxChanges + 1) \in Int /\ Term <= Term * (MaxChanges + 1) /\ Term <= Term * (0 + 1)
    BY ServiceLifeAssumption, TermsAddUp
<1>5. 0 \in 0..MaxChanges /\ 0 \in Floor..Ceiling /\ Term \in Floor..Ceiling
    BY <1>4, ServiceLifeAssumption DEF Floor, Ceiling
<1>6. acct \in AccountRow BY <1>5 DEF Init, AccountRow, HostingStatus, Plans
<1>7. NoChange \in ChangeRow BY <1>5 DEF NoChange, ChangeRow, ChangeStatus
<1>8. Rows BY <1>5, <1>7
    DEF Init, Rows, Flags, ServerAccount, JobSteps, NoCopy, Copy, IdleStaff, StaffOps, Histories
<1>9. TypeOK BY <1>6, <1>8, RowsOfType
<1> QED BY <1>2, <1>3, <1>4, <1>9 DEF TermsInv, TermsWerePaidFor, Bought, PaidAhead

\* Every change of the paid-through date was bought by a change that is applied
\* once, whatever is paid, retried, voided or dismissed meanwhile, and the rows
\* keep their types: no account is paid further ahead than was bought.
THEOREM TermsInvariant == Spec => []TermsInv
<1> QED BY TermsStart, TermsStep, PTL DEF Spec

\* No payment is applied twice (apply_paid_invoice, retry_change).
THEOREM NoTermForNothing == Spec => []TermsWerePaidFor
<1>1. TermsInv => TermsWerePaidFor BY DEF TermsInv
<1> QED BY <1>1, TermsInvariant, PTL

----------------------------------------------------------------------------
(* Suspensions.                                                             *)

\* After a crossing nothing is claimed of the row.
LEMMA CrossedIsOver ==
    ASSUME crossed', (job.pc = "save_ended" => srv.status = "gone")'
    PROVE  FairInv'
BY DEF FairInv, PaidIsUp, WarnedFirst, StaffHoldStays

LEMMA InvoicingIsFair ==
    ASSUME TypeOK, FairInv, NEW c \in Changes, Invoicing(c)
    PROVE  FairInv'
<1>1. /\ UNCHANGED <<acct, srv, job, staff, ran, noticed>>
      /\ crossed' = crossed \/ crossed' = (crossed \/ JobHolds)
      /\ ~crossed' => (held' <=> held) /\ (liftFailed' <=> liftFailed)
    BY InvoicingRow, Forgotten DEF Remember, crossed, held, liftFailed
<1>2. CASE crossed' BY <1>1, <1>2, CrossedIsOver DEF FairInv
<1>3. CASE ~crossed'
    <2>0. ~crossed BY <1>1, <1>3, Zenon
    <2>1. ~crossed /\ Uncrossed BY <2>0 DEF FairInv
    <2>2. job.pc = "suspend" /\ payment_awaiting_confirmation => payment_awaiting_confirmation'
        <3> SUFFICES ASSUME job.pc = "suspend", payment_awaiting_confirmation
                     PROVE  payment_awaiting_confirmation'
            OBVIOUS
        <3>1. ~reject_payment(c) /\ ~void_changes(c)
            BY <1>3 DEF reject_payment, void_changes, JobHolds, Remember, crossed
        <3>2. PICK d \in Changes : change[d].status = "pending" /\ change[d].reported
            BY DEF payment_awaiting_confirmation
        <3>3. change \in [Changes -> ChangeRow] BY DEF TypeOK
        <3>4. change'[d].status = "pending" /\ change'[d].reported
            BY <3>1, <3>2, <3>3
            DEF Invoicing, create_hosting_renewal, generate_renewal_invoices, create_upgrade, SaveChange,
                report_payment, dismiss_change
        <3> QED BY <3>4 DEF payment_awaiting_confirmation
    <2>3. Uncrossed'
        BY <1>1, <1>3, <2>1, <2>2
        DEF Uncrossed, CopyStands, NoticeStands, ServerAgrees, HoldIsStaffs, JobHolds, DaysPast, Asked
    <2> QED BY <1>1, <1>3, <2>1, <2>3 DEF FairInv, PaidIsUp, WarnedFirst, StaffHoldStays
<1> QED BY <1>2, <1>3

\* A payment: it lifts the suspension, or the server refused.
LEMMA ApplyIsFair ==
    ASSUME TypeOK, FairInv, NEW c \in Changes, apply(c)
    PROVE  FairInv'
<1>1. UNCHANGED <<job, staff, ran>> /\ (crossed \/ JobHolds \/ StaffHolds => crossed')
    <2>1. CASE apply_renewal(c) BY <2>1 DEF apply, apply_renewal, Copied, Remember, crossed
    <2>2. CASE apply_upgrade(c) BY <2>2 DEF apply, apply_upgrade, Copied, Remember, crossed
    <2>3. CASE ApplyFails(c) BY <2>3 DEF apply, ApplyFails, Copied, Remember, crossed
    <2> QED BY <2>1, <2>2, <2>3 DEF apply
<1>2. CASE crossed'
    <2>1. srv \in ServerAccount BY DEF TypeOK
    <2>2. srv.status = "gone" => srv'.status = "gone"
        BY <2>1, PastServer DEF apply, apply_renewal, apply_upgrade, ApplyFails
    <2> QED BY <1>1, <1>2, <2>2, CrossedIsOver DEF FairInv
<1>3. CASE ~crossed'
    <2>1. ~crossed /\ ~JobHolds /\ ~StaffHolds /\ Uncrossed BY <1>1, <1>3 DEF FairInv
    <2>2. acct \in WideRow /\ srv \in ServerAccount /\ Term > 0 /\ acct.left \in Int
        BY AccountRows, ServiceLifeAssumption DEF TypeOK, WideRow
    <2>3. srv.status \in {acct.status, "gone"} /\ (held => ~acct.suspended_for_nonpayment)
        BY <2>1 DEF Uncrossed, ServerAgrees, HoldIsStaffs, JobHolds, StaffHolds
    <2>4. job'.pc \in {"idle", "stale"} /\ staff'.pc = "idle" BY <1>1, <2>1 DEF JobHolds, StaffHolds
    <2>5. CASE ApplyFails(c)
        <3>1. UNCHANGED <<acct, srv, noticed, held, liftFailed>>
            BY <1>3, <2>5 DEF ApplyFails, Remember, crossed, held, liftFailed
        <3>2. Uncrossed' BY <2>3, <2>4, <3>1, <1>1
            DEF Uncrossed, CopyStands, NoticeStands, ServerAgrees, HoldIsStaffs, JobHolds
        <3> QED BY <1>1, <2>4, <3>1, <3>2 DEF FairInv, PaidIsUp, WarnedFirst, StaffHoldStays
    <2>6. CASE apply_upgrade(c)
        <3> DEFINE base == IF acct.left > 0 THEN acct ELSE Extended(acct)
        <3>1. /\ acct' = [base EXCEPT !.plan = "large"] /\ acct.status = "active" /\ srv'.status = srv.status
              /\ UNCHANGED <<held, liftFailed>>
            BY <1>3, <2>2, <2>6, PastServer
            DEF apply_upgrade, UpgradeStands, Remember, crossed, held, liftFailed
        <3>2. /\ base \in WideRow /\ base.status = "active"
              /\ base.suspended_for_nonpayment = acct.suspended_for_nonpayment
            BY <2>2, <3>1, ExtendedRow
        <3> HIDE DEF base
        <3>3. acct'.status = "active" /\ acct'.suspended_for_nonpayment = acct.suspended_for_nonpayment
            BY <3>1, <3>2 DEF WideRow
        <3>4. Uncrossed' BY <1>1, <2>3, <2>4, <3>1, <3>3
            DEF Uncrossed, CopyStands, NoticeStands, ServerAgrees, HoldIsStaffs, JobHolds
        <3>5. ~held' BY <1>1, <2>1, <3>1 DEF FairInv, StaffHoldStays
        <3> QED BY <2>4, <3>3, <3>4, <3>5 DEF FairInv, PaidIsUp, WarnedFirst, StaffHoldStays
    <2>7. CASE apply_renewal(c)
        <3> DEFINE a == Extended(acct)
        <3>1. /\ a \in WideRow /\ a.left > 0 /\ a.status = acct.status
              /\ a.suspended_for_nonpayment = acct.suspended_for_nonpayment
            <4>1. /\ a \in WideRow /\ a.status = acct.status
                  /\ a.suspended_for_nonpayment = acct.suspended_for_nonpayment
                  /\ a.left = IF acct.left > 0 THEN acct.left + Term ELSE Term
                BY <2>2, ExtendedRow
            <4> HIDE DEF a
            <4>2. Term \in Nat /\ Term > 0 BY ServiceLifeAssumption
            <4>3. a.left > 0 BY <2>2, <4>1, <4>2
            <4> QED BY <4>1, <4>3
        <3>2. \/ /\ LiftsSuspension(a) /\ acct' = Active(a) /\ srv'.status = "active"
                 /\ held' => held
              \/ /\ acct' = a /\ srv'.status = srv.status /\ (LiftsSuspension(a) => liftFailed')
                 /\ held' => held
            BY <1>3, <2>2, <2>7, PastServer DEF apply_renewal, Remember, crossed, held, liftFailed
        <3> HIDE DEF a
        <3>3. CASE /\ LiftsSuspension(a) /\ acct' = Active(a) /\ srv'.status = "active"
                   /\ held' => held
            <4>1. acct'.status = "active" /\ ~acct'.suspended_for_nonpayment BY <3>1, <3>3, ActiveRow
            <4>3. ~held' BY <2>3, <3>1, <3>3 DEF LiftsSuspension
            <4>2. Uncrossed' BY <2>4, <3>3, <4>1, <4>3
                DEF Uncrossed, CopyStands, NoticeStands, ServerAgrees, HoldIsStaffs, JobHolds
            <4> QED BY <2>4, <3>3, <4>1, <4>2, <4>3 DEF FairInv, PaidIsUp, WarnedFirst, StaffHoldStays
        <3>4. CASE /\ acct' = a /\ srv'.status = srv.status /\ (LiftsSuspension(a) => liftFailed')
                   /\ held' => held
            <4>1. Uncrossed' BY <1>1, <2>3, <2>4, <3>1, <3>4
                DEF Uncrossed, CopyStands, NoticeStands, ServerAgrees, HoldIsStaffs, JobHolds
            <4>2. acct'.status = "suspended" /\ acct'.suspended_for_nonpayment => liftFailed'
                BY <3>1, <3>4 DEF LiftsSuspension
            <4>3. held' => acct'.status = "suspended" BY <1>1, <2>1, <3>1, <3>4 DEF FairInv, StaffHoldStays
            <4> QED BY <2>4, <4>1, <4>2, <4>3 DEF FairInv, PaidIsUp, WarnedFirst, StaffHoldStays
        <3> QED BY <3>2, <3>3, <3>4
    <2> QED BY <2>5, <2>6, <2>7 DEF apply
<1> QED BY <1>2, <1>3

\* The run suspends whom it warned, and removes whom it had suspended.
LEMMA JobIsFair ==
    ASSUME TypeOK, FairInv, Job
    PROVE  FairInv'
<1>1. /\ acct \in WideRow /\ srv \in ServerAccount /\ job \in [pc : JobSteps, copy : Copy]
      /\ acct.left \in Int /\ acct.term \in Nat /\ crossed \in BOOLEAN
    BY AccountRows DEF TypeOK, WideRow, crossed
<1>2. crossed \/ (~crossed /\ Uncrossed) BY DEF FairInv
<1>3. CASE JobStart
    <2>1. /\ job.pc = "idle" /\ UNCHANGED <<acct, srv, change, staff, noticed, held, crossed, liftFailed>>
          /\ \/ acct.status = "active" /\ acct.left <= 0 /\ job' = [pc |-> "lapsed", copy |-> Loaded(acct)]
             \/ job' = [pc |-> "stale", copy |-> NoCopy]
        BY <1>3 DEF JobStart, held, crossed, liftFailed
    <2>2. \/ acct.status = "active" /\ acct.left <= 0 /\ job'.pc = "lapsed"
             /\ job'.copy.left = acct.left /\ job'.copy.term = acct.term
          \/ job'.pc = "stale"
        BY <2>1, CopyRow
    <2>3. ~crossed => Uncrossed' BY <1>2, <2>1, <2>2 DEF Uncrossed, CopyStands, NoticeStands, ServerAgrees, HoldIsStaffs, JobHolds
    <2> QED BY <2>1, <2>2, <2>3 DEF FairInv, PaidIsUp, WarnedFirst, StaffHoldStays
<1>4. CASE JobNotice
    <2>1. /\ job.pc = "lapsed" /\ job'.pc = "suspend" /\ job'.copy = job.copy
          /\ UNCHANGED <<acct, srv, change, staff, held, crossed, liftFailed>>
          /\ noticed' = (noticed \/ (send_grace_notice /\ acct.term = job.copy.term))
        BY <1>1, <1>4 DEF JobNotice, Goto, held, crossed, liftFailed
    <2>2. payment_awaiting_confirmation' <=> payment_awaiting_confirmation
        BY <2>1 DEF payment_awaiting_confirmation
    <2>3. noticed => noticed' BY <2>1
    <2>4. ASSUME ~crossed PROVE Uncrossed'
        <3>1. Uncrossed BY <1>2, <2>4
        <3>2. job.copy.left = acct.left /\ job.copy.term = acct.term /\ acct.status = "active" /\ acct.left <= 0
            BY <2>1, <3>1 DEF Uncrossed, CopyStands, JobHolds
        <3>3. CopyStands' BY <2>1, <3>2 DEF CopyStands
        <3>4. NoticeStands' BY <2>1, <2>2, <3>2 DEF NoticeStands, DaysPast, send_grace_notice
        <3>5. ServerAgrees' BY <2>1, <3>1 DEF Uncrossed, ServerAgrees, Asked
        <3>6. HoldIsStaffs' BY <2>1, <3>1 DEF Uncrossed, HoldIsStaffs
        <3> QED BY <3>3, <3>4, <3>5, <3>6 DEF Uncrossed
    <2> QED BY <2>1, <2>3, <2>4 DEF FairInv, PaidIsUp, WarnedFirst, StaffHoldStays
<1>5. CASE JobSuspend
    <2>1. /\ job.pc = "suspend" /\ job'.pc = "save_suspended" /\ job'.copy = job.copy /\ srv'.status = "suspended"
          /\ ShouldSuspend /\ UNCHANGED <<acct, change, staff, noticed, held, crossed, liftFailed>>
        BY <1>1, <1>5 DEF JobSuspend, Goto, ServerAccount, held, crossed, liftFailed
    <2>2. ASSUME ~crossed PROVE Uncrossed'
        <3>1. Uncrossed BY <1>2, <2>2
        <3>2. DaysPast >= GraceAfter
            <4>1. job.copy.left \in Int
                <5>1. job.copy.left = acct.left BY <2>1, <3>1 DEF Uncrossed, CopyStands, JobHolds
                <5> QED BY <1>1, <5>1
            <4> QED BY <2>1, <4>1, ServiceLifeAssumption DEF ShouldSuspend, DaysPast
        <3>3. noticed BY <2>1, <3>1, <3>2 DEF ShouldSuspend, Uncrossed, NoticeStands
        <3> QED BY <2>1, <3>1, <3>3 DEF Uncrossed, CopyStands, NoticeStands, ServerAgrees, HoldIsStaffs, JobHolds
    <2> QED BY <2>1, <2>2 DEF FairInv, PaidIsUp, WarnedFirst, StaffHoldStays
<1>6. CASE JobNoSuspend
    <2>1. /\ job.pc = "suspend" /\ job'.pc = "stale"
          /\ UNCHANGED <<acct, srv, change, staff, noticed, held, crossed, liftFailed>>
        BY <1>6 DEF JobNoSuspend, Leave, held, crossed, liftFailed
    <2>2. ~crossed => Uncrossed' BY <1>2, <2>1 DEF Uncrossed, CopyStands, NoticeStands, ServerAgrees, HoldIsStaffs, JobHolds
    <2> QED BY <2>1, <2>2 DEF FairInv, PaidIsUp, WarnedFirst, StaffHoldStays
<1>7. CASE JobSaveSuspended
    <2>1. /\ job.pc = "save_suspended" /\ job'.pc = "stale" /\ crossed' = (crossed \/ StaffHolds)
          /\ acct'.status = "suspended" /\ acct'.suspended_for_nonpayment /\ acct'.left = acct.left
          /\ UNCHANGED <<srv, change, staff, noticed>> /\ (~crossed' => (held' <=> held) /\ (liftFailed' <=> liftFailed))
        BY <1>1, <1>7 DEF JobSaveSuspended, Leave, WideRow, Remember, crossed, held, liftFailed
    <2>2. CASE crossed' BY <2>1, <2>2, CrossedIsOver
    <2>3. CASE ~crossed'
        <3>1. ~crossed /\ Uncrossed /\ staff.pc = "idle" BY <1>2, <2>1, <2>3 DEF StaffHolds
        <3>2. acct.status = "active" /\ acct.left <= 0 /\ noticed /\ srv.status \in {"suspended", "gone"}
            BY <2>1, <3>1 DEF Uncrossed, CopyStands, NoticeStands, ServerAgrees
        <3>3. ~held BY <3>1, <3>2 DEF FairInv, StaffHoldStays
        <3>4. Uncrossed' BY <2>1, <2>3, <3>1, <3>2, <3>3 DEF Uncrossed, CopyStands, NoticeStands, ServerAgrees, HoldIsStaffs, JobHolds
        <3>5. ~(acct.left > 0) BY <1>1, <3>2
        <3> QED BY <2>1, <2>3, <3>2, <3>3, <3>4, <3>5 DEF FairInv, PaidIsUp, WarnedFirst, StaffHoldStays
    <2> QED BY <2>2, <2>3
<1>8. CASE JobStale
    <2>1. /\ job.pc = "stale" /\ UNCHANGED <<acct, srv, change, staff, noticed, held, crossed, liftFailed>>
          /\ \/ IsStale /\ job' = [pc |-> "end", copy |-> Loaded(acct)]
             \/ job' = [pc |-> "idle", copy |-> NoCopy]
        BY <1>8 DEF JobStale, held, crossed, liftFailed
    <2>2. \/ /\ acct.status = "suspended" /\ acct.suspended_for_nonpayment /\ job'.pc = "end"
             /\ job'.copy.left = acct.left /\ job'.copy.term = acct.term
          \/ job'.pc = "idle"
        BY <2>1, CopyRow DEF IsStale
    <2>3. ~crossed => Uncrossed' BY <1>2, <2>1, <2>2 DEF Uncrossed, CopyStands, NoticeStands, ServerAgrees, HoldIsStaffs, JobHolds
    <2> QED BY <2>1, <2>2, <2>3 DEF FairInv, PaidIsUp, WarnedFirst, StaffHoldStays
<1>9. CASE JobEnd
    <2>1. /\ job.pc = "end" /\ UNCHANGED <<change, staff, ran, noticed, held, crossed, liftFailed>>
          /\ acct'.status = acct.status /\ acct'.left = acct.left /\ acct'.term = acct.term
          /\ acct'.suspended_for_nonpayment = acct.suspended_for_nonpayment
          /\ \/ job'.pc = "idle" /\ srv'.status = srv.status
             \/ job'.pc = "save_ended" /\ job'.copy = job.copy /\ srv'.status = "gone"
        BY <1>1, <1>9 DEF JobEnd, BackupRecorded, Leave, Goto, WideRow, ServerAccount, held, crossed, liftFailed
    <2>2. ~crossed => Uncrossed' BY <1>2, <2>1 DEF Uncrossed, CopyStands, NoticeStands, ServerAgrees, HoldIsStaffs, JobHolds
    <2> QED BY <2>1, <2>2 DEF FairInv, PaidIsUp, WarnedFirst, StaffHoldStays
<1>10. CASE JobSaveEnd
    <2>1. /\ job.pc = "save_ended" /\ job'.pc = "idle" /\ crossed' = (crossed \/ StaffHolds)
          /\ acct'.status = "terminated" /\ acct'.suspended_for_nonpayment = acct.suspended_for_nonpayment
          /\ UNCHANGED <<srv, change, staff, noticed>> /\ (~crossed' => (held' <=> held) /\ (liftFailed' <=> liftFailed))
        BY <1>1, <1>10 DEF JobSaveEnd, Leave, WideRow, HostingStatus, Remember, crossed, held, liftFailed
    <2>2. CASE crossed' BY <2>1, <2>2, CrossedIsOver
    <2>3. CASE ~crossed'
        <3>1. ~crossed /\ Uncrossed /\ staff.pc = "idle" BY <1>2, <2>1, <2>3 DEF StaffHolds
        <3>2. ~held BY <2>1, <3>1 DEF Uncrossed, CopyStands, HoldIsStaffs
        <3>3. srv.status = "gone" BY <2>1 DEF FairInv
        <3>4. Uncrossed' BY <2>1, <2>3, <3>1, <3>2, <3>3 DEF Uncrossed, CopyStands, NoticeStands, ServerAgrees, HoldIsStaffs, JobHolds
        <3> QED BY <2>1, <2>3, <3>2, <3>4 DEF FairInv, PaidIsUp, WarnedFirst, StaffHoldStays
    <2> QED BY <2>2, <2>3
<1>11. CASE JobNotSaved
    <2>1. crossed' /\ job'.pc # "save_ended" BY <1>11 DEF JobNotSaved, Leave, Remember, crossed
    <2> QED BY <2>1, CrossedIsOver
<1> QED BY <1>3, <1>4, <1>5, <1>6, <1>7, <1>8, <1>9, <1>10, <1>11 DEF Job

LEMMA DayIsFair ==
    ASSUME TypeOK, FairInv, NextDay
    PROVE  FairInv'
<1>1. acct \in WideRow /\ srv \in ServerAccount /\ acct.left \in Int BY AccountRows DEF TypeOK, WideRow
<1>2. /\ job.pc = "idle" /\ staff.pc = "idle"
      /\ UNCHANGED <<change, job, staff, noticed, held, crossed, liftFailed>>
      /\ acct'.status = acct.status /\ srv'.status = srv.status
      /\ acct'.suspended_for_nonpayment = acct.suspended_for_nonpayment
    BY <1>1 DEF NextDay, WideRow, ServerAccount, held, crossed, liftFailed
<1>3. Stays \/ Shortens BY DayRows
<1>4. acct'.left > 0 => acct.left > 0 BY <1>1, <1>3 DEF Stays, Shortens
<1>5. acct.left > 0 \/ acct.left <= 0 BY <1>1
<1>6. ~crossed => Uncrossed' BY <1>2 DEF FairInv, PaidIsUp, WarnedFirst, StaffHoldStays, Uncrossed, CopyStands, NoticeStands, ServerAgrees, HoldIsStaffs, JobHolds
<1> QED BY <1>2, <1>4, <1>5, <1>6 DEF FairInv, PaidIsUp, WarnedFirst, StaffHoldStays

\* Staff suspend, and only staff lift that again.
LEMMA StaffIsFair ==
    ASSUME TypeOK, FairInv, StaffNext
    PROVE  FairInv'
<1>1. /\ acct \in WideRow /\ srv \in ServerAccount /\ staff \in [pc : {"idle", "call", "save"}, op : StaffOps]
      /\ acct.left \in Int /\ crossed \in BOOLEAN
    BY AccountRows DEF TypeOK, WideRow, crossed
<1>2. crossed \/ (~crossed /\ Uncrossed) BY DEF FairInv
<1>3. ASSUME NEW op \in StaffOps, StaffLoad(op) PROVE FairInv'
    <2>1. /\ staff.pc = "idle" /\ staff'.pc = "call"
          /\ UNCHANGED <<acct, srv, change, job, noticed, held, crossed, liftFailed>>
        BY <1>3 DEF StaffLoad, IdleStaff, held, crossed, liftFailed
    <2>2. payment_awaiting_confirmation' <=> payment_awaiting_confirmation
        BY <2>1 DEF payment_awaiting_confirmation
    <2>3. ~crossed => Uncrossed' BY <1>2, <2>1, <2>2 DEF Uncrossed, CopyStands, NoticeStands, ServerAgrees, HoldIsStaffs, JobHolds, DaysPast
    <2> QED BY <2>1, <2>3 DEF FairInv, PaidIsUp, WarnedFirst, StaffHoldStays
<1>4. CASE StaffFails
    <2>1. /\ staff.pc = "call" /\ staff'.pc = "idle"
          /\ UNCHANGED <<acct, srv, change, job, noticed, held, crossed, liftFailed>>
        BY <1>4 DEF StaffFails, IdleStaff, held, crossed, liftFailed
    <2>2. payment_awaiting_confirmation' <=> payment_awaiting_confirmation
        BY <2>1 DEF payment_awaiting_confirmation
    <2>3. ~crossed => Uncrossed' BY <1>2, <2>1, <2>2 DEF Uncrossed, CopyStands, NoticeStands, ServerAgrees, HoldIsStaffs, JobHolds, DaysPast
    <2> QED BY <2>1, <2>3 DEF FairInv, PaidIsUp, WarnedFirst, StaffHoldStays
<1>5. CASE StaffCall
    <2>1. /\ staff.pc = "call" /\ staff'.pc = "save" /\ staff'.op = staff.op /\ srv.status # "gone"
          /\ srv'.status = Asked(staff.op)
          /\ UNCHANGED <<acct, change, job, noticed>>
        BY <1>1, <1>5 DEF StaffCall, ServerAccount, Asked, StaffOps
    <2>0. (held' => held) /\ UNCHANGED <<crossed, liftFailed>>
        BY <1>5 DEF StaffCall, Remember, held, crossed, liftFailed
    <2>2. payment_awaiting_confirmation' <=> payment_awaiting_confirmation
        BY <2>1 DEF payment_awaiting_confirmation
    <2>3. job.pc # "save_ended" BY <2>1 DEF FairInv
    <2>4. ~crossed => Uncrossed'
        <3>1. Asked(staff.op)' = Asked(staff.op) BY <2>1 DEF Asked
        <3> QED BY <1>2, <2>0, <2>1, <2>2, <2>3, <3>1 DEF Uncrossed, CopyStands, NoticeStands, ServerAgrees, HoldIsStaffs, JobHolds, DaysPast
    <2> QED BY <2>0, <2>1, <2>3, <2>4 DEF FairInv, PaidIsUp, WarnedFirst, StaffHoldStays
<1>6. CASE StaffSave
    <2>1. /\ staff.pc = "save" /\ staff'.pc = "idle" /\ crossed' = (crossed \/ JobHolds)
          /\ (held' => staff.op = "suspend") /\ UNCHANGED <<srv, change, job, noticed>>
        BY <1>6 DEF StaffSave, IdleStaff, Remember, crossed, held
    <2>2. \/ staff.op = "suspend" /\ acct'.status = "suspended" /\ ~acct'.suspended_for_nonpayment
          \/ staff.op = "unsuspend" /\ acct'.status = "active" /\ ~acct'.suspended_for_nonpayment
          \/ staff.op = "terminate" /\ acct'.status = "terminated"
        BY <1>1, <1>6 DEF StaffSave, StaffOps, Active, WideRow
    <2>3. CASE crossed' BY <2>1, <2>3, CrossedIsOver DEF FairInv
    <2>4. CASE ~crossed'
        <3>1. ~crossed /\ Uncrossed /\ job.pc \in {"idle", "stale"} BY <1>2, <2>1, <2>4 DEF JobHolds
        <3>2. srv.status \in {Asked(staff.op), "gone"} BY <2>1, <3>1 DEF Uncrossed, ServerAgrees
        <3>3. srv.status \in {acct'.status, "gone"} BY <2>2, <3>2 DEF Asked
        <3>4. Uncrossed' BY <2>1, <2>2, <3>1, <3>3 DEF Uncrossed, CopyStands, NoticeStands, ServerAgrees, HoldIsStaffs, JobHolds
        <3> QED BY <2>1, <2>2, <3>1, <3>4 DEF FairInv, PaidIsUp, WarnedFirst, StaffHoldStays
    <2> QED BY <2>3, <2>4
<1>7. CASE sync_status
    <2>1. /\ srv.status # "gone" /\ crossed' = (crossed \/ JobHolds \/ StaffHolds)
          /\ acct' = [acct EXCEPT !.status = srv.status] /\ (~crossed' => (held' <=> held) /\ (liftFailed' <=> liftFailed))
          /\ UNCHANGED <<srv, change, job, staff, noticed>>
        BY <1>7 DEF sync_status, Copied, Remember, crossed, held, liftFailed
    <2>2. CASE crossed' BY <2>1, <2>2, CrossedIsOver DEF FairInv
    <2>3. CASE ~crossed'
        <3>1. ~crossed /\ Uncrossed /\ job.pc \in {"idle", "stale"} /\ staff.pc = "idle"
            BY <1>2, <2>1, <2>3 DEF JobHolds, StaffHolds
        <3>2. srv.status = acct.status BY <2>1, <3>1 DEF Uncrossed, ServerAgrees
        <3>3. acct' = acct BY <1>1, <2>1, <3>2 DEF WideRow
        <3>4. Uncrossed' BY <2>1, <2>3, <3>1, <3>2, <3>3 DEF Uncrossed, CopyStands, NoticeStands, ServerAgrees, HoldIsStaffs, JobHolds
        <3> QED BY <2>1, <2>3, <3>1, <3>2, <3>3, <3>4 DEF FairInv, PaidIsUp, WarnedFirst, StaffHoldStays
    <2> QED BY <2>2, <2>3
<1>8. CASE backup_account
    <2>1. /\ srv'.status = srv.status /\ acct'.status = acct.status /\ acct'.left = acct.left
          /\ acct'.term = acct.term /\ acct'.suspended_for_nonpayment = acct.suspended_for_nonpayment
          /\ UNCHANGED <<change, job, staff, noticed, held, crossed, liftFailed>>
        BY <1>1, <1>8 DEF backup_account, BackupRecorded, WideRow, ServerAccount, held, crossed, liftFailed
    <2>2. payment_awaiting_confirmation' <=> payment_awaiting_confirmation
        BY <2>1 DEF payment_awaiting_confirmation
    <2>3. ~crossed => Uncrossed' BY <1>2, <2>1, <2>2 DEF Uncrossed, CopyStands, NoticeStands, ServerAgrees, HoldIsStaffs, JobHolds, DaysPast
    <2> QED BY <2>1, <2>3 DEF FairInv, PaidIsUp, WarnedFirst, StaffHoldStays
<1>9. CASE StaffNotSaved
    <2>1. crossed' /\ UNCHANGED <<job, srv>> BY <1>9 DEF StaffNotSaved, Remember, crossed
    <2> QED BY <2>1, CrossedIsOver DEF FairInv
<1> QED BY <1>3, <1>4, <1>5, <1>6, <1>7, <1>8, <1>9 DEF StaffNext

LEMMA FairStart ==
    ASSUME Init
    PROVE  FairInv
BY DEF Init, FairInv, Uncrossed, CopyStands, NoticeStands, ServerAgrees, HoldIsStaffs, JobHolds, IdleStaff,
       PaidIsUp, WarnedFirst, StaffHoldStays, held

LEMMA FairStep ==
    ASSUME TypeOK, FairInv, [Next]_vars
    PROVE  FairInv'
<1>1. CASE UNCHANGED vars
    <2>1. payment_awaiting_confirmation' <=> payment_awaiting_confirmation
        BY <1>1 DEF vars, payment_awaiting_confirmation
    <2> QED BY <1>1, <2>1
        DEF vars, FairInv, Uncrossed, CopyStands, NoticeStands, ServerAgrees, HoldIsStaffs, JobHolds, DaysPast,
            Asked, PaidIsUp, WarnedFirst, StaffHoldStays, held, crossed, liftFailed
<1>2. ASSUME NEW c \in Changes, Invoicing(c) \/ apply_paid_invoice(c) \/ retry_change(c) PROVE FairInv'
    BY <1>2, InvoicingIsFair, ApplyIsFair DEF apply_paid_invoice, retry_change
<1>3. ASSUME NEW c \in Changes, LiftRolledBack(c) PROVE FairInv'
    <2>1. crossed' /\ UNCHANGED job /\ srv.status # "gone" BY <1>3, RolledBack DEF crossed
    <2> QED BY <2>1, CrossedIsOver DEF FairInv
<1> QED BY <1>1, <1>2, <1>3, JobIsFair, DayIsFair, StaffIsFair, NextGroups

\* Whoever is suspended is so for a reason: for non-payment only when unpaid
\* and warned, unless the server refused to lift it, two writers crossed or
\* what the server did was not recorded; and, up to the same, what staff
\* suspended stays so, whatever is paid or run meanwhile.
THEOREM SuspensionsAreFair == Spec => []SuspensionIsFair
<1>1. TermsInv /\ FairInv => SuspensionIsFair BY DEF TermsInv, FairInv, SuspensionIsFair
<1>2. TermsInv => TypeOK BY DEF TermsInv
<1>3. Spec => []FairInv BY <1>2, TermsInvariant, FairStart, FairStep, PTL DEF Spec
<1> QED BY <1>1, <1>3, TermsInvariant, PTL

----------------------------------------------------------------------------
(* Nothing is lost.                                                         *)

LEMMA BackupStart ==
    ASSUME Init
    PROVE  BackupInv
BY DEF Init, BackupInv

LEMMA BackupStep ==
    ASSUME TypeOK, BackupInv, [Next]_vars
    PROVE  BackupInv'
<1>1. acct \in WideRow /\ srv \in ServerAccount /\ job \in [pc : JobSteps, copy : Copy]
    BY AccountRows DEF TypeOK
<1>2. ASSUME NEW c \in Changes, Invoicing(c) PROVE BackupInv'
    <2>1. UNCHANGED <<acct, srv, job, ran>> BY <1>2, InvoicingRow
    <2> QED BY <2>1 DEF BackupInv
<1>3. ASSUME NEW c \in Changes, apply_paid_invoice(c) \/ retry_change(c) PROVE BackupInv'
    <2>1. apply(c) /\ change[c].status \in {"pending", "failed"} BY <1>3 DEF apply_paid_invoice, retry_change
    <2>2. acct'.backup_requested = acct.backup_requested BY <2>1, ApplyRow
    <2>3. /\ srv'.backup = srv.backup \/ srv'.backup = (IF srv.backup = "none" THEN "none" ELSE "other")
          /\ UNCHANGED <<job, ran>>
        BY <1>1, <2>1, PastServer DEF apply, apply_renewal, apply_upgrade, ApplyFails
    <2> QED BY <2>2, <2>3 DEF BackupInv
<1>4. CASE JobStart
    <2>1. /\ ~ran /\ ran' /\ job.pc = "idle" /\ job'.pc \in {"lapsed", "stale"} /\ UNCHANGED <<acct, srv>>
        BY <1>4 DEF JobStart
    <2> QED BY <2>1 DEF BackupInv
<1>5. CASE JobNotice \/ JobSuspend \/ JobNoSuspend \/ JobSaveSuspended \/ JobSaveEnd \/ JobNotSaved
    <2>1. /\ job.pc # "idle" /\ job'.pc # "end" /\ srv'.backup = srv.backup
          /\ acct'.backup_requested = acct.backup_requested /\ UNCHANGED ran
        <3>1. CASE JobNotice BY <1>1, <3>1 DEF JobNotice, Goto
        <3>2. CASE JobSuspend BY <1>1, <3>2 DEF JobSuspend, Goto, ServerAccount
        <3>3. CASE JobNoSuspend BY <3>3 DEF JobNoSuspend, Leave
        <3>4. CASE JobSaveSuspended BY <1>1, <3>4 DEF JobSaveSuspended, Leave, WideRow
        <3>5. CASE JobSaveEnd BY <1>1, <3>5 DEF JobSaveEnd, Leave, WideRow
        <3>6. CASE JobNotSaved BY <3>6 DEF JobNotSaved, Leave
        <3> QED BY <1>5, <3>1, <3>2, <3>3, <3>4, <3>5, <3>6
    <2> QED BY <2>1 DEF BackupInv
<1>6. CASE JobStale
    <2>1. /\ job.pc = "stale" /\ UNCHANGED <<acct, srv, ran>>
          /\ \/ job' = [pc |-> "end", copy |-> Loaded(acct)] \/ job' = [pc |-> "idle", copy |-> NoCopy]
        BY <1>6 DEF JobStale
    <2>2. \/ job'.pc = "end" /\ job'.copy.backup_requested = acct.backup_requested
          \/ job'.pc = "idle"
        BY <2>1, CopyRow
    <2>3. srv.backup \in {"none", "other", "today", "earlier"} BY <1>1 DEF ServerAccount
    <2> QED BY <2>1, <2>2, <2>3 DEF BackupInv
<1>7. CASE JobEnd
    <2>1. /\ job.pc = "end" /\ UNCHANGED ran /\ job'.pc # "end"
          /\ \/ srv'.backup = "today" /\ job'.pc = "idle"
             \/ srv'.backup = srv.backup /\ UNCHANGED acct
        BY <1>1, <1>7 DEF JobEnd, Goto, Leave, ServerAccount
    <2> QED BY <2>1 DEF BackupInv
<1>11. ASSUME NEW c \in Changes, LiftRolledBack(c) PROVE BackupInv'
    BY <1>11, RolledBack DEF BackupInv
<1>8. CASE NextDay
    <2>1. /\ job'.pc = "idle" /\ acct'.backup_requested = acct.backup_requested
          /\ srv'.backup = IF srv.backup = "today" THEN "earlier" ELSE srv.backup
        BY <1>1, <1>8 DEF NextDay, WideRow, ServerAccount
    <2> QED BY <2>1 DEF BackupInv
<1>9. CASE StaffNext
    <2>1. UNCHANGED <<job, ran>>
        BY <1>9 DEF StaffNext, StaffLoad, StaffCall, StaffFails, StaffSave, StaffNotSaved, sync_status, backup_account
    <2>2. CASE backup_account
        <3>1. srv'.backup \in {"other", "earlier"} BY <1>1, <2>2 DEF backup_account, ServerAccount
        <3> QED BY <2>1, <3>1 DEF BackupInv
    <2>3. CASE ~backup_account
        <3>1. srv'.backup = srv.backup
            BY <1>1, <1>9, <2>3 DEF StaffNext, StaffLoad, StaffCall, StaffFails, StaffSave, StaffNotSaved, sync_status, ServerAccount
        <3>2. acct'.backup_requested = acct.backup_requested
            <4>1. CASE StaffSave BY <1>1, <4>1 DEF StaffSave, Active, WideRow, TypeOK, StaffOps
            <4> QED BY <1>1, <1>9, <2>3, <4>1
                DEF StaffNext, StaffLoad, StaffCall, StaffFails, StaffNotSaved, sync_status, WideRow
        <3> QED BY <2>1, <3>1, <3>2 DEF BackupInv
    <2> QED BY <2>2, <2>3
<1>10. CASE UNCHANGED vars BY <1>10 DEF vars, BackupInv
<1> QED BY <1>2, <1>3, <1>4, <1>5, <1>6, <1>7, <1>8, <1>9, <1>10, <1>11, NextGroups DEF Job

\* What a step may do to the paid period.
LEMMA TimeStep ==
    ASSUME TypeOK, [Next]_vars
    PROVE  /\ acct'.left < acct.left => ~ran' /\ acct'.left = acct.left - 1
           /\ acct'.term # acct.term => acct'.left = Term + (IF acct.left > 0 THEN acct.left ELSE 0)
<1>1. acct.left \in Int /\ acct.term \in Nat /\ Term \in Nat /\ Term > 0
    BY AccountRows, ServiceLifeAssumption DEF TypeOK, WideRow
<1>2. Stays \/ Moves \/ (Shortens /\ ~ran')
    <2>1. ASSUME NEW c \in Changes, Invoicing(c) PROVE Stays BY <2>1, InvoicingRow DEF Stays
    <2>2. ASSUME NEW c \in Changes, apply_paid_invoice(c) \/ retry_change(c) PROVE Stays \/ Moves
        <3>1. apply(c) /\ change[c].status \in {"pending", "failed"} BY <2>2 DEF apply_paid_invoice, retry_change
        <3> QED BY <3>1, ApplyRow
    <2>3. CASE NextDay BY <2>3, DayRows DEF NextDay
    <2>4. CASE UNCHANGED vars BY <2>4 DEF vars, Stays
    <2>5. ASSUME NEW c \in Changes, LiftRolledBack(c) PROVE Stays BY <2>5, RolledBack DEF Stays
    <2> QED BY <2>1, <2>2, <2>3, <2>4, <2>5, JobRows, StaffRows, NextGroups
<1>3. CASE Stays BY <1>1, <1>3 DEF Stays
<1>4. CASE Moves BY <1>1, <1>4 DEF Moves
<1>5. CASE Shortens /\ ~ran' BY <1>1, <1>5 DEF Shortens
<1> QED BY <1>2, <1>3, <1>4, <1>5

\* A removal by the run rests on its own backup of an earlier day or another.
LEMMA RemovalStep ==
    ASSUME TypeOK, BackupInv, [Next]_vars, job.pc = "end", job'.pc = "save_ended", BackupFirst
    PROVE  srv.backup \in {"other", "earlier"}
<1>1. JobEnd
    <2>1. \A c \in Changes : ~Invoicing(c) BY InvoicingRow
    <2>2. \A c \in Changes : ~apply_paid_invoice(c) /\ ~retry_change(c) /\ ~LiftRolledBack(c)
        BY DEF apply_paid_invoice, retry_change, apply, LiftRolledBack
    <2>3. ~NextDay /\ ~StaffNext /\ ~UNCHANGED vars
        BY DEF NextDay, StaffNext, StaffLoad, StaffCall, StaffFails, StaffSave, StaffNotSaved, sync_status, backup_account, vars
    <2>4. Job BY <2>1, <2>2, <2>3, NextGroups
    <2> QED BY <2>4
        DEF Job, JobStart, JobNotice, JobSuspend, JobNoSuspend, JobSaveSuspended, JobStale, JobSaveEnd, JobNotSaved
<1>2. ~BackupDue BY <1>1 DEF JobEnd, Leave
<1> QED BY <1>2 DEF BackupDue, BackupInv

\* No step but the passing of a day shortens the paid period, a change that
\* moves its end adds a whole term, and the daily run removes an account that
\* has no other backup (of whatever age) only after one that it asked for on
\* an earlier day of this unpaid period.
THEOREM NothingGoesMissing == Spec => NothingIsLost
<1>1. TermsInv => TypeOK BY DEF TermsInv
<1>2. Spec => []BackupInv BY <1>1, TermsInvariant, BackupStart, BackupStep, PTL DEF Spec
<1>3. TypeOK /\ [Next]_vars =>
         [/\ acct'.left < acct.left => ~ran' /\ acct'.left = acct.left - 1
          /\ acct'.term # acct.term => acct'.left = Term + (IF acct.left > 0 THEN acct.left ELSE 0)]_vars
    BY TimeStep
<1>4. TypeOK /\ BackupInv /\ [Next]_vars =>
         [job.pc = "end" /\ job'.pc = "save_ended" /\ BackupFirst => srv.backup \in {"earlier", "other"}]_vars
    BY RemovalStep
<1>5. Spec => NoTimeIsLost BY <1>1, <1>3, TermsInvariant, PTL DEF Spec, NoTimeIsLost
<1>6. Spec => BackupBeforeRemoval BY <1>1, <1>2, <1>4, TermsInvariant, PTL DEF Spec, BackupBeforeRemoval
<1> QED BY <1>5, <1>6, PTL DEF NothingIsLost
=============================================================================
