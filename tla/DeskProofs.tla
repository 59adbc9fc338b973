---------------------------- MODULE DeskProofs -----------------------------
(***************************************************************************)
(* Proofs about the two desks staff work at: support tickets, and the      *)
(* affiliates' commissions and payouts.  The two models are independent;   *)
(* each has its own variables, and a theorem is about the specification it *)
(* names.                                                                  *)
(***************************************************************************)
EXTENDS Tickets, Affiliates, SequenceTheorems, TLAPS

----------------------------------------------------------------------------
(***************************************************************************)
(* Tickets, for every number of requests and every length of the token's   *)
(* life, the look back, the patience and the days.                         *)
(*                                                                         *)
(* The key of a form ages together with whoever writes under it, and until *)
(* it has gone it covers what is missing of the newest ticket's age: so a  *)
(* second ticket of the same form is at least the key's life, less the     *)
(* longest write, younger than the first.                                  *)
(***************************************************************************)

Writing(q) == req[q].pc = "write"

FormType ==
    /\ key \in Nat /\ opened \in Nat /\ newest \in Nat
    /\ req \in [Requests -> [pc : {"idle", "write", "look"}, clock : Nat]]

\* The key was added when its writer began, and they age together.
KeyOfWriter == \A q \in Requests : Writing(q) => req[q].clock <= WorkLimit /\ key = KeyLife - req[q].clock

OneWriter == \A p, q \in Requests : Writing(p) /\ Writing(q) => p = q

\* Until the key has gone it covers what is missing of the newest ticket's age;
\* whoever writes again began after that.
KeyCovers ==
    opened > 0 => /\ newest + key >= KeyLife - WorkLimit
                  /\ \A q \in Requests : Writing(q) => newest >= KeyLife - WorkLimit

FormInv == FormType /\ KeyOfWriter /\ OneWriter /\ KeyCovers

Days == Nat \cup {Never}

TicketType ==
    ticket \in [status : TicketStatus \cup {"none"}, resolved : Days, closed : Days]

HeardInv == TicketType /\ CustomerIsHeard

----------------------------------------------------------------------------
LEMMA FormInit == Init => FormInv
BY TicketsAssumption DEF TicketsAssumption, Init, FormInv, FormType, KeyOfWriter, OneWriter, KeyCovers, Writing, IdleRequest

\* The key is gone only when nobody writes any more.
LEMMA NoKeyNoWriter ==
    ASSUME FormInv, key = 0 PROVE \A q \in Requests : ~Writing(q)
<1>1. SUFFICES ASSUME NEW q \in Requests, Writing(q) PROVE FALSE
  OBVIOUS
<1>2. req[q].clock \in Nat
  BY DEF FormInv, FormType
<1>3. req[q].clock <= WorkLimit /\ key = KeyLife - req[q].clock
  BY <1>1 DEF FormInv, KeyOfWriter
<1>4. QED
  BY <1>2, <1>3, TicketsAssumption DEF TicketsAssumption

LEMMA AddKeepsForm ==
    ASSUME FormInv, NEW q \in Requests, open_ticket(q) PROVE FormInv'
<1>1. /\ opened' = opened /\ newest' = newest /\ req[q] = IdleRequest
      /\ \A p \in Requests \ {q} : req'[p] = req[p]
  BY DEF open_ticket, AddKey, FormInv, FormType
<1>2. CASE key = 0
  <2>1. key' = KeyLife /\ req'[q] = [pc |-> "write", clock |-> 0] /\ FormType'
    BY <1>1, <1>2, TicketsAssumption DEF TicketsAssumption, open_ticket, AddKey, FormInv, FormType, IdleRequest
  <2>2. \A p \in Requests : Writing(p)' => p = q
    BY <1>1, <1>2, NoKeyNoWriter DEF Writing
  <2>3. opened > 0 => newest >= KeyLife - WorkLimit
    BY <1>2, TicketsAssumption DEF TicketsAssumption, FormInv, FormType, KeyCovers
  <2>4. QED
    BY <1>1, <2>1, <2>2, <2>3, TicketsAssumption DEF TicketsAssumption, FormInv, FormType, KeyOfWriter, OneWriter, KeyCovers, Writing
<1>3. CASE key # 0
  <2>1. key' = key /\ req'[q].pc = "look" /\ FormType'
    BY <1>1, <1>3 DEF open_ticket, AddKey, FormInv, FormType
  <2>2. \A p \in Requests : Writing(p)' => Writing(p) /\ req'[p] = req[p]
    BY <1>1, <2>1 DEF Writing
  <2>3. QED
    BY <1>1, <2>1, <2>2 DEF FormInv, KeyOfWriter, OneWriter, KeyCovers
<1>4. QED
  BY <1>2, <1>3

\* A request that ends, with or without a ticket.
LEMMA EndKeepsForm ==
    ASSUME FormInv, NEW q \in Requests, CommitTicket(q) \/ RollBack(q) \/ already_sent(q) PROVE FormInv'
<1>1. /\ key' = key /\ FormType' /\ req'[q] = IdleRequest
      /\ \A p \in Requests \ {q} : req'[p] = req[p]
  <2>1. key' = key /\ req' = [req EXCEPT ![q] = IdleRequest] /\ opened' \in Nat /\ newest' \in Nat
    <3>1. CASE CommitTicket(q)
      BY <3>1 DEF CommitTicket, FormInv, FormType
    <3>2. CASE RollBack(q) \/ already_sent(q)
      BY <3>2 DEF RollBack, already_sent, FormInv, FormType
    <3>3. QED
      BY <3>1, <3>2
  <2>2. QED
    BY <2>1 DEF FormInv, FormType, IdleRequest
<1>2. \A p \in Requests : Writing(p)' => p # q /\ Writing(p) /\ req'[p] = req[p]
  BY <1>1 DEF Writing, IdleRequest
<1>3. KeyOfWriter' /\ OneWriter'
  BY <1>1, <1>2 DEF FormInv, KeyOfWriter, OneWriter
<1>4. CASE CommitTicket(q)
  <2>1. Writing(q) /\ newest' = 0
    BY <1>4 DEF CommitTicket, Writing
  <2>2. \A p \in Requests : ~Writing(p)'
    BY <1>2, <2>1 DEF FormInv, OneWriter
  <2>3. key >= KeyLife - WorkLimit
    BY <2>1, TicketsAssumption DEF TicketsAssumption, FormInv, FormType, KeyOfWriter
  <2>4. QED
    BY <1>1, <1>3, <2>1, <2>2, <2>3, TicketsAssumption DEF TicketsAssumption, FormInv, FormType, KeyCovers
<1>5. CASE RollBack(q) \/ already_sent(q)
  <2>1. opened' = opened /\ newest' = newest
    BY <1>5 DEF RollBack, already_sent
  <2>2. QED
    BY <1>1, <1>2, <1>3, <2>1 DEF FormInv, KeyCovers
<1>6. QED
  BY <1>4, <1>5

LEMMA TimeKeepsForm ==
    ASSUME FormInv, PassSecond PROVE FormInv'
<1>1. /\ opened' = opened /\ key' = (IF key > 0 THEN key - 1 ELSE 0)
      /\ newest' = (IF newest < KeyLife THEN newest + 1 ELSE newest) /\ FormType'
  BY DEF PassSecond, FormInv, FormType
<1>2. \A q \in Requests :
        /\ Writing(q)' <=> Writing(q)
        /\ Writing(q) => req'[q].clock = req[q].clock + 1 /\ req[q].clock < WorkLimit
  BY DEF PassSecond, FormInv, FormType, Writing, IdleRequest
<1>3. KeyOfWriter'
  <2>1. SUFFICES ASSUME NEW q \in Requests, Writing(q)'
                 PROVE  req'[q].clock <= WorkLimit /\ key' = KeyLife - req'[q].clock
    BY DEF KeyOfWriter
  <2>2. req[q].clock \in Nat /\ key = KeyLife - req[q].clock
    BY <1>2, <2>1 DEF FormInv, FormType, KeyOfWriter
  <2>3. req'[q].clock = req[q].clock + 1 /\ req[q].clock < WorkLimit
    BY <1>2, <2>1
  <2>4. QED
    BY <1>1, <2>2, <2>3, TicketsAssumption DEF TicketsAssumption
<1>4. OneWriter'
  BY <1>2 DEF FormInv, OneWriter
<1>5. KeyCovers'
  BY <1>1, <1>2, TicketsAssumption DEF TicketsAssumption, FormInv, FormType, KeyCovers
<1>6. QED
  BY <1>1, <1>3, <1>4, <1>5 DEF FormInv

LEMMA FormStep ==
    ASSUME FormInv, [Next]_vars PROVE FormInv'
<1>1. CASE UNCHANGED formVars
  BY <1>1 DEF formVars, FormInv, FormType, KeyOfWriter, OneWriter, KeyCovers, Writing
<1>2. ASSUME NEW q \in Requests, open_ticket(q) PROVE FormInv'
  BY <1>2, AddKeepsForm
<1>3. ASSUME NEW q \in Requests, CommitTicket(q) \/ RollBack(q) \/ already_sent(q) PROVE FormInv'
  BY <1>3, EndKeepsForm
<1>4. CASE PassSecond
  BY <1>4, TimeKeepsForm
<1>5. CASE ~UNCHANGED formVars
  BY <1>2, <1>3, <1>4, <1>5 DEF Next, vars, StaffReply, SetStatus, CustomerReply, CustomerCloses,
     auto_close_resolved, CloseFound, purge_stale_attachments, PurgeFound, JobDies, NextDay
<1>6. QED
  BY <1>1, <1>5

\* However the copies of a form race, fail and wait (_already_sent), two
\* tickets of one form are KeyLife - WorkLimit apart or more.
THEOREM OneTicketPerForm == Spec => TwinsAreOne
<1>1. ASSUME FormInv, [Next]_vars
      PROVE [opened > 0 /\ opened' > opened => newest >= KeyLife - WorkLimit]_vars
  <2>1. CASE \E q \in Requests : CommitTicket(q)
    BY <1>1, <2>1 DEF CommitTicket, FormInv, KeyCovers, Writing
  <2>2. CASE ~ \E q \in Requests : CommitTicket(q)
    <3>1. opened' = opened
      BY <1>1, <2>2 DEF Next, vars, formVars, open_ticket, RollBack, already_sent, PassSecond, StaffReply,
         SetStatus, CustomerReply, CustomerCloses, auto_close_resolved, CloseFound,
         purge_stale_attachments, PurgeFound, JobDies, NextDay
    <3>2. QED
      BY <1>1, <3>1 DEF FormInv, FormType
  <2>3. QED
    BY <2>1, <2>2
<1>2. QED
  BY <1>1, FormInit, FormStep, PTL DEF Spec, TwinsAreOne

----------------------------------------------------------------------------
LEMMA MovedRow ==
    ASSUME TicketType, NEW new \in TicketStatus
    PROVE  /\ Moved(ticket, new) \in [status : TicketStatus \cup {"none"}, resolved : Days, closed : Days]
           /\ Moved(ticket, new).status = new
BY DEF TicketType, Moved, Days, Never

LEMMA HeardStep ==
    ASSUME HeardInv, [Next]_vars PROVE HeardInv'
<1> USE DEF HeardInv, CustomerIsHeard, Is
<1>1. CASE UNCHANGED <<ticket, awaiting>>
  BY <1>1 DEF TicketType
<1>2. ASSUME NEW q \in Requests, CommitTicket(q) PROVE HeardInv'
  BY <1>2 DEF CommitTicket, Exists, NoTicket, TicketType, TicketStatus, Days, Never
<1>3. CASE CustomerReply
  BY <1>3, MovedRow DEF CustomerReply, TicketStatus, TicketType
<1>4. ASSUME NEW new \in TicketStatus, transition(new), awaiting' = FALSE PROVE HeardInv'
  BY <1>4, MovedRow DEF transition, TicketType
<1>5. CASE CloseFound
  BY <1>5, MovedRow DEF CloseFound, TicketStatus, TicketType
<1>6. CASE NextDay
  <2>1. \A d \in Days : Older(d) \in Days
    BY TicketsAssumption DEF TicketsAssumption, Older, Days, Never, MaxDays
  <2>2. QED
    BY <1>6, <2>1 DEF NextDay, TicketType
<1>7. CASE CustomerCloses
  BY <1>4, <1>7 DEF CustomerCloses, TicketStatus
<1>8. QED
  BY <1>1, <1>2, <1>3, <1>4, <1>5, <1>6, <1>7
  DEF Next, vars, formVars, open_ticket, RollBack, already_sent, PassSecond, StaffReply, SetStatus,
      auto_close_resolved, purge_stale_attachments, PurgeFound, JobDies

\* No daily job closes a ticket over an answer that came after its query
\* (auto_close_resolved), and no late copy of the form touches it.
THEOREM CustomersAreHeard == Spec => []CustomerIsHeard
<1>1. Init => HeardInv
  BY DEF Init, HeardInv, CustomerIsHeard, TicketType, NoTicket, Days, Never
<1>2. QED
  BY <1>1, HeardStep, PTL DEF Spec, HeardInv

----------------------------------------------------------------------------
(***************************************************************************)
(* Affiliates, for any number of affiliates, clients, invoices and staff and*)
(* any total and any share of it.                                          *)
(*                                                                         *)
(* A commission is worth the share of the money that was kept, at every    *)
(* moment, until it is paid out: an invoice earns nothing before it is     *)
(* paid, a refund recomputes the commission it finds, and a payout's rows  *)
(* are locked from the moment they are read, so no refund, review or other *)
(* payout changes one of them before the payout is written.  That is also  *)
(* why each payout is the sum of the commissions that name it, and stays   *)
(* so.                                                                     *)
(***************************************************************************)

\* What commissions of some invoices can add up to.
Sums == {0} \cup {SumFunction(amounts) : amounts \in UNION {[rows -> Nat] : rows \in SUBSET Invoices}}

InvoiceRow == [status : {"unpaid", "paying", "paid"}, refunded : 0..Total, earner : Affiliates \cup {None}]

CommissionRow ==
    [status : {"none", "pending", "approved", "rejected", "paid"}, to : Affiliates \cup {None},
     amount : Nat, eligible : BOOLEAN, review : BOOLEAN, payout : Nat]

\* The rows are the ones the code has.
AffiliateRows ==
    /\ settings \in [recurring : BOOLEAN, hold : BOOLEAN]
    /\ affiliate \in [Affiliates -> {"pending", "active", "suspended", "rejected"}]
    /\ referral \in [Clients -> Affiliates \cup {None}]
    /\ invoice \in [Invoices -> InvoiceRow]
    /\ commission \in [Invoices -> CommissionRow]
    /\ payer \in [Staff -> [to : Affiliates \cup {None}, rows : SUBSET Invoices, amount : Sums]]
    /\ payouts \in Seq([to : Affiliates, amount : Sums])

\* Until an invoice is paid nothing of it is refunded and nothing is earned.
NothingEarnedYet ==
    \A i \in Invoices : invoice[i].status # "paid" => invoice[i].refunded = 0 /\ commission[i].status = "none"

\* What a payout has locked is approved and its affiliate's, and nobody else has it.
LockedRowsStay ==
    /\ \A s \in Staff : \A i \in payer[s].rows : commission[i].status = "approved" /\ commission[i].to = payer[s].to
    /\ \A s, t \in Staff : s # t => payer[s].rows \cap payer[t].rows = {}

\* What it has added up is still what the rows say, and the affiliate is active.
PayersAreReady ==
    \A s \in Staff : payer[s] # IdlePayer =>
        /\ payer[s].to \in Affiliates /\ affiliate[payer[s].to] = "active"
        /\ payer[s].rows # {} /\ payer[s].amount = Sum(payer[s].rows)

PayoutsAreNumbered == \A i \in Invoices : commission[i].payout <= Len(payouts)

RefundInv == AffiliateRows /\ NothingEarnedYet /\ RefundsFollowMoney /\ LockedRowsStay

PayoutInv == PayersAreReady /\ PayoutsAreNumbered /\ PayoutAddsUp

----------------------------------------------------------------------------
(* The share of what was kept.                                              *)

LEMMA DivBetween ==
    ASSUME NEW a \in Nat, NEW b \in Nat \ {0}, NEW q \in Nat, q * b <= a, a < q * b + b
    PROVE  a \div b = q
OBVIOUS

LEMMA DivNat == ASSUME NEW a \in Nat, NEW b \in Nat \ {0} PROVE a \div b \in Nat
OBVIOUS

LEMMA ProductNat == ASSUME NEW a \in Nat, NEW b \in Nat PROVE a * b \in Nat
OBVIOUS

\* Nothing refunded, the whole share.
LEMMA FullShare == (2 * Share * (Total - 0) + Total) \div (2 * Total) = Share
<1> DEFINE st == Share * Total
<1>1. Total \in Nat /\ Total > 0 /\ Share \in Nat /\ st \in Nat
  BY AffiliatesAssumption, ProductNat DEF AffiliatesAssumption
<1>2. 2 * Share * (Total - 0) = 2 * st /\ Share * (2 * Total) = 2 * st
  BY <1>1
<1> HIDE DEF st
<1> DEFINE a == 2 * st + Total
           b == 2 * Total
<1>3. a \in Nat /\ b \in Nat \ {0}
  BY <1>1
<1>4. Share * b <= a /\ a < Share * b + b
  BY <1>1, <1>2
<1>5. a \div b = Share
  <2> HIDE DEF a, b
  <2>1. QED
    BY <1>1, <1>3, <1>4, DivBetween
<1>6. QED
  BY <1>2, <1>5

LEMMA ShareNat ==
    ASSUME NEW refunded \in 0..Total PROVE (2 * Share * (Total - refunded) + Total) \div (2 * Total) \in Nat
<1>1. Total \in Nat /\ Total > 0 /\ Share \in Nat
  BY AffiliatesAssumption DEF AffiliatesAssumption
<1>2. Total - refunded \in Nat /\ 2 * Share \in Nat
  BY <1>1
<1>3. 2 * Share * (Total - refunded) \in Nat
  BY <1>2, ProductNat
<1> DEFINE a == 2 * Share * (Total - refunded) + Total
           b == 2 * Total
<1>4. a \in Nat /\ b \in Nat \ {0}
  BY <1>1, <1>3
<1>5. QED
  <2> HIDE DEF a, b
  <2>1. a \div b \in Nat
    BY <1>4, DivNat
  <2>2. QED
    BY <2>1 DEF a, b

LEMMA NetShareNat == ASSUME AffiliateRows PROVE \A i \in Invoices : NetShare(i) \in Nat
<1> SUFFICES ASSUME NEW i \in Invoices PROVE NetShare(i) \in Nat
  OBVIOUS
<1>1. invoice[i].refunded \in 0..Total
  BY DEF AffiliateRows, InvoiceRow
<1>2. QED
  BY <1>1, ShareNat DEF NetShare

LEMMA SumIsSum ==
    ASSUME AffiliateRows, NEW rows \in SUBSET Invoices PROVE Sum(rows) \in Sums
<1> DEFINE amounts == [i \in rows |-> commission[i].amount]
<1>1. amounts \in [rows -> Nat]
  BY DEF AffiliateRows, CommissionRow
<1>2. amounts \in UNION {[r -> Nat] : r \in SUBSET Invoices}
  BY <1>1
<1> HIDE DEF amounts
<1>3. SumFunction(amounts) \in Sums
  BY <1>2 DEF Sums
<1>4. QED
  BY <1>3 DEF Sum, amounts

\* A sum changes only with the amounts that are added.
LEMMA SameSum ==
    ASSUME NEW rows, \A i \in rows : commission'[i].amount = commission[i].amount
    PROVE  SumFunction([i \in rows |-> commission'[i].amount]) = SumFunction([i \in rows |-> commission[i].amount])
<1>1. [i \in rows |-> commission'[i].amount] = [i \in rows |-> commission[i].amount]
  OBVIOUS
<1>2. QED
  BY <1>1

LEMMA AffiliatesStart == AffiliatesInit => RefundInv /\ PayoutInv
<1> SUFFICES ASSUME AffiliatesInit PROVE RefundInv /\ PayoutInv
  OBVIOUS
<1>1. NoCommission \in CommissionRow /\ NoCommission.status = "none" /\ NoCommission.payout = 0
  BY DEF NoCommission, CommissionRow
<1>2. [status |-> "unpaid", refunded |-> 0, earner |-> None] \in InvoiceRow
  BY AffiliatesAssumption DEF InvoiceRow, AffiliatesAssumption
<1>3. IdlePayer \in [to : Affiliates \cup {None}, rows : SUBSET Invoices, amount : Sums] /\ IdlePayer.rows = {}
  BY DEF IdlePayer, Sums
<1>4. AffiliateRows
  BY <1>1, <1>2, <1>3 DEF AffiliatesInit, AffiliateRows
<1>5. /\ \A i \in Invoices : commission[i] = NoCommission /\ invoice[i].refunded = 0
      /\ \A s \in Staff : payer[s] = IdlePayer
      /\ payouts = <<>>
  BY DEF AffiliatesInit
<1>6. RefundInv
  BY <1>1, <1>3, <1>4, <1>5 DEF RefundInv, NothingEarnedYet, RefundsFollowMoney, LockedRowsStay
<1>7. PayoutInv
  BY <1>1, <1>5 DEF PayoutInv, PayersAreReady, PayoutsAreNumbered, PayoutAddsUp
<1>8. QED
  BY <1>6, <1>7

----------------------------------------------------------------------------
(* One commission changes.                                                  *)

\* What a step has to show of the one commission it changes.
LEMMA RefundMove ==
    ASSUME RefundInv, AffiliateRows', NEW i \in Invoices, NEW c, commission' = [commission EXCEPT ![i] = c], payer' = payer,
           \A j \in Invoices \ {i} : invoice'[j] = invoice[j],
           invoice'[i].status # "paid" => invoice'[i].refunded = 0 /\ c.status = "none",
           c.status \in {"pending", "approved"} => c.amount = NetShare(i)' /\ NetShare(i)' > 0,
           c.status = "paid" /\ c.amount # NetShare(i)' => c.review,
           c.status = "paid" <=> c.payout # 0,
           ~RowFree(i) => c.status = "approved" /\ c.to = commission[i].to
    PROVE  RefundInv'
<1>1. commission'[i] = c /\ \A j \in Invoices \ {i} : commission'[j] = commission[j] /\ NetShare(j)' = NetShare(j)
  BY DEF RefundInv, AffiliateRows, NetShare
<1>2. NothingEarnedYet'
  BY <1>1 DEF RefundInv, NothingEarnedYet
<1>3. RefundsFollowMoney'
  BY <1>1 DEF RefundInv, RefundsFollowMoney
<1>4. LockedRowsStay'
  <2>1. ASSUME NEW s \in Staff, NEW j \in payer[s].rows
        PROVE  commission'[j].status = "approved" /\ commission'[j].to = payer[s].to
    <3>1. j \in Invoices /\ commission[j].status = "approved" /\ commission[j].to = payer[s].to
      BY <2>1 DEF RefundInv, LockedRowsStay, AffiliateRows
    <3>2. CASE j = i
      BY <1>1, <2>1, <3>1, <3>2 DEF RowFree
    <3>3. CASE j # i
      BY <1>1, <3>1, <3>3
    <3>4. QED
      BY <3>2, <3>3
  <2>2. QED
    BY <2>1 DEF RefundInv, LockedRowsStay
<1>5. QED
  BY <1>2, <1>3, <1>4 DEF RefundInv

LEMMA PayoutMove ==
    ASSUME RefundInv, PayoutInv, NEW i \in Invoices, NEW c, commission' = [commission EXCEPT ![i] = c],
           UNCHANGED <<affiliate, payer, payouts>>, c.payout = commission[i].payout,
           c.payout # 0 => c.amount = commission[i].amount /\ c.to = commission[i].to,
           ~RowFree(i) => c.amount = commission[i].amount
    PROVE  PayoutInv'
<1>1. commission'[i] = c /\ \A j \in Invoices \ {i} : commission'[j] = commission[j]
  BY DEF RefundInv, AffiliateRows
<1>2. PayersAreReady'
  <2> SUFFICES ASSUME NEW s \in Staff, payer[s] # IdlePayer
               PROVE  /\ payer[s].to \in Affiliates /\ affiliate[payer[s].to] = "active"
                      /\ payer[s].rows # {} /\ payer[s].amount = SumFunction([j \in payer[s].rows |-> commission'[j].amount])
    BY DEF PayersAreReady, Sum
  <2>1. /\ payer[s].to \in Affiliates /\ affiliate[payer[s].to] = "active"
        /\ payer[s].rows # {} /\ payer[s].amount = SumFunction([j \in payer[s].rows |-> commission[j].amount])
    BY DEF PayoutInv, PayersAreReady, Sum
  <2>2. payer[s].rows \subseteq Invoices
    BY DEF RefundInv, AffiliateRows
  <2>3. \A j \in payer[s].rows : commission'[j].amount = commission[j].amount
    BY <1>1, <2>2 DEF RowFree
  <2>4. QED
    BY <2>1, <2>3, SameSum
<1>3. PayoutsAreNumbered'
  BY <1>1 DEF PayoutInv, PayoutsAreNumbered
<1>4. PayoutAddsUp'
  <2> SUFFICES ASSUME NEW p \in DOMAIN payouts
               PROVE  LET rows == {j \in Invoices : commission'[j].payout = p}
                      IN  /\ payouts[p].amount = SumFunction([j \in rows |-> commission'[j].amount]) /\ rows # {}
                          /\ \A j \in rows : commission'[j].to = payouts[p].to
    BY DEF PayoutAddsUp, Sum
  <2> DEFINE rows == {j \in Invoices : commission[j].payout = p}
  <2>1. {j \in Invoices : commission'[j].payout = p} = rows
    BY <1>1
  <2>2. p # 0
    BY DEF RefundInv, AffiliateRows
  <2>3. \A j \in rows : commission'[j].amount = commission[j].amount /\ commission'[j].to = commission[j].to
    BY <1>1, <2>2
  <2>4. /\ payouts[p].amount = SumFunction([j \in rows |-> commission[j].amount]) /\ rows # {}
        /\ \A j \in rows : commission[j].to = payouts[p].to
    BY DEF PayoutInv, PayoutAddsUp, Sum
  <2> HIDE DEF rows
  <2>5. SumFunction([j \in rows |-> commission'[j].amount]) = SumFunction([j \in rows |-> commission[j].amount])
    BY <2>3, SameSum
  <2>6. QED
    BY <2>1, <2>3, <2>4, <2>5
<1>5. QED
  BY <1>2, <1>3, <1>4 DEF PayoutInv

\* What is known of one invoice and its commission.
LEMMA AboutInvoice ==
    ASSUME RefundInv, NEW i \in Invoices
    PROVE  /\ AffiliateRows /\ invoice[i] \in InvoiceRow /\ commission[i] \in CommissionRow /\ NetShare(i) \in Nat
           /\ invoice[i].status # "paid" => invoice[i].refunded = 0 /\ commission[i].status = "none"
           /\ commission[i].status \in {"pending", "approved"} => commission[i].amount = NetShare(i) /\ NetShare(i) > 0
           /\ commission[i].status = "paid" /\ commission[i].amount # NetShare(i) => commission[i].review
           /\ commission[i].status = "paid" <=> commission[i].payout # 0
           /\ ~RowFree(i) => commission[i].status = "approved"
<1>1. AffiliateRows /\ invoice[i] \in InvoiceRow /\ commission[i] \in CommissionRow /\ NetShare(i) \in Nat
  BY NetShareNat DEF RefundInv, AffiliateRows
<1>2. ~RowFree(i) => commission[i].status = "approved"
  BY DEF RefundInv, LockedRowsStay, RowFree
<1>3. QED
  BY <1>1, <1>2 DEF RefundInv, NothingEarnedYet, RefundsFollowMoney

\* Only the invoice changes, before it is paid.
LEMMA PayingStep ==
    ASSUME RefundInv, PayoutInv, NEW i \in Invoices, on_invoice_paid(i) PROVE RefundInv' /\ PayoutInv'
<1>0. AffiliateRows /\ invoice[i] \in InvoiceRow /\ commission[i] \in CommissionRow /\ commission[i].status = "none"
      /\ invoice[i].refunded = 0 /\ (commission[i].status = "paid" <=> commission[i].payout # 0) /\ RowFree(i)
  BY AboutInvoice DEF on_invoice_paid
<1>1. PICK earner \in Affiliates \cup {None} :
        invoice' = [invoice EXCEPT ![i] = [@ EXCEPT !.status = "paying", !.earner = earner]]
  BY DEF on_invoice_paid
<1> DEFINE new == [invoice[i] EXCEPT !.status = "paying", !.earner = earner]
<1>2. new \in InvoiceRow /\ new.refunded = 0 /\ new.status = "paying"
  BY <1>0 DEF InvoiceRow
<1>3. invoice' = [invoice EXCEPT ![i] = new]
  BY <1>1
<1> HIDE DEF new
<1>4. /\ invoice' \in [Invoices -> InvoiceRow] /\ invoice'[i].refunded = 0
      /\ \A j \in Invoices \ {i} : invoice'[j] = invoice[j]
  BY <1>0, <1>2, <1>3 DEF AffiliateRows
<1>5. UNCHANGED <<settings, affiliate, referral, commission, payer, payouts>>
  BY DEF on_invoice_paid
<1>6. commission' = [commission EXCEPT ![i] = commission[i]]
  BY <1>0, <1>5 DEF AffiliateRows
<1>7. AffiliateRows'
  BY <1>0, <1>4, <1>5 DEF AffiliateRows
<1>8. RefundInv'
  BY <1>0, <1>4, <1>5, <1>6, <1>7, RefundMove
<1>9. PayoutInv'
  BY <1>0, <1>5, <1>6, PayoutMove
<1>10. QED
  BY <1>8, <1>9

LEMMA PaymentStep ==
    ASSUME RefundInv, PayoutInv, NEW i \in Invoices, PaymentCommits(i) PROVE RefundInv' /\ PayoutInv'
<1>0. /\ AffiliateRows /\ invoice[i] \in InvoiceRow /\ commission[i] \in CommissionRow /\ commission[i].status = "none"
      /\ invoice[i].refunded = 0 /\ (commission[i].status = "paid" <=> commission[i].payout # 0) /\ RowFree(i)
  BY AboutInvoice DEF PaymentCommits
<1> DEFINE new == [invoice[i] EXCEPT !.status = "paid"]
<1>2. new \in InvoiceRow /\ new.refunded = 0 /\ new.status = "paid"
  BY <1>0 DEF InvoiceRow
<1>3. invoice' = [invoice EXCEPT ![i] = new] /\ UNCHANGED <<settings, affiliate, referral, payer, payouts>>
  BY DEF PaymentCommits
<1> HIDE DEF new
<1>4. /\ invoice' \in [Invoices -> InvoiceRow] /\ invoice'[i].refunded = 0 /\ invoice'[i].status = "paid"
      /\ \A j \in Invoices \ {i} : invoice'[j] = invoice[j]
  BY <1>0, <1>2, <1>3 DEF AffiliateRows
<1>5. NetShare(i)' = Share /\ Share > 0 /\ Share \in Nat
  <2>1. NetShare(i)' = (2 * Share * (Total - 0) + Total) \div (2 * Total)
    BY <1>4 DEF NetShare
  <2>2. QED
    BY <2>1, FullShare, AffiliatesAssumption DEF AffiliatesAssumption
<1>6. CASE commission' = commission
  <2>1. commission' = [commission EXCEPT ![i] = commission[i]]
    BY <1>0, <1>6 DEF AffiliateRows
  <2>2. AffiliateRows'
    BY <1>0, <1>3, <1>4, <1>6 DEF AffiliateRows
  <2>3. RefundInv'
    BY <1>0, <1>3, <1>4, <2>1, <2>2, RefundMove
  <2>4. PayoutInv'
    BY <1>0, <1>3, <2>1, PayoutMove
  <2>5. QED
    BY <2>3, <2>4
<1>7. CASE commission' # commission
  <2> DEFINE c == [NoCommission EXCEPT !.status = IF settings.hold THEN "pending" ELSE "approved",
                                       !.to = invoice[i].earner, !.amount = Share, !.eligible = ~settings.hold]
  <2>0. settings.hold \in BOOLEAN /\ invoice[i].earner \in Affiliates \cup {None}
    BY <1>0 DEF AffiliateRows, InvoiceRow
  <2>1. c \in CommissionRow /\ c.status \in {"pending", "approved"} /\ c.amount = Share /\ c.payout = 0
    BY <1>5, <2>0 DEF NoCommission, CommissionRow
  <2>2. commission' = [commission EXCEPT ![i] = c]
    BY <1>7 DEF PaymentCommits
  <2> HIDE DEF c
  <2>3. AffiliateRows'
    BY <1>0, <1>3, <1>4, <2>1, <2>2 DEF AffiliateRows
  <2>4. RefundInv'
    BY <1>0, <1>3, <1>4, <1>5, <2>1, <2>2, <2>3, RefundMove
  <2>5. PayoutInv'
    BY <1>0, <1>3, <2>1, <2>2, PayoutMove
  <2>6. QED
    BY <2>4, <2>5
<1>8. QED
  BY <1>6, <1>7

\* The refund reaches the commission, or flags it.
LEMMA RefundStep ==
    ASSUME RefundInv, PayoutInv, NEW i \in Invoices, NEW money \in 1..Total, on_invoice_refunded(i, money)
    PROVE  RefundInv' /\ PayoutInv'
<1>0. /\ AffiliateRows /\ invoice[i] \in InvoiceRow /\ commission[i] \in CommissionRow /\ RowFree(i)
      /\ invoice[i].status = "paid" /\ (commission[i].status = "paid" <=> commission[i].payout # 0)
  BY AboutInvoice DEF on_invoice_refunded
<1>1. Total \in Nat /\ invoice[i].refunded \in 0..Total /\ invoice[i].refunded + money \in 0..Total
  BY <1>0, AffiliatesAssumption DEF AffiliatesAssumption, InvoiceRow, on_invoice_refunded
<1> DEFINE new == [invoice[i] EXCEPT !.refunded = invoice[i].refunded + money]
<1>2. new \in InvoiceRow /\ new.status = "paid"
  BY <1>0, <1>1 DEF InvoiceRow
<1>3. invoice' = [invoice EXCEPT ![i] = new] /\ UNCHANGED <<settings, affiliate, referral, payer, payouts>>
  BY DEF on_invoice_refunded
<1> HIDE DEF new
<1>4. /\ invoice' \in [Invoices -> InvoiceRow] /\ invoice'[i] = new /\ \A j \in Invoices \ {i} : invoice'[j] = invoice[j]
  BY <1>0, <1>2, <1>3 DEF AffiliateRows
<1>5. NetShare(i)' \in Nat
  <2>1. new.refunded \in 0..Total
    BY <1>2 DEF InvoiceRow
  <2>2. NetShare(i)' = (2 * Share * (Total - new.refunded) + Total) \div (2 * Total)
    BY <1>4 DEF NetShare
  <2>3. QED
    BY <2>1, <2>2, ShareNat
<1>6. PICK share \in Nat : share = NetShare(i)'
  BY <1>5
<1> DEFINE c == Adjusted(commission[i], share)
<1>7. commission' = [commission EXCEPT ![i] = c]
  BY <1>6 DEF on_invoice_refunded
<1>8. /\ c \in CommissionRow /\ c.payout = commission[i].payout
      /\ c.status \in {"pending", "approved"} => c.amount = share /\ share > 0
      /\ c.status = "paid" <=> commission[i].status = "paid"
      /\ c.status = "paid" => c.review /\ c.amount = commission[i].amount /\ c.to = commission[i].to
  <2>1. CASE commission[i].status \in {"none", "rejected"}
    <3>1. c = commission[i]
      BY <2>1 DEF Adjusted
    <3>2. QED
      BY <1>0, <2>1, <3>1
  <2>2. CASE commission[i].status = "paid"
    <3>1. c = [commission[i] EXCEPT !.review = TRUE]
      BY <2>2 DEF Adjusted
    <3>2. QED
      BY <1>0, <2>2, <3>1 DEF CommissionRow
  <2>3. CASE commission[i].status \in {"pending", "approved"}
    <3> DEFINE status == IF share = 0 THEN "rejected" ELSE commission[i].status
    <3>1. c = [commission[i] EXCEPT !.amount = share, !.status = status]
      BY <2>3 DEF Adjusted
    <3>2. status \in {"pending", "approved", "rejected"} /\ (status # "rejected" => share > 0)
      BY <2>3
    <3> HIDE DEF c, status
    <3>3. /\ c \in CommissionRow /\ c.payout = commission[i].payout /\ c.status = status /\ c.amount = share
      BY <1>0, <3>1, <3>2 DEF CommissionRow
    <3>4. QED
      BY <2>3, <3>2, <3>3
  <2>4. QED
    BY <1>0, <2>1, <2>2, <2>3 DEF CommissionRow
<1> HIDE DEF c
<1>9. AffiliateRows'
  BY <1>0, <1>3, <1>4, <1>7, <1>8 DEF AffiliateRows
<1>10. RefundInv'
  BY <1>0, <1>2, <1>3, <1>4, <1>6, <1>7, <1>8, <1>9, RefundMove
<1>11. PayoutInv'
  BY <1>0, <1>3, <1>7, <1>8, PayoutMove
<1>12. QED
  BY <1>10, <1>11

\* A commission is looked at by the clock, by staff or by the daily job.
LEMMA ReviewMove ==
    ASSUME RefundInv, PayoutInv, NEW i \in Invoices, NEW c \in CommissionRow, commission' = [commission EXCEPT ![i] = c],
           UNCHANGED <<settings, affiliate, referral, invoice, payer, payouts>>,
           c.amount = commission[i].amount /\ c.to = commission[i].to /\ c.payout = commission[i].payout,
           c.review = commission[i].review,
           \/ c.status = commission[i].status
           \/ RowFree(i) /\ commission[i].status \in {"pending", "approved"} /\ c.status \in {"approved", "rejected"}
    PROVE  RefundInv' /\ PayoutInv'
<1>0. /\ AffiliateRows
      /\ invoice[i].status # "paid" => invoice[i].refunded = 0 /\ commission[i].status = "none"
      /\ commission[i].status \in {"pending", "approved"} => commission[i].amount = NetShare(i) /\ NetShare(i) > 0
      /\ commission[i].status = "paid" /\ commission[i].amount # NetShare(i) => commission[i].review
      /\ commission[i].status = "paid" <=> commission[i].payout # 0
      /\ ~RowFree(i) => commission[i].status = "approved"
  BY AboutInvoice
<1>1. AffiliateRows' /\ NetShare(i)' = NetShare(i)
  BY <1>0 DEF AffiliateRows, NetShare
<1>2. RefundInv'
  BY <1>0, <1>1, RefundMove
<1>3. PayoutInv'
  BY <1>0, PayoutMove
<1>4. QED
  BY <1>2, <1>3

LEMMA ReviewSteps ==
    ASSUME RefundInv, PayoutInv, NEW i \in Invoices,
           EndHold(i) \/ approve_commission(i) \/ reject_commission(i) \/ ApproveDue(i)
    PROVE  RefundInv' /\ PayoutInv'
<1>0. AffiliateRows /\ commission[i] \in CommissionRow /\ UNCHANGED <<settings, affiliate, referral, invoice, payer, payouts>>
  BY AboutInvoice DEF EndHold, approve_commission, reject_commission, ApproveDue
<1>1. CASE EndHold(i)
  <2> DEFINE c == [commission[i] EXCEPT !.eligible = TRUE]
  <2>1. /\ c \in CommissionRow /\ c.amount = commission[i].amount /\ c.to = commission[i].to
        /\ c.payout = commission[i].payout /\ c.review = commission[i].review /\ c.status = commission[i].status
    BY <1>0 DEF CommissionRow
  <2>2. commission' = [commission EXCEPT ![i] = c]
    BY <1>1 DEF EndHold
  <2> HIDE DEF c
  <2>3. QED
    BY <1>0, <2>1, <2>2, ReviewMove
<1>2. ASSUME NEW status \in {"approved", "rejected"}, commission' = [commission EXCEPT ![i].status = status],
             RowFree(i), commission[i].status \in {"pending", "approved"}
      PROVE  RefundInv' /\ PayoutInv'
  <2> DEFINE c == [commission[i] EXCEPT !.status = status]
  <2>1. /\ c \in CommissionRow /\ c.amount = commission[i].amount /\ c.to = commission[i].to
        /\ c.payout = commission[i].payout /\ c.review = commission[i].review /\ c.status = status
    BY <1>0 DEF CommissionRow
  <2>2. commission' = [commission EXCEPT ![i] = c]
    BY <1>2
  <2> HIDE DEF c
  <2>3. QED
    BY <1>0, <1>2, <2>1, <2>2, ReviewMove
<1>3. ASSUME commission' = commission PROVE RefundInv' /\ PayoutInv'
  <2>1. commission' = [commission EXCEPT ![i] = commission[i]]
    BY <1>0, <1>3 DEF AffiliateRows
  <2>2. QED
    BY <1>0, <2>1, ReviewMove
<1>4. QED
  BY <1>1, <1>2, <1>3 DEF approve_commission, reject_commission, ApproveDue, Approved

----------------------------------------------------------------------------
(* Standing and payouts.                                                    *)

\* Neither invoices nor commissions, payers or payouts change; an affiliate
\* whose payout is under way keeps its standing.
LEMMA StandingStep ==
    ASSUME RefundInv, PayoutInv, UNCHANGED <<invoice, commission, payer, payouts>>, AffiliateRows',
           \A s \in Staff : payer[s] # IdlePayer => affiliate'[payer[s].to] = affiliate[payer[s].to]
    PROVE  RefundInv' /\ PayoutInv'
<1>1. NothingEarnedYet' /\ LockedRowsStay'
  BY DEF RefundInv, NothingEarnedYet, LockedRowsStay
<1>2. RefundsFollowMoney'
  BY DEF RefundInv, RefundsFollowMoney, NetShare
<1>3. PayersAreReady'
  BY DEF PayoutInv, PayersAreReady, Sum
<1>4. PayoutsAreNumbered' /\ PayoutAddsUp'
  BY DEF PayoutInv, PayoutsAreNumbered, PayoutAddsUp, Sum
<1>5. QED
  BY <1>1, <1>2, <1>3, <1>4 DEF RefundInv, PayoutInv

LEMMA StandingSteps ==
    ASSUME RefundInv, PayoutInv, NEW a \in Affiliates,
           \/ \E to \in {"active", "suspended", "rejected"} : set_status(a, to)
           \/ \E k \in Clients : attribute(k, a)
           \/ run_approvals
    PROVE  RefundInv' /\ PayoutInv'
<1>0. AffiliateRows /\ UNCHANGED <<settings, invoice, commission, payer, payouts>>
  BY DEF RefundInv, set_status, attribute, run_approvals
<1>1. ASSUME NEW to \in {"active", "suspended", "rejected"}, set_status(a, to) PROVE RefundInv' /\ PayoutInv'
  <2>1. affiliate' = [affiliate EXCEPT ![a] = to] /\ AffiliateFree(a) /\ UNCHANGED referral
    BY <1>1 DEF set_status
  <2>2. AffiliateRows'
    BY <1>0, <2>1 DEF AffiliateRows
  <2>3. \A s \in Staff : affiliate'[payer[s].to] = affiliate[payer[s].to]
    BY <1>0, <2>1 DEF AffiliateRows, AffiliateFree
  <2>4. QED
    BY <1>0, <2>2, <2>3, StandingStep
<1>2. ASSUME NEW k \in Clients, attribute(k, a) PROVE RefundInv' /\ PayoutInv'
  <2>1. referral' = [referral EXCEPT ![k] = a] /\ UNCHANGED affiliate
    BY <1>2 DEF attribute
  <2>2. AffiliateRows'
    BY <1>0, <2>1 DEF AffiliateRows
  <2>3. QED
    BY <1>0, <2>1, <2>2, StandingStep
<1>3. CASE run_approvals
  <2>1. UNCHANGED <<affiliate, referral>>
    BY <1>3 DEF run_approvals
  <2>2. AffiliateRows'
    BY <1>0, <2>1 DEF AffiliateRows
  <2>3. QED
    BY <1>0, <2>1, <2>2, StandingStep
<1>4. QED
  BY <1>1, <1>2, <1>3

\* The rows are locked and added up.
LEMMA RecordStep ==
    ASSUME RefundInv, PayoutInv, NEW s \in Staff, NEW a \in Affiliates, NEW rows \in SUBSET Invoices, record_payout(s, a, rows)
    PROVE  RefundInv' /\ PayoutInv'
<1>0. /\ AffiliateRows /\ UNCHANGED <<settings, affiliate, referral, invoice, commission, payouts>>
      /\ affiliate[a] = "active" /\ rows # {} /\ \A i \in rows : RowFree(i)
      /\ \A i \in rows : commission[i].status = "approved" /\ commission[i].to = a
  BY DEF RefundInv, record_payout, payable_commissions, Active
<1> DEFINE new == [to |-> a, rows |-> rows, amount |-> Sum(rows)]
<1>1. new \in [to : Affiliates \cup {None}, rows : SUBSET Invoices, amount : Sums]
  BY <1>0, SumIsSum
<1>2. payer' = [payer EXCEPT ![s] = new] /\ new.to = a /\ new.rows = rows /\ new.amount = Sum(rows)
  BY DEF record_payout
<1> HIDE DEF new
<1>3. payer' \in [Staff -> [to : Affiliates \cup {None}, rows : SUBSET Invoices, amount : Sums]]
  BY <1>0, <1>1, <1>2 DEF AffiliateRows
<1>4. payer'[s] = new /\ \A t \in Staff \ {s} : payer'[t] = payer[t]
  BY <1>0, <1>2 DEF AffiliateRows
<1>5. AffiliateRows'
  BY <1>0, <1>3 DEF AffiliateRows
<1>6. NothingEarnedYet' /\ RefundsFollowMoney'
  BY <1>0 DEF RefundInv, NothingEarnedYet, RefundsFollowMoney, NetShare
<1>7. LockedRowsStay'
  <2>1. \A t \in Staff \ {s} : payer[t].rows \cap rows = {}
    BY <1>0 DEF RowFree
  <2>2. QED
    BY <1>0, <1>2, <1>4, <2>1 DEF RefundInv, LockedRowsStay
<1>8. PayersAreReady'
  <2>1. Sum(rows)' = Sum(rows) /\ \A t \in Staff \ {s} : Sum(payer[t].rows)' = Sum(payer[t].rows)
    BY <1>0, <1>4 DEF Sum
  <2>2. QED
    BY <1>0, <1>2, <1>4, <2>1 DEF PayoutInv, PayersAreReady
<1>9. PayoutsAreNumbered' /\ PayoutAddsUp'
  BY <1>0 DEF PayoutInv, PayoutsAreNumbered, PayoutAddsUp, Sum
<1>10. QED
  BY <1>5, <1>6, <1>7, <1>8, <1>9 DEF RefundInv, PayoutInv

\* What the commit does to each commission, and to the list of payouts.
LEMMA CommitRows ==
    ASSUME RefundInv, NEW s \in Staff, PayoutCommits(s)
    PROVE  /\ payer[s].rows \subseteq Invoices /\ Len(payouts) \in Nat
           /\ payouts' = Append(payouts, [to |-> payer[s].to, amount |-> payer[s].amount]) /\ Len(payouts') = Len(payouts) + 1
           /\ \A i \in payer[s].rows : /\ commission'[i] \in CommissionRow /\ commission'[i].status = "paid"
                                       /\ commission'[i].payout = Len(payouts) + 1
                                       /\ commission'[i].amount = commission[i].amount /\ commission'[i].to = commission[i].to
           /\ \A i \in Invoices \ payer[s].rows : commission'[i] = commission[i]
           /\ commission' \in [Invoices -> CommissionRow]
<1>1. payer[s].rows \subseteq Invoices /\ Len(payouts) \in Nat /\ \A i \in Invoices : commission[i] \in CommissionRow
  BY DEF RefundInv, AffiliateRows
<1>2. payouts' = Append(payouts, [to |-> payer[s].to, amount |-> payer[s].amount])
  BY DEF PayoutCommits
<1>3. Len(payouts') = Len(payouts) + 1
  BY <1>2 DEF RefundInv, AffiliateRows
<1>4. commission' = [i \in Invoices |-> IF i \in payer[s].rows
                                        THEN [commission[i] EXCEPT !.status = "paid", !.payout = Len(payouts) + 1]
                                        ELSE commission[i]]
  BY <1>3 DEF PayoutCommits
<1>5. ASSUME NEW i \in payer[s].rows
      PROVE  /\ commission'[i] \in CommissionRow /\ commission'[i].status = "paid"
             /\ commission'[i].payout = Len(payouts) + 1
             /\ commission'[i].amount = commission[i].amount /\ commission'[i].to = commission[i].to
  <2>1. commission'[i] = [commission[i] EXCEPT !.status = "paid", !.payout = Len(payouts) + 1] /\ commission[i] \in CommissionRow
    BY <1>1, <1>4
  <2>2. Len(payouts) + 1 \in Nat
    BY <1>1
  <2>3. QED
    BY <2>1, <2>2 DEF CommissionRow
<1>6. \A i \in Invoices \ payer[s].rows : commission'[i] = commission[i]
  BY <1>4
<1>7. \A i \in Invoices : commission'[i] \in CommissionRow
  BY <1>1, <1>5, <1>6
<1>8. commission' \in [Invoices -> CommissionRow]
  BY <1>4, <1>7
<1>9. QED
  BY <1>1, <1>2, <1>3, <1>5, <1>6, <1>8

\* The commissions are marked with the new payout.
LEMMA CommitStep ==
    ASSUME RefundInv, PayoutInv, NEW s \in Staff, PayoutCommits(s) PROVE RefundInv' /\ PayoutInv'
<1> DEFINE rows == payer[s].rows
<1>1. /\ rows \subseteq Invoices /\ Len(payouts) \in Nat
      /\ payouts' = Append(payouts, [to |-> payer[s].to, amount |-> payer[s].amount]) /\ Len(payouts') = Len(payouts) + 1
      /\ \A i \in rows : /\ commission'[i] \in CommissionRow /\ commission'[i].status = "paid"
                         /\ commission'[i].payout = Len(payouts) + 1
                         /\ commission'[i].amount = commission[i].amount /\ commission'[i].to = commission[i].to
      /\ \A i \in Invoices \ rows : commission'[i] = commission[i]
      /\ commission' \in [Invoices -> CommissionRow]
  BY CommitRows
<1>2. /\ payer[s].to \in Affiliates /\ affiliate[payer[s].to] = "active"
      /\ rows # {} /\ payer[s].amount = Sum(rows) /\ payer[s].amount \in Sums
      /\ \A i \in rows : commission[i].status = "approved" /\ commission[i].to = payer[s].to
  BY DEF PayoutInv, PayersAreReady, PayoutCommits, RefundInv, LockedRowsStay, AffiliateRows
<1>3. /\ AffiliateRows /\ UNCHANGED <<settings, affiliate, referral, invoice>>
      /\ payer' = [payer EXCEPT ![s] = IdlePayer]
  BY DEF RefundInv, PayoutCommits
<1>4. payer'[s] = IdlePayer /\ IdlePayer.rows = {} /\ \A t \in Staff \ {s} : payer'[t] = payer[t]
  BY <1>3 DEF AffiliateRows, IdlePayer
<1>5. AffiliateRows'
  <2>1. IdlePayer \in [to : Affiliates \cup {None}, rows : SUBSET Invoices, amount : Sums]
    BY DEF IdlePayer, Sums
  <2>2. payer' \in [Staff -> [to : Affiliates \cup {None}, rows : SUBSET Invoices, amount : Sums]]
    BY <1>3, <2>1 DEF AffiliateRows
  <2>3. [to |-> payer[s].to, amount |-> payer[s].amount] \in [to : Affiliates, amount : Sums]
    BY <1>2
  <2>4. payouts' \in Seq([to : Affiliates, amount : Sums])
    BY <1>1, <1>3, <2>3 DEF AffiliateRows
  <2>5. QED
    BY <1>1, <1>3, <2>2, <2>4 DEF AffiliateRows
<1>6. NothingEarnedYet'
  BY <1>1, <1>2, <1>3 DEF RefundInv, NothingEarnedYet
<1>7. RefundsFollowMoney'
  <2> SUFFICES ASSUME NEW i \in Invoices
               PROVE  /\ commission'[i].status \in {"pending", "approved"} => commission'[i].amount = NetShare(i) /\ NetShare(i) > 0
                      /\ commission'[i].status = "paid" /\ commission'[i].amount # NetShare(i) => commission'[i].review
                      /\ (commission'[i].status = "paid") = (commission'[i].payout # 0)
    <3>1. \A j \in Invoices : NetShare(j)' = NetShare(j)
      BY <1>3 DEF NetShare
    <3>2. QED
      BY <3>1 DEF RefundsFollowMoney
  <2>1. CASE i \in rows
    BY <1>1, <1>2, <2>1, AboutInvoice
  <2>2. CASE i \notin rows
    BY <1>1, <2>2 DEF RefundInv, RefundsFollowMoney
  <2>3. QED
    BY <2>1, <2>2
<1>8. \A t \in Staff \ {s} : payer[t].rows \subseteq Invoices \ rows
  BY <1>3 DEF RefundInv, LockedRowsStay, AffiliateRows
<1>9. LockedRowsStay'
  BY <1>1, <1>4, <1>8 DEF RefundInv, LockedRowsStay
<1>10. PayersAreReady'
  <2> SUFFICES ASSUME NEW t \in Staff \ {s}, payer[t] # IdlePayer
               PROVE  /\ payer[t].to \in Affiliates /\ affiliate[payer[t].to] = "active"
                      /\ payer[t].rows # {} /\ payer[t].amount = SumFunction([j \in payer[t].rows |-> commission'[j].amount])
    BY <1>3, <1>4 DEF PayersAreReady, Sum
  <2>1. \A j \in payer[t].rows : commission'[j].amount = commission[j].amount
    BY <1>1, <1>8
  <2>2. SumFunction([j \in payer[t].rows |-> commission'[j].amount]) = SumFunction([j \in payer[t].rows |-> commission[j].amount])
    BY <2>1, SameSum
  <2>3. QED
    BY <2>2 DEF PayoutInv, PayersAreReady, Sum
<1>11. PayoutsAreNumbered'
  <2>1. \A i \in Invoices : commission[i].payout \in Nat /\ commission[i].payout <= Len(payouts)
    BY <1>3 DEF PayoutInv, PayoutsAreNumbered, AffiliateRows, CommissionRow
  <2>2. QED
    BY <1>1, <2>1 DEF PayoutsAreNumbered
<1>12. PayoutAddsUp'
  <2> SUFFICES ASSUME NEW p \in DOMAIN payouts'
               PROVE  LET marked == {j \in Invoices : commission'[j].payout = p}
                      IN  /\ payouts'[p].amount = SumFunction([j \in marked |-> commission'[j].amount]) /\ marked # {}
                          /\ \A j \in marked : commission'[j].to = payouts'[p].to
    BY DEF PayoutAddsUp, Sum
  <2> DEFINE marked == {j \in Invoices : commission'[j].payout = p}
  <2>0. p \in 1..(Len(payouts) + 1) /\ \A i \in Invoices : commission[i].payout \in Nat /\ commission[i].payout <= Len(payouts)
    BY <1>1, <1>3, <1>5 DEF PayoutInv, PayoutsAreNumbered, AffiliateRows, CommissionRow
  <2>1. CASE p = Len(payouts) + 1
    <3>1. marked = rows
      BY <1>1, <2>0, <2>1
    <3>2. payouts'[p] = [to |-> payer[s].to, amount |-> payer[s].amount]
      BY <1>1, <1>3, <2>1 DEF AffiliateRows
    <3>3. SumFunction([j \in rows |-> commission'[j].amount]) = SumFunction([j \in rows |-> commission[j].amount])
      BY <1>1, SameSum
    <3>4. payer[s].amount = SumFunction([j \in rows |-> commission[j].amount])
      BY <1>2 DEF Sum
    <3> HIDE DEF rows, marked
    <3>5. QED
      BY <1>1, <1>2, <3>1, <3>2, <3>3, <3>4 DEF marked
  <2>2. CASE p \in 1..Len(payouts)
    <3> DEFINE before == {j \in Invoices : commission[j].payout = p}
    <3>1. payouts'[p] = payouts[p] /\ p \in DOMAIN payouts
      BY <1>1, <1>3, <2>2 DEF AffiliateRows
    <3>2. \A i \in rows : commission[i].payout = 0
      BY <1>1, <1>2, AboutInvoice
    <3>3. marked = before /\ before \cap rows = {}
      BY <1>1, <2>0, <2>2, <3>2
    <3>4. /\ payouts[p].amount = SumFunction([j \in before |-> commission[j].amount]) /\ before # {}
          /\ \A j \in before : commission[j].to = payouts[p].to
      BY <3>1 DEF PayoutInv, PayoutAddsUp, Sum
    <3>5. \A j \in before : commission'[j] = commission[j]
      BY <1>1, <3>3
    <3> HIDE DEF before, marked, rows
    <3>6. SumFunction([j \in before |-> commission'[j].amount]) = SumFunction([j \in before |-> commission[j].amount])
      BY <3>5, SameSum
    <3>7. QED
      BY <3>1, <3>3, <3>4, <3>5, <3>6 DEF marked
  <2>3. QED
    BY <2>0, <2>1, <2>2, <1>1
<1>13. QED
  BY <1>5, <1>6, <1>7, <1>9, <1>10, <1>11, <1>12 DEF RefundInv, PayoutInv

LEMMA AffiliatesStep ==
    RefundInv /\ PayoutInv /\ [AffiliatesNext]_affiliatesVars => RefundInv' /\ PayoutInv'
<1> SUFFICES ASSUME RefundInv, PayoutInv, [AffiliatesNext]_affiliatesVars PROVE RefundInv' /\ PayoutInv'
  OBVIOUS
<1>0. CASE UNCHANGED affiliatesVars
  <2>1. UNCHANGED <<settings, affiliate, referral, invoice, commission, payer, payouts>>
    BY <1>0 DEF affiliatesVars
  <2>2. AffiliateRows'
    BY <2>1 DEF RefundInv, AffiliateRows
  <2>3. QED
    BY <2>1, <2>2, StandingStep
<1>1. CASE run_approvals
  <2>1. UNCHANGED <<settings, affiliate, referral, invoice, commission, payer, payouts>>
    BY <1>1 DEF run_approvals
  <2>2. AffiliateRows'
    BY <2>1 DEF RefundInv, AffiliateRows
  <2>3. QED
    BY <2>1, <2>2, StandingStep
<1>2. ASSUME NEW a \in Affiliates,
             \/ \E to \in {"active", "suspended", "rejected"} : set_status(a, to)
             \/ \E k \in Clients : attribute(k, a)
             \/ \E s \in Staff, rows \in SUBSET Invoices : record_payout(s, a, rows)
      PROVE  RefundInv' /\ PayoutInv'
  BY <1>2, StandingSteps, RecordStep
<1>3. ASSUME NEW i \in Invoices,
             \/ on_invoice_paid(i) \/ PaymentCommits(i)
             \/ \E money \in 1..Total : on_invoice_refunded(i, money)
             \/ EndHold(i) \/ approve_commission(i) \/ reject_commission(i) \/ ApproveDue(i)
      PROVE  RefundInv' /\ PayoutInv'
  BY <1>3, PayingStep, PaymentStep, RefundStep, ReviewSteps
<1>4. QED
  BY <1>0, <1>1, <1>2, <1>3, CommitStep DEF AffiliatesNext

\* "Refunds follow the money": a commission that is owed is the share of what
\* was kept, one that was paid out and is no longer earned in full is flagged,
\* for any totals, shares, invoices and people.
THEOREM CommissionsFollowMoney == AffiliatesSpec => []RefundsFollowMoney
<1>1. RefundInv => RefundsFollowMoney
  BY DEF RefundInv
<1>2. QED
  BY <1>1, AffiliatesStart, AffiliatesStep, PTL DEF AffiliatesSpec

\* A payout is exactly the commissions it paid, all of them its affiliate's.
THEOREM PayoutsAddUp == AffiliatesSpec => []PayoutAddsUp
<1>1. PayoutInv => PayoutAddsUp
  BY DEF PayoutInv
<1>2. QED
  BY <1>1, AffiliatesStart, AffiliatesStep, PTL DEF AffiliatesSpec

\* Only payouts to active affiliates are added, and what was added stays.
LEMMA PayoutsOnlyAdded ==
    ASSUME RefundInv, PayoutInv, [AffiliatesNext]_affiliatesVars
    PROVE  /\ \A p \in DOMAIN payouts : payouts'[p] = payouts[p]
           /\ \A p \in DOMAIN payouts' \ DOMAIN payouts : affiliate[payouts'[p].to] = "active"
<1>1. CASE payouts' = payouts
  BY <1>1
<1>2. CASE \E s \in Staff : PayoutCommits(s)
  <2>1. PICK s \in Staff : PayoutCommits(s)
    BY <1>2
  <2>2. affiliate[payer[s].to] = "active"
    BY <2>1 DEF PayoutInv, PayersAreReady, PayoutCommits
  <2>3. payouts' = Append(payouts, [to |-> payer[s].to, amount |-> payer[s].amount]) /\ Len(payouts) \in Nat
    BY <2>1, CommitRows
  <2>4. payouts \in Seq([to : Affiliates, amount : Sums]) /\ [to |-> payer[s].to, amount |-> payer[s].amount] \in [to : Affiliates, amount : Sums]
    BY <2>1 DEF RefundInv, AffiliateRows, PayoutInv, PayersAreReady, PayoutCommits
  <2> DEFINE added == [to |-> payer[s].to, amount |-> payer[s].amount]
  <2>5. added.to = payer[s].to
    OBVIOUS
  <2> HIDE DEF added
  <2>6. /\ DOMAIN payouts = 1..Len(payouts) /\ DOMAIN payouts' = 1..(Len(payouts) + 1)
        /\ \A p \in 1..Len(payouts) : payouts'[p] = payouts[p]
        /\ payouts'[Len(payouts) + 1] = added
    BY <2>3, <2>4 DEF added
  <2>7. \A p \in DOMAIN payouts' \ DOMAIN payouts : p = Len(payouts) + 1
    BY <2>3, <2>6
  <2>8. QED
    BY <2>2, <2>5, <2>6, <2>7
<1>3. payouts' = payouts \/ \E s \in Staff : PayoutCommits(s)
  BY DEF AffiliatesNext, affiliatesVars, set_status, attribute, record_payout, on_invoice_paid, PaymentCommits,
         on_invoice_refunded, EndHold, approve_commission, reject_commission, ApproveDue, run_approvals
<1>4. QED
  BY <1>1, <1>2, <1>3

\* "Only an active affiliate can be paid", also when staff suspend one while a
\* colleague records the payout; payouts add up after every step and stay as
\* they were made.
THEOREM PayoutsStaySound == AffiliatesSpec => PayoutsAreSound
<1>1. ASSUME RefundInv, PayoutInv, [AffiliatesNext]_affiliatesVars
      PROVE  [/\ PayoutAddsUp'
              /\ \A p \in DOMAIN payouts : payouts'[p] = payouts[p]
              /\ \A p \in DOMAIN payouts' \ DOMAIN payouts : affiliate[payouts'[p].to] = "active"]_affiliatesVars
  BY <1>1, AffiliatesStep, PayoutsOnlyAdded DEF PayoutInv
<1>2. QED
  BY <1>1, AffiliatesStart, AffiliatesStep, PTL DEF AffiliatesSpec, PayoutsAreSound

============================================================================
