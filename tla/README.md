# TLA+ models of Wpanel

Wpanel is a hosting company's portal: a Django application with Celery workers,
a PostgreSQL database, a Redis cache and calls to hosting servers (WHM/cPanel),
domain registrars, payment gateways and mail servers. This directory models the
parts in which money, services and the outside world have to agree, checks them
with TLC on small instances and proves every safety result with TLAPS for every
instance.

`PROJECT.json` lists components, runs, mutants, the map from definitions to
source lines, findings, hazards and theorems.

## 1. The system

| Component | State | Operations | Talks to |
|---|---|---|---|
| Billing (`apps/billing`) | invoices, payment and refund rows, webhook events, quotes, billable items, numbers | draft, issue, cancel; record, report, confirm, reject, refund; gateway start and webhook | gateway; signals `invoice_paid`, `invoice_cancelled`, `invoice_refunded` to orders, renewals, affiliates |
| Orders (`apps/orders`) | cart, order, lines, coupons | checkout, pay, hold, release, cancel, fulfil, retry, sweep, suspend/terminate | hosting, domains, billing, Celery queue |
| Hosting (`apps/hosting`) | account rows; the server's own accounts | request, provision, suspend, unsuspend, terminate, back up, change package, sync; control panel, staging, care | WHM/cPanel over HTTP |
| Domains (`apps/domains`) | domain rows, DNS records, prices | request, register, transfer, poll, renew, lock, DNS, price sync | registrar over HTTP |
| Renewals (`apps/renewals`) | `ServiceChange` rows | invoice renewals and upgrades, apply, void, retry, dismiss | billing, hosting, domains, lifecycle |
| Lifecycle (`apps/lifecycle`) | cancellation requests, notices, settings | request, approve, reject, withdraw, execute, retry; the daily run | hosting, billing, renewals |
| Locks (`apps/core/locks.py`) | a key in the cache | `single_flight` | used by hosting, domains, console |
| Notifications | email rows, in-app notices | queue, deliver, retry, sweep, resend, delete, wipe secrets | mail server |
| Assistant | conversations, staff hand-over, proposed changes and their codes | send, ask for a person, take, reply, hand back, close, ticket; propose, approve, verify, cancel | language model, support, hosting |
| Support | tickets, messages, attachments | open, reply, set status, close by itself, remove old files | notifications |
| Affiliates | referrals, commissions, payouts | attribute, earn, adjust on refund, approve, pay out | billing signals |
| Accounts, clients, products, storefronts, branding, reports, console, audit | records | forms and read-only views | - |

What is hard in it, and so what the models are about:

* **Calls that leave the database.** A server, registrar or gateway is asked
  between two database writes, without a lock or with one that expires; the
  answer may be lost after the call took effect and the process may be killed.
* **Stale copies.** Views and daily jobs load a row, check it, call out and then
  save fields of the copy.
* **Several actors on one thing.** Web requests, Celery tasks, a sweeper every
  five minutes, daily jobs and staff.
* **Delivery.** Gateways repeat, delay and reorder events; the broker may lose or
  repeat a task (`acks_late`, `reject_on_worker_lost`, `config/settings/base.py`).
* **Time.** Locks of 180 s, tasks of at most 300 s, in-flight orders given up
  after 30 minutes, claims valid for 10 minutes, terms of months.

## 2. Modules

Every module has the rows of its component as variables. A service function that
is one database transaction under a row lock is one action; one that calls out
is split at each call and at each write. An operator with a name such as
`MayClaim_always` directly before `MayClaim` is a *fault*: the same operator with
a plausible mistake, used to show that a property would notice it.

| Module | Models | Notes on the translation |
|---|---|---|
| `InvoiceRules` | open and settled statuses, the status `recompute_invoice` derives | shared by `Billing` and `Fulfilment` |
| `Billing` | `billing/payments.py`, invoices in `billing/invoicing.py` | A refund row is the field `refunded` of its payment. Sums over rows are cardinalities of sets of cents. Webhook events exist outside and may be delivered any number of times; `seen` is the table of recorded events. A gateway refund may happen and its row be lost (`refund_payment_lost`). |
| `Fulfilment` | `orders/fulfilment.py`, `lifecycle.py`, `signals.py`, `tasks.py`, holds and retries in `staff_actions.py`, `cancel_order` | Claim and outcome are transactions; in between a worker walks the lines on a copy loaded once and may die anywhere. Staff open a request on a page (`OpenRequest`) and cancel it later, whatever it has become (`CancelRequest`); `crossed` remembers the accounts this hit. Its invoice is reduced to status and sums. |
| `Delivery` | the promise to the customer, as an abstract specification | implemented by `Fulfilment` (`KeepsPromise`) |
| `SingleFlight` | `core/locks.py` | A key with a life time and a token; the release is two steps (compare, delete). A caller may die inside. |
| `Provisioning` | `complete_provisioning`, `cancel_request`, `sync_status`, `terminate_account` of `hosting/services.py`, the `createacct` and `removeacct` calls | Extends `SingleFlight`: entering and leaving the block are lock steps. Staff requests check a copy, ask the server and write the row without the lock; a removal may be answered, lost, or its process die before the save. `outrun` and `unseen` are history: who holds an answer older than a removal, and whether the row lacks a removal. |
| `Cancellation` | requests for hosting accounts and domains in `lifecycle/services.py`, `lifecycle/transitions.py`, the renewal invoice approval closes, the auto-renewal it switches off | Reviewing is one step; carrying out is claim, remove, refund, complete, each of which may fail or be the last. `wanted` is history. |
| `ServiceLife` | `renewals/services.py` for hosting, `run_lifecycle` and `lift_suspension_after_payment`, staff's suspend, unsuspend, terminate, backup and sync | Dates are days from today. The run and staff keep a copy and write the row after calling the server; the server's answer may be lost or the process die in between. A payment is one step, and its transaction may roll back after the server lifted the suspension. `history` (`held`, `liftFailed`, `crossed`) is read by properties only. |
| `EmailQueue` | delivery in `notifications/services.py` and `tasks.py` | Counting the attempt, sending and recording are three steps of a worker; a Celery task is a number of retries left in a bag. The sweep, resend, deletion and the daily wipe act on the row at any time; the broker may lose a task and a worker may die. |
| `Domains` | registration, transfer, polling, renewal, synchronising and cancelling in `domains/services.py`, the paid renewal of `renewals/services.py` | A process keeps its copy and the registrar's answer between asking and saving. The registrar may do as asked and the answer be lost. Each renewal invoice has its own `ServiceChange`; `bought` counts what the registrar carried out for it. The two single-flight keys are taken as locks (their expiry is `SingleFlight`'s subject). |
| `Checkout` | `orders/services.py`, `orders/pricing.py` | A line is checked in one step and saved in another; a checkout takes its two row locks in two steps and makes the order in a third. The order's later life is three moves: paid, stopped, cancelled. |
| `Affiliates` | `affiliates/services.py` | A payment's commission and a payout are read in one step and committed in another; a payout holds its locks in between. |
| `Assistant` | a chat (`assistant/agent.py`, `live.py`) and a change the customer approves (`actions.py`) | Conditional updates are one step; everything else checks a row loaded before and writes later. What the card shows and the messages say is a step after the update (`Tell`), and `told` keeps it, with whether the update hit the row. What the language model says is external. |
| `Tickets` | `support/services.py`, `support/lifecycle.py` | The cache key of a form is visible before the ticket is. The daily jobs are a query and, later, an act on the ticket it found. |
| `MC*` | instances for TLC | constants and symmetry only |
| `BillingProofs`, `FulfilmentProofs`, `CancellationProofs`, `ServiceLifeProofs`, `CheckoutProofs` | theorems about the model of that name | section 5 |
| `SupplierProofs` | theorems about `SingleFlight`, `Provisioning` and `Domains` | the outside calls that must not be made twice |
| `MessageProofs` | theorems about `Assistant` and `EmailQueue` | what customers are told |
| `DeskProofs` | theorems about `Tickets` and `Affiliates` | the desks staff work at |

Where one proof module extends two models, these are independent of each other: each
has its own variables, and `DomainsSpec`, `QueueSpec` and `AffiliatesSpec` carry the
name of their model so that `Spec` stays that of the other one.

The models meet where the components meet: `Fulfilment` and `Billing` share the
invoice rules, `Provisioning` is built on `SingleFlight`, and what
`Provisioning` shows of an account is what `Fulfilment` takes for one step
(`CompleteService`). `Checkout` ends where `Fulfilment` begins, with a pending
order. `Cancellation`, `ServiceLife` and `Domains` each keep what they need of the
renewal invoice; `Affiliates` is driven by the moves of an invoice that `Billing`
shows to be possible (paid once, refunds within payments).

Data that no property tells apart is left out: texts, addresses, currencies,
tax, reasons, audit rows, mails. Permissions are left out: an action is taken by
somebody who may take it.

## 3. Runs

| Run | Instance | What it shows |
|---|---|---|
| `billing` | 1 invoice, 3 payments, 2 events, amounts up to 2 | The invoice's sums and status are always those of its rows; recorded refunds never exceed payments and every one of them was made, also when the answer to another was lost; `invoice_paid` is sent at most once; a cancelled invoice has nothing pending; manual money never overpays; settled invoices (paid or refunded) do not become payable again; captured money is recorded in the end. |
| `fulfilment` | plan, add-on and domain; 2 workers; payments up to the price of 2; 1 page of staff | One worker at a time, one service per line whatever dies or is retried; an active order is delivered in full, but for an account cancelled from an old page, and agrees with its invoice; the whole implements `Delivery`; a paid order is picked up and a fulfilment ends. |
| `provisioning` | 2 callers, 2 staff requests, Wait 2, Hold 4, blocks of at most 3 | The lock excludes, with deaths, expiry and the two-step release, and waiters are answered; after an account was recorded active the server is not asked again; an active account is on its server, unless a removal is under way or the row does not tell of it. |
| `cancellation` | account or domain, 2 requests, 2 workers, 1 crash | One executor per request; nothing is completed or refunded before the service ended; without crashes refunds happen once and a withdrawn request has no effect; no renewal invoice stays open; a domain that is kept renews as the customer had it; due requests are attempted. |
| `cancellation_refund` (violated) | 1 request, 1 worker, 1 crash | A worker that dies between refund and completion leaves the next one to refund again. |
| `service_life` | 2 changes, term 1 day, notice/suspension/termination after 1/2/3 days | Terms are paid for once and never shortened; a payment brings the account back; nobody is suspended unwarned; the run removes an account that has no other backup only after one it asked for on an earlier day; staff suspensions stay; unpaid accounts are suspended in the end. |
| `email_queue` | 1 email, plain or secret; 2 workers, 1 retry, 2 faults, 1 resend | Every mail that left was counted, "sent" means a mail left and its secret is gone; a waiting email is tried whatever was lost or died; a secret leaves the database. |
| `domains` | 2 requests and the hourly job; 2 renewals invoiced, up to year 3 | The panel never shows more than the registry has; a change recorded as applied was carried out once and no other was, not counting a renewal whose outcome was lost; a transfer that is over is noticed. |
| `checkout` | 2 carts of one client, a visitor's cart, 2 coupon rules, 2 requests, 2 edits | One order per cart; coupons within their limits; the lines of an order go together. |
| `affiliates` | 2 invoices of one client, 2 affiliates, 2 people paying, 2 reviews | What is owed is the share of the money kept and what was paid out and refunded is flagged; payouts add up, stay, and go to active affiliates; holds end. |
| `assistant` | 2 requests, 2 people, 3 codes, 3 attempts | A change is made at most once, and after its code; what the customer was told of it is and stays so, but for a lock or an expiry told of a change that was no longer pending. |
| `tickets` | 2 copies of a form, key 3 s, writes up to 2 s; close after 1 day | Two tickets of one form are far apart; a customer who answered is heard although a daily job had found the ticket; a resolved ticket ends. |

Every property of a passing run has a mutant of the code that TLC shows to break
it. `cancellation_refund` is a finding; `PROJECT.json` quotes the line it
contradicts.

**Where the code and its words part.** Besides the finding, the models reach these
cases, each of which breaks a sentence of the repository. They are stated here and
in the notes of the hazards, and the properties are worded to leave out exactly
them:

* An invoice can become paid without `invoice_paid`: part paid, refunded, then a
  late gateway success (`Billing`; `InvoicePaidSentOnce` says at most once).
* A held order whose partial payment was refunded counts as settled and is
  released as paid (`Fulfilment`; `OrderAgreesWithInvoice` leaves out invoices with
  a refund).
* A block that outlives its key, as a long panel backup may, is entered twice
  (`SingleFlight`; assumption `WorkLimit < Hold`. With `WorkLimit = Hold` TLC finds
  `Exclusive` violated).
* A cancellation working on an old copy cancels an account that has become active,
  and the active order then has a cancelled account (`hosting/services.py:205-214`
  checks and saves the instance its view loaded; `Fulfilment`, history variable
  `crossed`, and `Provisioning`, where nothing is said of the row after it).
* `terminate_account` takes no lock: a sync or a provisioning that the server had
  answered before writes "active" over the termination, and the panel shows a
  running account that is gone (`Provisioning`, `unseen`).
* The daily run writes over a suspension staff made after it loaded the row, and
  the next payment lifts it (`ServiceLife`; `crossed`).
* `backup_before_terminate` promises to "request a backup from the server first, and
  wait a day" (`lifecycle/models.py:41-43`, and the comment at
  `lifecycle/services.py:623-626`). `backup_requested_at` is never reset, so a backup
  staff asked for, years ago or the same day, or the run's own from an unpaid period
  that was paid since, counts as that one: the run removes the account without a new
  backup and without waiting (`ServiceLife`; `srv.backup = "other"` in
  `BackupBeforeRemoval`).
* A double click of staff renews a domain twice, although `domains/services.py:6-8`
  says that a repeated call "never registers/renews twice" and
  `docs/phase-04-gap-report.md:58` calls renewal idempotent: `_renew_domain`
  (345-366) checks only that the domain is active, and stays so (`Domains`;
  `RenewalsWerePaidFor` counts paid renewals, not staff's).
* A renewal the registrar carried out and whose outcome was lost is bought again by
  a retry (`Domains`; `Dies` takes it off `bought`).
* After the third wrong code `verify` marks the card locked and says "I locked this
  request. Nothing was changed." also when its update found no pending row, because
  the right code of another tab is at work or done (`assistant/actions.py:300-307`);
  `approve` and `verify` mark a change that was done as expired in the same way
  (289-292, 341-344) (`Assistant`; `hit = FALSE` in `ToldIsTrue`).
* A late code is answered with "The code expired. Request a new code.", but the change
  has just been marked expired and `resend_code` refuses it (`Assistant`; no property).
* A chat that staff took while the assistant was answering goes back to the
  assistant, and two tickets can be made of one chat (`Assistant`).
* Two carts can order the same new domain name: the lookup among unpaid orders is
  under locks they do not share (`Checkout`).
* Two invoices of one client paid at the same moment both earn "first sale"
  commissions (`Affiliates`).
* A ticket answered and resolved anew while the daily job is under way is closed
  at once, and the files of one reopened meanwhile are removed (`Tickets`).

**Exceptions in the properties.** `PaidIsUp`, `WarnedFirst` and `StaffHoldStays`
hold unless the row was written while somebody held a copy of it, or the server did
something the row does not tell of: an answer was lost, a process died before its
save, a payment's transaction rolled back after the lift (`crossed`; the first two also
leave out refused lifts, `liftFailed`);
`RefundedOnce` and `WithdrawnHadNoEffect` hold while no worker has died;
`AutoRenewIsKept` holds unless the customer set the switch while a request was
approved; `ActiveMeansDelivered` leaves out the accounts in `crossed`,
`ActiveIsOnServer` a removal under way or `unseen`; `RenewalsWerePaidFor` does not count
renewals whose outcome was lost; `ToldIsTrue` asks nothing of what was told without
hitting the row except that it is a lock or an expiry. These are the conditions under which the code keeps its word.

**Bounds.** Three payments are the fewest with which a part payment, a second
one that completes and a late third one meet; two events suffice for success and
failure of one payment, each deliverable again and again. Amounts up to 2 give
part payment, payment in full and overpayment. In `Fulfilment` a price of 2
gives part payment, payment in full and a refund of a part; the proof covers any
price, and higher ones, where a part payment may follow the refund of another. Two workers are needed for every
race about a claim, and the sweeper, the queue, retries and requests are all
taken by either. Three lines give a dependency (add-on on plan) and an
independent line. In `SingleFlight` only the order of `Wait`, `Hold` and the
length of a block matters. `Cancellation` has a second request so that
a withdrawn or rejected one can be followed by another. In `ServiceLife` the days
before notice, suspension and termination differ, so every stage is reached on
its own day, and two changes allow a renewal and an upgrade in either order.
In `EmailQueue` two workers, a retry and a resend put the same email into two
deliveries; `SweepMaxAttempts` 2 lets the sweep give up. In `Domains` two requests
meet the hourly job, which covers every pair of operations with the poll between
them; two invoices put a failed change of one beside a pending one of the other, and
`MaxYears` is the registry's own limit of ten years, made small. `Checkout` needs two carts for the coupon and two requests for one cart;
carts may begin with a plan, so two edits apply the coupon to both, or add an
add-on and change its plan (three edits pass too, in ten times the time). `Affiliates` has
an invoice total of 3 and a share of 2, so a partial refund leaves a commission
of less than the minimum payout. `Assistant` has the three
attempts of the code and two requests at once, each of which may follow others, so
that a wrong code, a right one, an approval and a cancel meet in pairs. In `Tickets` the life of the key exceeds the longest write
by one second, and the reply window ends before the files go.
`LostRefundBound`, `MaxQueue`, `ServiceBound`, `MaxCrashes`, `Floor`, `MaxFaults`,
`MaxPages`, `MaxRenewals`, `MaxCodes`, `MaxEdits`, `MaxOrders`, `MaxReviews`, `MaxTickets` and `MaxDays` cap what
would otherwise grow. Deadlock is not checked where a system may rightly come to
rest: everything paid, delivered, cancelled or used up. Symmetry is used only in
runs without liveness.

## 4. Fairness

* `Billing`: `WF(handle_webhook(e))`. A gateway redelivers an event until it is
  acknowledged; nothing obliges people to pay, confirm or refund.
* `Fulfilment`: time, `sweep_paid` and `sweep_reset` (a Celery beat entry every
  five minutes) and a worker that has begun, which goes on or is killed at its
  hard limit (`CELERY_TASK_TIME_LIMIT`). The queue is not fair: the broker may
  lose a task, which is what the sweeper is for. `TaskLimit < StuckAfter` is
  300 s against `STUCK_IN_FLIGHT_AFTER`, 30 minutes.
* `SingleFlight` and `Provisioning`: time passes; a waiting caller polls; a caller that is inside
  goes on or dies. `WorkLimit < Hold` is the 30 s timeout of an HTTP call against
  `HOLD_SECONDS` = 180.
* `Cancellation`: the daily job attempts due requests and a worker that claimed
  goes on or dies within `WorkLimit < ClaimTimeout` (300 s against 10 minutes).
* `ServiceLife`: days pass and the run is started each day (`SF(NextDay)`, since
  requests come and go), the run goes on, a staff request ends one way or another
  (`WF` of its call, refusal, save and loss), and a server that is asked day after
  day to suspend an account does so in the end and the run lives to record it
  (`SF(JobSuspend)`, `SF(JobSaveSuspended)`): the run itself tries again every day
  and never gives up. An account that has left its server is not waited for.
* `EmailQueue`: workers work, the beat runs the sweep (every ten minutes) and the
  wipe (daily), rows grow quiet and old. Faults are bounded, resends are not owed.
* `Domains`: what was begun goes on, and the hourly job asks again. Its answer and
  its save are strongly fair: the registrar does not refuse a finished transfer for
  ever and the row is not locked every time.
* `Affiliates`: the daily job, the end of a hold, and a payout's transaction.
* `Tickets`: time passes, requests end, the daily jobs are started, and the worker
  is not stopped every day just before the ticket (`SF(CloseFound)`).
* `Checkout` and `Assistant` state no liveness: customers may stop at any point, and
  nothing looks for a change that was left running.

## 5. Proofs

All theorems hold for every value of the constants that meets the named
assumptions, and all are checked to the last leaf.

**`BillingProofs`.** `TypeCorrect`, `LedgerConsistent`, `RefundsBounded`,
`PaidSentOnce`, `CancelledIsQuiet` follow from one inductive invariant `IInv`. The
properties alone are not inductive. `invoice_paid` is sent when an open invoice
becomes paid, so to know it is not sent twice one needs that an announced
invoice stays covered by its payments (`AnnouncedStaysPaid`): the paid sum never
falls, so its status stays paid or refunded and it is never open again. For the
sums, refunds are bounded row by row (`RefundsWithinRows`), payments belong to
issued invoices and drafts are bare. Sums are cardinalities of sets of cents, so
what the proof needs of them (`CentsFinite`, `PaidGrows`, `RefundedWithinPaid`) is
about subsets and needs no induction. `SaveKeepsInvariant` is the common step:
rows change, then one invoice is recomputed. One lemma each covers the invoice,
payment and gateway actions.

`SettledStaysSettled` is an action property: no paid or refunded invoice becomes payable
again. A refunded one may have been paid only in part, so this is not a matter of its
sums alone: all that can still come for it is a gateway payment, and each of those asks
for everything that was due when it began (`GatewayCovers`, part of `CoverInv`), so one
more makes it paid or leaves it refunded. `ManualMoneyBounded` needs another
invariant, `ManualInv`: the gateway speaks only of payments it was given
(`EventsAreOnline`), so only staff make a manual payment succeed, under the invoice's
lock and within what is due then.

**`FulfilmentProofs`.** `NeverTwoWorkers`, `NeverTwoServices`, `OrdersAreSound`
from `FInv`, assuming `TaskLimit < StuckAfter`. That one worker is at the order does
not follow from its status: the sweeper gives up on an order in flight and another
worker may claim it. It follows from two clocks that run together (`ClockAgrees`): a
busy worker is as old as the order's status, so an order old enough to be given up has
outlived its worker. Exclusion keeps the worker's copy of the lines right for every
line it has not reached (`CopyIsFresh`), which is what makes the test for an existing
service sound (`ServiceInHand`, `OneServicePerLine`). An order that was ever paid has a
settled invoice (`OrderIsSettled`) because the invoice's status is a function of its
sums (`InvoiceIsDerived`). `FulfilmentKeepsPromise` is the refinement: under `FInv` the
initial state and each step, with what the customer sees of the order (`OrderStage`), are
an initial state and a step of `Delivery`, or a stutter.

The first attempt at this proof failed, and rightly: the model had let a gateway pay a
part of the price of an invoice whose part payment had been refunded, which only a
price of at least 3 shows. A gateway payment is always the balance of the moment it was
begun (`start_gateway_payment`), and the model now says so. That an active order's accounts
run is proved up to `crossed`: a page of staff that was opened before an account became
active is a copy nobody refreshes, and the invariant says of every other account that it
stays as the worker left it.

**`SupplierProofs`, the lock and `Provisioning`.** `LockExcludes`, assuming `WorkLimit < Hold`. The invariant says
that a working caller's token is in the key and that the key's remaining life plus the
time worked is at least `Hold`: the key cannot run out under it, and the key that it
compares, then deletes, is still its own. Without the assumption the theorem is false
(section 3). `ServerNotAskedAgain` is on top of it: from the moment the account is
recorded active, the row is active or cancelled for good, and no caller is past the
check inside the lock (`AfterDelivery`); here exclusion is needed, since a second caller
past the check would ask again. `ShownAccountsExist` needs no lock: whoever is about to
write "active" has the server's word, and that word is still true or a removal has outrun
it (`outrun`); saving it then is what makes the removal `unseen`.

**`SupplierProofs`, `Domains`.** `PanelKeepsWord` from `PromiseInv`. A process saves what the
registrar said some steps ago, over whatever the row says by then, so the property is
about answers in flight as much as about the row: an "ok" that waits to be saved is
still true of the registry (`AnswersHold`). It is, because the registry's date only
grows and a domain that is the client's stays so; a transfer that ends sets the date
anew, and until then no answer and no active row vouched for the domain.
`NoRenewalForNothing` from
`RenewalInv`: for each change, `bought` is one exactly when the change is applied or a
process has the registrar's "ok" for it and has not committed (`Accounts`). With it goes
that the row lock lets one paid renewal through at a time and that its change is not over
while it works (`OneApplies`): without that, two retries of one failed change would each
buy a year. A process that dies with the "ok" takes its renewal off the count, which is
the case the property leaves out.

**`CancellationProofs`.** `OneWorkerPerRequest` and `EffectsFollowStatus` from `CancelInv`,
assuming `WorkLimit < ClaimTimeout`. A worker past its claim holds a claim exactly as old
as itself (`ClaimIsHeld`), so nobody claims or withdraws under it. What follows for
money holds while no worker has died (`NobodyDied`: what is being carried out is still
approved, and what was given belongs to a request that is complete or about to be).
The auto-renewal given back is the customer's own because an approved request remembers
it (`BeforeIsWanted`) and only one is open (`OneOpen`).

**`ServiceLifeProofs`.** Three invariants, one on top of the other. `TermsInv` gives
`NoTermForNothing` and the types: the end of a term moves once for each applied change
that moved it, so no account is paid further ahead than was bought (`PaidAhead`).
`FairInv` gives `SuspensionsAreFair`: as long as nobody wrote the row while another held
a copy of it and every call was recorded, the run's copy is the row (`CopyStands`), the notice exists or a reported
payment held it back and holds the suspension back too (`NoticeStands`), server and row
agree whenever nobody is between call and write (`ServerAgrees`), and what staff
suspended is not marked unpaid (`HoldIsStaffs`). `BackupInv` gives, with `TermsInv`, the
action property `NothingGoesMissing`: a backup the run asked for today belongs to the run
that has ended, so the run that removes relies on an earlier one or on another backup.

**`CheckoutProofs`.** `OneOrderEach`, `CouponBounded`, `OrdersGoTogether` from `CInv`. The
row lock of the cart keeps its status and its coupon still and not its lines, which are
removed and changed without it; so what the second pass checked is claimed of the copy
the request carries (`CopyFits`), while the cart is still open (`CartHeld`). Whoever is
about to redeem the coupon has held its lock since before it counted, so the count it
made stands when the order is placed (`CouponHeld`): others can only give redemptions
back. Counting uses the theorems on finite sets.

**`MessageProofs`, `Assistant`.** `MadeOnce` from `RunInv`: the conditional update
is the only way to the server, whoever wins it finds the change pending and nothing
done (`OneRunner`), and gets there only with the code typed where one is needed
(`CodeComesFirst`). "running" does not say that somebody is at work: a worker that dies
leaves the change so for ever. `ToldStaysTrue` is on top of it (`ToldInv`): a status that
ends a change is never written over (`EndedStays`), so what was told of the row, or is
about to be, stays true (`SaidStays`), and an update that misses can only be a lock or an
expiry (`GiveIsFine`).

**`MessageProofs`, `EmailQueue`.** `LogIsBelievable` from `LogInv`. Several workers may have the
same email, and each writes its outcome over the others'. That no mail leaves uncounted
needs the counting to be one ahead of every worker about to send: `mails[e]` and the
workers at that point together are at most the attempts (`AttemptsFirst`). A worker that
writes "sent" has the mail server's word (`CopiesAreTrue`), which is not forgotten when
the row is resent, fails or is deleted meanwhile. An email that is not recorded yet is
in nobody's hands (`NothingBefore`).

**`DeskProofs`, `Tickets`.** `OneTicketPerForm`, assuming `WorkLimit < KeyLife`: the key and
the request that added it age together (`KeyOfWriter`), so the key cannot be gone
while somebody writes and there is one writer (`OneWriter`); and the age of the
newest ticket plus what is left of the key is at least `KeyLife - WorkLimit`
(`KeyCovers`), so when the key is free again that much time has passed.
`CustomersAreHeard` needs the type of the ticket only: the invariant is inductive
because the job looks at the status again under the row's lock.

**`DeskProofs`, `Affiliates`.** `CommissionsFollowMoney` from `RefundInv`, for any total and
any share of it, with the rounding of the code (`FullShare`: nothing refunded, the whole
share; `ShareNat`). An invoice that is not paid has earned nothing and has no refund
(`NothingEarnedYet`), and the rows a payout has locked stay approved and its affiliate's
(`LockedRowsStay`), so that a row that is paid out was still owed a moment before.
`PayoutsStaySound` is an action property over `PayoutInv`: what a payout added up is what
its rows still say when it commits (`PayersAreReady`), its affiliate is still active, and
no commission carries the number of a payout to come (`PayoutsAreNumbered`). Sums are the
library's fold over a function and are never computed: two sums are equal because the
functions are (`SameSum`).

Every inductive invariant was first checked with TLC as an invariant of the run's
instance.

**Only model-checked:** the liveness properties (fairness and ENABLED are out of the
prover's reach): `CapturedMoneyIsRecorded`, `OrderMovesOn`, `WaitersAreAnswered`,
`DueIsAttempted`, `UnpaidIsSuspended`, `QueuedIsTried`, `SecretIsWiped`, `TransferFinishes`,
`HoldEnds`, `ResolvedEnds`. Every invariant and every action property of a passing run, and
the refinement of `Delivery`, is a theorem.

## 6. Not modelled

* Presentation, reports, branding, catalogue and client records, knowledge base,
  audit: records edited by one request, or output. These, the views, forms,
  serialisers and the adapters' HTTP calls are most of the repository's lines and
  have no state that outlives a request except the rows the services keep.
* Control panel calls, website care, installers, insights: the state is the
  server's, and the portal passes on requests and answers.
* Staging copies: scripts on the server race with a time-out and with each other,
  and no lock or check in the code orders them (see the hazards).
* The WordPress connector (a client of the read interface) and storefront pings
  (the receiver reads everything again).
* Price, tax and rounding arithmetic, apart from the status rules.
* In modelled parts: permissions, dry runs of the daily run, imports of existing
  accounts, `set_hosting_term`, deletion of records, several invoices per order;
  DNS records and contacts of a domain; in-app notices; canned replies,
  departments and priorities; links, clicks and statistics of affiliates.
* Smaller things the models fold together: in `Cancellation` a removal whose answer was
  lost counts as refused (the server refuses the next one); in `ServiceLife` a backup
  that was made and not recorded is only asked for again; in `Domains` a name that
  lapses or is transferred away at the registry, and a transfer whose answer was lost
  (it has no reference and is left as failed, so the hourly job does not look for it);
  in `Affiliates` money that arrives on an invoice after it was paid.
* `ServiceLife` assumes the lifecycle settings switched on (suspension,
  termination, lifting after payment); that a server may always refuse covers
  them being off, except in the liveness property.

## 7. Plan

1. `OrderCascade`: suspending and ending an order with several accounts
   (`orders/staff_actions.py`).
2. Reminders and expiry notices (one row per invoice and kind) in front of
   `EmailQueue`.
3. Quotes and numbering; totals and proration as operators, checked against
   reference definitions.
4. Sign-in, codes and devices (`accounts`), whose counters live in the cache.

The hazards of `PROJECT.json` that carry a note and no property say why.
