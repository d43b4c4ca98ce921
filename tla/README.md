# Finance Delta: what is modelled, checked and proved

Finance Delta is an accounting application: an Express API over MongoDB
(`apps/api`), a Next.js web client (`apps/web`), shared schemas
(`packages/shared`), and connections to two sales CRMs, a learning management
system (the LMS), a commission system (CS Portal) and an HR system. This
directory holds TLA+ models of the parts of it where several handlers, workers
and other systems change the same documents, the TLC runs that check them, and
TLAPS proofs about each of them.

What makes the API hard is the same everywhere. There are no MongoDB
transactions. A handler reads a document, awaits other things, and writes back;
between any two awaits any other handler, a background worker (a timer in the
same process) or a restart may come. Three devices hold the system together:
a conditional `findOneAndUpdate` (a *claim*), Mongoose's version check on a
saved array (which covers an edit in it, not a `$push` or a `$pull`), and queues
that are documents with a state, an attempt count and a back-off. The models ask
whether those devices are enough for what the code says of itself.

## The system's parts

| part | state it keeps | what changes it | what is hard | what makes it correct | here |
|---|---|---|---|---|---|
| CS Portal payments (`modules/tetra-deposit`) | a request per payment: status, delivery, the payment it recorded | intake; approve, reject, resend, reopen, delete, restore; withdrawal by CS Portal; a worker pass | six writers with claims on different fields; a crash between the invoice and the request; lost answers; a retry after two minutes | one sender at a time; a payment recorded once; what CS Portal hears is what finance holds | `TetraDeposits` |
| Fee updates (`integrations/commission-fee-update`) | one queue row per invoice holding the newest picture of its money | every change of the invoice starts an un-awaited call; a worker pass | overlapping calls; an outcome written over news; a pass that dies | delivered means CS Portal has it; it comes to show the money as it is | `FeeUpdates` |
| LMS provisioning (`jobs/lms-provision.worker`, part of `invoice.service`) | a row per approved invoice: status, payload, access, extra courses, commission | approval, payment, deletion (un-awaited calls); a worker with four stages | a snapshot of the row used across awaits; news raised meanwhile; deletion during approval | the enrolment arrives, is opened as far as paid, and stops when the invoice goes | `LmsProvision` |
| Invoices (`modules/invoice`) | the document, its payments and totals, a bank line per payment | create, approve, edit, pay, edit or delete a payment, void, restore, delete | read, check, save with totals kept beside the payments; three documents written one after the other | totals equal the payments and credits; never paid beyond the total; one bank line per payment | `InvoicePayments`, `PaymentLines`; approval in `EnrolmentIntake` |
| Credit notes (`modules/credit-note`) | remaining amount, applications | issue, apply, void | applied to the invoice, counted afterwards | the invoice's total and balance agree with what was applied | `InvoicePayments` |
| Enrolment intake (`integrations/enrolment-intake`) | an invoice per CRM enrolment, in one of two academies' books | sent, sent again, corrected, returned, resubmitted, moved to the other academy and back | created first and keyed afterwards; two organizations' documents; approval while a correction is being written | one bill per enrolment; an approved invoice is not rewritten | `EnrolmentIntake` |
| Banking (`modules/banking`) | lines, running balance, reconciliation sessions | add, correct, delete lines; start, tick, edit, complete, reopen, delete reconciliations; import, match, transfer | lines, account and session are written in turn; a line changes after it was ticked | a completed reconciliation still adds up; locks and the last balance follow it | `Reconciliation` |
| Balance payments (`modules/balance-payment`) | a CRM's request and its receipt | sent, approved, rejected | a claim, a payment and an answer are three writes; a retry after a failure | on the invoice once; approved only if it was | `InvoicePayments` |
| Late entries (`modules/late-entry`) | an entry per record dated too far back | asked, withdrawn, decided, given back; swept by the page | the entry and the record it is about are two documents | decided by one manager; what is shown is what waits | `PaymentLines` |
| Sessions, password tokens (`modules/auth`) | refresh tokens, reset and invite tokens | rotate, claim, revoke | find, then delete | a token is good once | plan |
| Commission payouts | payout per person and month | compute, pay, undo | two claims for one month | paid once | plan |
| Recurring documents, reminders | next date of each template | a tick | a tick that dies between the document and the date | one document per date | plan |
| Expenses, bills, vendor credits | as invoices | as invoices | as invoices | as invoices | after the invoice's payments |
| Inventory, numbering | counters | atomic `$inc` | little: one write each | - | a candidate, and out |
| Payroll, quotations, orders, procurement, budgets, loans, advances | documents with a status | one handler per change | little concurrency, calculation | - | not modelled |
| HRMS wallet, departments, portal directory | copies of another system's rows | replaced whole on each pull | - | - | not modelled |
| Reports, dashboard, approvals, search; the web client | none | - | read-only, or enforced by the API | - | not modelled |

How they meet: a decided deposit records a payment on an invoice
(`recordPayment`); every change of an invoice's money starts `queueFeeUpdate` and,
for some of them, `syncLmsAccess`; an approval starts `queueLmsProvision`; the LMS
worker's last stage sends the student to CS Portal and then starts the first fee
update. All of it meets in the invoice document and in each queue's row.

`docs/ARCHITECTURE.md` and `docs/DATA_MODEL.md` also describe a posting engine, a
ledger and transactions. No code implements them, so nothing here models them.

## Modules

### TetraDeposits

`tetra-deposit.service.ts`, with the payment it puts on an invoice and its call to CS
Portal. One action is the code from one await to the next.

| variable | in the code |
|---|---|
| `row` | the `TetraDeposit` document: `status`, `delivery.state`, `payment.paymentId`, `deleted.previousStatus` |
| `invoice` | the payments whose `externalRef` is the request's |
| `minted` | how many were ever made (their ids) |
| `portal` | CS Portal's own copy of the request (external) |
| `owed` | CS Portal has rejected a request and still asks finance to withdraw it |
| `call` | each running handler: its next step, and what it read |
| `found` | what the worker's query returned and nobody has rewritten since (its claim compares the delivery) |
| `stuck` | requests "sending" for longer than `STUCK_MS` |
| `void` | requests whose payment is on an invoice that is void now |
| `overlooked` | for the properties: reopened while that was so, the payment not taken off since |

`Decide`, `Resend` and `Claim` are the three claims. `ReadInvoice`,
`SavePayment`, `ReadBack`, `Remember`, `PutBack` are `recordBalancePayment` and
`recordCoursePayment` around `recordPayment`; `Load`, `SendAnswered`,
`SendLost`, `Outcome` are `deliverDecision`; `ReopenRead`, `WithdrawRead`,
`FindPayments`, `TakeOff`, `Reopen`, `Withdraw` take a decision back;
`DeleteRead`, `DeleteCheck`, `Delete`, `RestoreRead`, `Restore` are the manual
deletion. `VoidInvoice` and `RestoreInvoice` are accounts' calls on the invoice: a payment
on a void one is still found by its `externalRef` when a payment is recorded (`OnInvoice`), but
not when it is to be taken off, nor when the request is deleted (`HeldFor`, which has the
`status: {$ne: "void"}` of the code). `Fail` ends any handler at any await. A request of kind `"deposit"` names
no invoice, `"balance"` names one, `"course"` has one made for it.

Abstractions: an invoice's refusal (void, paid, owing less) is a choice, since its
totals are not in this model; it is voided only while it holds the request's payment (before
that a void invoice is one that refuses), and only where the payment is a part of it (`Voidable`: one
paid in full is not voided); `TakeOff` is `deletePayment` from its read to its save: a
payment another handler took off in between is refused or pulled once more, as the read
came after or before; receipts,
emails, and the customer or second invoice of a course payment are left out. A
live handler finishes within the two minutes of `STUCK_MS`: its one slow call is
given up after 20 seconds (`lib/commission-client.ts:16`), so `Ages` waits for a
claim nobody holds.

### FeeUpdates

`queueFeeUpdate` and `drainFeeUpdates`. A picture of the money is a version
number, since every change makes another; `deleted` says the call was given the
document instead of an id. `Stamp` reads the clock, and no two reads are equal
(in the code it is a millisecond, and two calls in the same one would share it). `SendStudent` is the LMS worker's fourth stage, in
one step up to the call that it starts. CS Portal's side is external: it keeps the
picture with the latest stamp and answers an unknown invoice with
`UNKNOWN_INVOICE`.

### LmsProvision

`queueLmsProvision`, `syncLmsAccess`, the part of `deleteInvoice` that clears the
queue, and `lms-provision.worker.ts`. A status is a rank, 0 for one that is not
set, then unpaid, partial, paid. `Find` takes the row as the query found it into `job.row`
and each stage goes on with that snapshot while others write the row, as
the worker does with its batch. A row's stages may come in any order, since each
has a back-off of its own. One other course stands for the further courses of an
invoice; a student the LMS has already may be left as they are when they arrive
again; the LMS and CS Portal connections are configured; one approval per
invoice. `Throws` is a database error after the row was saved but inside the same
`try`, whose handler puts the row back.

### InvoicePayments, implementing SettledRequests

The money of one approved invoice, with three sources of it: payments accounts
type, a credit note, and balance payments a CRM sends.

| variable | in the code |
|---|---|
| `invoice` | `status`, `totalMinor`, `amountPaidMinor`, `balanceMinor` and `payments` of the `Invoice` |
| `note` | `status` and the applied amount of the `CreditNote` |
| `request` | the `BalancePayment`: its status, `decision.decidedAt`, amount, receipt number |
| `call` | each running handler: its next step, and the documents it read |
| `minted` | receipt numbers taken from the sequence |
| `credited`, `recorded`, `raced`, `crossed` | for the properties only |

What a save does is the point of this module. A handler reads the document, changes
it in memory and saves: mongoose writes only the fields that changed from what was
read (`Written`), a new payment is a `$push` and a deleted one a `$pull`, on the list as
it is by then, and only an edit inside the list (`SaveEdit`) or of all the lines
(`SaveAmend`) is refused if the document's `__v` moved (`MovesOn`). So two calls can
leave fields from each of them. `Record`, `Edit`, `Remove` are the three handlers of
payments; `Amend` is `updateInvoice` with other lines; `Void`, `Restore` and `Send` change the
status (a voided invoice with nothing paid comes back as a draft); `Apply`, `Target`, `ApplySave`, `Count` apply
the credit note; `Approve`, `Weigh`, `Claim`, `ReadToRecord`, `SaveRecorded`, `Back`,
`Unset`, `Receipt`, `StampReceipt`, `Mark` are `decideBalancePayment` with
`recordPayment` and `issueReceipt` inside. `Die` ends a call at any await; `Throw` is
a failure of `recordPayment` before or after its save, which the code catches.

`SettledRequests` is what finance promises a CRM: a request is on its invoice at most
once, and none is approved that never was on it. `KeepsPromises` is
`INSTANCE SettledRequests` with the CRM's answer as the status and a count of the
invoice's payments that carry the request's reference. It allows a rejection to be
overwritten by an approval under way, because the code does.

Left out: the overdue status (computed when shown), edits of a payment that leave its
amount and of the lines that leave the total, a total of nothing, the stock, emails, the fee
and LMS queues.

`SumOf` counts minor units: the pairs of a payment and a number from 1 to its amount. That is
the sum, without the recursion a proof could not follow.

### PaymentLines

The same payments seen from the bank account: each has a line there, unless its date
is too far back, when it waits for a manager and has none.

| variable | in the code |
|---|---|
| `payment` | the payment: its `value` (what `lands` and in which account, and the `charges` taken off before), `date`, `late`, `bankTransactionId` |
| `bank` | the `BankTransaction` of each: value, date, whether it is reconciled |
| `entry` | the `LateEntry`: what it is about, the date before, its state |
| `void` | the invoice is |
| `call` | each running handler: its next step, and what it read |
| `raced`, `undone` | for the properties only: calls have overlapped; entries a failed decision gave back |

A payment's credit and the debit of its charges are one line here, of the value and date of
both: they are made, kept and removed by the same tests, one after the other in one call. A change
of what lands or of the date asks whether the line may move (`MayEdit`, the `moves` of
`updatePayment`); a change of the charges with the amount, which lands the same, does not.

A handler saves the payment (`SaveRecord`, `SaveEdit`, `SaveDelete`), then opens or
withdraws the late entry (`Reask`, `Ask`, `Unask`), then makes the line follow (`Sync`,
`KeepOrRemove`, `Make`, `Link`, `RemoveLine`). A manager's decision is claimed (`Claim`),
applied (`Apply`, `SaveApplied`; a new payment that is refused is marked and deleted,
`Refuse`, `DeleteRefused`) and undone where that throws (`GiveBack`). `Void` and `Restore` void
the invoice and bring it back with the payments it has. `Sweep` is the
manager's page, which withdraws what no payment waits on; `Reconcile` is a bank
statement signed or taken back.

Left out: a process that dies between the save and the sync (the line is behind until the
payment is next synced), payments into no account, the notes a failed sync leaves on a payment, transfers, petty cash, lines matched to an imported statement, and the late
entries of expenses, bills and typed bank lines, which go through the same
`decideLateEntry` with an `apply` of their own.

### Reconciliation, implementing SignedStatements

A clerk and the keeper of the lines on one bank account: `Start`, `Tick`, `Edit`, `Lock`
to `Sign` (`completeReconciliation` writes the lines, the account and the session in
that order), `Reopen`, `Drop`, `Delete` with `Restore`; and `Add`, `Correct`,
`RemoveLine` behind `assertEditable`. `session`, `line`, `last` are the
`ReconciliationSession`, the `BankTransaction` and the account's
`lastReconciledStatementBalanceMinor`. A handler that reads and then writes
is two steps. `Tick` takes any lines of the account, as `updateReconciliation` does, those
another reconciliation was completed with included. `stale` and `overtaken` are for the
properties: the reconciliations a ticked line was changed under or a call died about, and those of
which another reconciled a line again.

`SignedStatements` is the set of the statements signed (from, to, balance): a new one starts
after every other ends, and only the last is withdrawn. `SignedInOrder` shows the sessions
that are completed to be one. `SumOf` counts the units of the lines' amounts, those of
positive ones less those of negative ones.

One clerk: the count of open sessions and the creation of one are two
steps of `startReconciliation` with nothing between to stop a second clerk, so with
two every property fails at once. Left out: sessions without a period, statement dates,
running balances, cash counts, imports, matching, transfers.

### EnrolmentIntake

One enrolment of a sales CRM and every invoice ever made for it, in two academies'
organizations.

| variable | in the code |
|---|---|
| `invoice` | an `Invoice`: its organization, whether `external` holds the CRM's id, `approval.state`, `status`, whether it has payments, `enrolment.movedTo` |
| `call` | a call of the CRM: its next step, the invoice found or made, the other academy's |
| `desk` | an approval between its read and its two writes |
| `hands` | for the properties: what people did to voided or moved invoices |

`Send` is the first query of `intakeEnrolment`. From there a call goes one of three ways:
`Elsewhere`, `Create`, `Key`, `MoveOut` (new here, and perhaps moved from the other
academy); `Back`, `Restore`, then as the next (moved away earlier and back now);
`Correct`, `Rewrite`, `Requeue` (`resubmitReturned` around `updateInvoice`). Accounts
approve (`Approve`, `SaveApproval`, `Issue`), send back, resubmit, void, restore and
delete in between.

What is billed, the customer, the salesperson, receipts and notes are left out, as are
payments typed after approval and edits by hand; of an invoice's version conflicts only
those that payments cause are kept.

## Runs

All runs use one request, one invoice, one account or one enrolment: documents do not
share state in these parts (each query, claim and outcome names one document; a worker
takes one at a time), so what could go wrong goes wrong between the actors on one document.
A second actor of a kind is there where the property is about two of them, and a
third adds no new pair. `CHECK_DEADLOCK FALSE` is right in every run: once everything
is answered and the bounds are used, the system has nothing left to do.

| run | what it asks | bounds |
|---|---|---|
| `deposits_two_desks` | with two accountants, the worker, CS Portal's withdrawal and one crash: is a decision in one sender's hands (`OneSender`), a payment on the invoice once (`OnePayment`), nothing in delivery for a request that waits (`PendingIsClean`)? | a balance payment; 2 payments ever made for it, so a second one is possible; 1 fault |
| `deposits_one_desk` | with one accountant beside the worker, the invoice voided and restored: a waiting request has no money on an invoice unless it was reopened while that was void, CS Portal's copy agrees with a delivered row, no decision is lost, an approval is heard after its payment is remembered, and every decision settles | a course payment; 2 payments; 2 faults, so that a retry may die too |
| `deposits_heard` | *violated*: does CS Portal hear an approval only while its payment is on the invoice? | 2 accountants, no fault |
| `deposits_withdrawn` | *violated*: is a withdrawn request's payment off the invoice? | 1 accountant, no fault |
| `fees_told` | does "delivered" mean CS Portal has that picture or a newer one, whatever overlaps; and until two calls overlap, does the row hold the money as it is and CS Portal come to show it? | 2 calls, 3 changes, 1 death |
| `lms_told` | the other course follows the first, a Forex student is not passed over, news is let go of only when the LMS has it, an approved enrolment arrives and news does not wait for ever | 1 call, 2 changes, the worker dies or the database throws once |
| `lms_behind` | *violated*: is the LMS never left a step behind? | 1 payment |
| `payments` | is the balance the rest, whatever overlaps but an edit of the total (`BalanceIsRest`); is a request on its invoice once and approved only if it was (`KeepsPromises`); one call at a time, do total, status and receipt agree? | total 1 or 2, edited any number of times, credit 1, so a part, the whole and too much are all possible; 2 payments, 2 calls, 1 fault |
| `lines` | does one manager only apply a decision (`OneDecider`), whatever overlaps; one call at a time, does the account follow the payments, the manager's page what waits, a rejected date go, a reconciled line go only for one that lands the same? | 1 payment, with charges or without; 2 lines and 2 entries ever, so each is replaced once; dates 0 to 2 days back, so a late date moves to another; 2 calls |
| `lines_waiting` | *violated*: can what waits for a manager be decided? | 1 call |
| `statements` | do locks and the last balance follow the completed reconciliations (but for one another took a line from), do the figures agree with the lines, are statements signed and withdrawn in order? | 2 reconciliations, 2 days, 1 line, 1 death |
| `enrolments` | is an enrolment billed once (`OneBill`), does it stay billed (`StaysBilled`), does an approved invoice stand (`ApprovedStands`)? | 2 academies, 3 invoices ever made, 1 call of the CRM at a time, 1 death |

In `deposits_two_desks` the invoice is not voided (`Voidable` is empty): its four properties say
nothing of what counts, and they are proved with voiding, for any number of accountants.
`deposits_one_desk` voids it.

The two payments of `MaxPayments`, two or three changes of `MaxChanges` and one or
two `MaxFaults` are what the cases need: a payment made twice, a change that
overlaps another with one before it, a death during the retry of a death. Three
invoices in `enrolments` are one in each academy and the one a mistake would add;
with four the run gives the same answers.

Symmetry: the configurations with `SYMMETRY Alike` check no liveness, and permute only ids
and callers that nothing but `=` and `\in` tells apart. The two academies are permuted too:
`Orgs` has no other use than being another's other.

Three runs leave states out with a `CONSTRAINT`, named `Watched` and defined in the MC module.
In `enrolments` it stops where every property is true for good: each names what it does
not speak of (a voided or deleted invoice, a race), and those never become untrue again.
In `lines` it stops, once two calls have overlapped, at the second bank line and at charges:
the one property still asked there is `OneDecider`, which is proved without any bound.
In `payments`, once two calls have overlapped, it goes on only at the total as it was approved,
until an edit of it overlaps a call, and where a call also failed only without the credit note:
overlaps of each pair of calls stay, and so do edits of the total before them.
What these three leave out is not left open: every property of them is proved below with no
constraint.

### Where a property is said to hold only one call at a time

The code has no transactions, and many of its promises hold only while one handler
works on a document. The properties say so instead of leaving the
races out of the model: `raced` becomes true when a second call starts, `faults` counts deaths,
`stale`, `overtaken`, `overlooked`, `undone` and `hands` record what somebody did, and a
property names those of them under which it fails. Such a property does not catch the race or the
death it leaves out, and is not evidence about it: the hazard in `PROJECT.json` says in its note that the
code has no answer there. What remains is proved (see below):

- `payments`: two payments typed at once are both on the invoice and one of them is in the
  total; so `PaidIsHeld`, `StatusAgrees` and `ReceiptAgrees` are asked until two calls have
  overlapped. `KeepsPromises` holds whatever overlaps, and `BalanceIsRest` unless one of the two
  edits the total: a payment saved from the total as it was leaves a balance too large
  or too small, and negative even, of which a credit note applied next takes its amount.
- `lines`: two syncs of one payment make two lines; a statement signed between a check
  and a save loses its line. `OneDecider` holds whatever overlaps. Three more exceptions need no
  overlap, and are described below (finding 4, and what the exceptions name): an entry given back, a payment
  turned down that could not be deleted, a reconciled line replaced by one that lands the same.
- `statements`: `FiguresAgree` is not asked of a reconciliation one of whose ticked lines was
  read unreconciled by `assertEditable` and changed later, completed meanwhile or still open, nor of one
  a call died about; the locks and the last balance are not asked after a death. Neither the
  figures nor the locks are asked of a reconciliation another took a line from: when the other is
  reopened the line is free, and the first is signed over a line that can change.
- `enrolments`: a call that dies between creating an invoice and putting the CRM's id on it
  leaves one nobody finds, and the retry makes a second: `OneBill` is asked
  where no call died (`StaysBilled` is asked even then). Approved or resubmitted while
  it moves, an invoice stays beside the one in the other academy. An invoice another had
  moved to, deleted, brings back the first beside a third. A moved and voided
  invoice that is restored or approved by hand is rewritten by the next call, since
  `movedTo` is looked at before the approval. Two overlapping calls that
  move it each way can void both, so the CRM's calls come one at a time here. (In `Careful`
  and `Single` below they are told apart by `raced`, so `OneBill` and `ApprovedStands` are
  proved for any number of callers, `StaysBilled` for one.)
- `deposits_one_desk`: `PendingHasNoPayment`, `DeliveredAgrees`, `NoDecisionLost` and
  `HeardAfterRecorded` are checked with one accountant because they do not hold with two:
  the races are those of the first two findings, and of the withdrawal during a put-back that
  the hazard at `tetra-deposit.service.ts:563` describes. A request reopened while its
  invoice was void is left out of `PendingHasNoPayment`.
- `fees_told`: `QueuedIsCurrent` and `MoneyArrives` hold until two calls overlap: the
  clock is read after the money, so of two overlapping calls the older picture can win.

Each property of a passing run has a mutant in `PROJECT.json`: a definition of the
model changed the way a plausible bug would change the code (a dropped guard, an
outcome written regardless, a claim not looked for after a crash). The mutated forms are
in the modules, marked "A bug it could have", and TLC finds the property violated
under each.

## Fairness

Only the three queues promise that something happens; the other modules state safety only,
since each of their steps is a person's or another system's call.

A handler that runs goes on (weak fairness of `Continue`, of `Work`): Node runs
the continuation of every await. The worker's interval timer fires for ever and its query
is ordered by due time, so a row that keeps being due is found again (strong
fairness of `Find` with that row in the result: back-offs make it due only
now and then; in `LmsProvision` only its first two stages need it) and the claim that
follows is made (`Claim`). A claim whose holder died grows old (`Ages`), as clocks do.
Nothing makes a given call to another system succeed, but a call repeated for ever is answered
at some point (strong fairness of the answered forms of `SendAnswered`, `Send`,
`ProvisionCall`, `AccessCall`, `TellOther`); without that a partner that is down for ever would
keep a row waiting, as it should. No person is assumed to do anything, and no process is
assumed to survive beyond the bound on faults.

The call that queues a fee update or an LMS change is not awaited and nothing
looks for it again after a crash, so `MoneyArrives` is asked of what was queued and
`NewsSettles` is checked with callers that do not die (`Mortal`).

## What is proved

Every invariant, action property and refinement that a passing run checks is also a theorem, for
every value of the constants that its module's named assumptions allow. The assumptions
say that bounds are natural numbers, that the ids which mean nobody or nothing are nobody's, and
what the code fixes (two academies; the worker and CS Portal's call are not accountants).
Five theorems assume more, as their runs do: at most one accountant (`OneDesk`, four theorems of the
deposits), and one call of the CRM at a time (`OneCaller`, `EnrolmentStaysBilled`).

None of the properties is inductive. Each section gives the strengthening; TLC checked each of
them as an invariant of the run before it was proved. A proof module
states what each step does, field by field, in `...Does` or `...Is` lemmas, and has one
lemma per action (`Step...`) that the invariant stays.

### TetraDepositsProofs

From `ActorsAssumption`, `BoundsAssumption`, `KindAssumption`:

| theorem | property |
|---|---|
| `TypeCorrect` | `TypeOK` |
| `NeverSentTwiceAtOnce` | `OneSender`: two handlers never hold one decision for sending |
| `RecordedOnce` | `OnePayment`: no retry, re-approval or take-over records a payment twice |
| `PendingHasNoDelivery` | `PendingIsClean`: a request that waits has nothing in delivery |
| `NothingPaidYet` (`OneDesk`) | `PendingHasNoPayment`: a request that waits has no payment on an invoice, unless reopened while it was void |
| `DeliveredIsTaken` (`OneDesk`) | `DeliveredAgrees`: what finance shows as delivered is what CS Portal has |
| `DecisionStaysSomewhere` (`OneDesk`) | `NoDecisionLost`: a decision is somewhere in its delivery |
| `RecordedBeforeHeard` (`OneDesk`) | `HeardAfterRecorded`: CS Portal counts an approval only after its payment is remembered |

The argument for the first four, in `IInv`:

- `HeldIsSending`: while a handler holds a decision, the row says "sending", the
  worker's query result does not name it, and its claim is not old. So no claim
  can match (`Decide` needs "pending", `Resend` needs "failed", `Claim` needs the
  row unchanged since it was found): this gives `OneSender`. It is not obvious for
  `Delete`, `Withdraw` and `Restore`, which change the status without looking at the
  delivery, and so leave the claim in place.
- `PendingIsClean` is needed for `HeldIsSending` at `Decide`: the worker could
  otherwise hold the request from before it was put back.
- `SaveIsFirst`: a handler that is about to save a payment saw none, and by
  `OneSender` nobody else can have added one since: this gives `OnePayment`.
- `CallShape` and `RowShape` say what a handler can have read at each step: a
  withdrawal never started from a pending row, a restore goes back to a decided
  status.

The last four rest on `DeskIInv` as well. It says of every request (`Settled`) that its payment is off
while it waits (`Off`: there is none, or the request was reopened past it), that its row and CS Portal's copy agree unless CS Portal has rejected it
(`Agreed`: delivered is what CS Portal has, approved and past its payment is remembered), and that a
withdrawal under way is of a rejected one; and of every running handler (`AtWork`) that
what it read still stands. The hard case is `TakenBack`: a reopening takes payments off in
several steps before it claims the request. Alone at the desk it finds the delivery turned down, and
neither the worker (which looks for queued and sending) nor a withdrawal (which only takes off)
changes that before the claim, so what it took off is all there was that it could see; that it saw
nothing on a void invoice is what `Overlooks` keeps, until the payment comes off after all. With a second accountant it
is the first finding.

### FeeUpdatesProofs

From `WorkerAssumption`, `BoundsAssumption`:

| theorem | property |
|---|---|
| `TypeCorrect` | `TypeOK` |
| `DeliveredIsInPortal` | `DeliveredIsThere`: a delivered row's picture is in CS Portal, or a newer one is |
| `RowHoldsTheMoney` | `QueuedIsCurrent`: until two calls overlap, the row holds the money as it is |

- For the first: a stamp is a picture's name. Stamps come from the clock (`StampsGiven`), one about to
  be written is nobody else's yet (`StampsUnused`), so where two places have one stamp they have one
  picture (`OnePicture`); what the worker was answered "ok" about is in CS Portal at its stamp or
  a later one (`AnsweredIsThere`), and the outcome is written only on the row of that stamp.
- For the second: two calls about an invoice are noticed (`OneCall`), so the one there is has the
  money as it is or has yet to read it (`CallIsCurrent`, `DeletedIsCurrent`), and with no call
  to wait for the row has it (`RowIsCurrent`). Before the student was sent nothing is
  queued at all (`AfterStudent`).

### LmsProvisionProofs

From `WorkerAssumption`, `ForexAssumption`, `BoundsAssumption`:

| theorem | property |
|---|---|
| `TypeCorrect` | `TypeOK` |
| `OtherCourseFollows` | `OtherFollows`: with no news and no refusal, the other course is told as much as the first |
| `ForexStudentGoes` | `ForexGoes`: where nothing dies, a Forex student in the LMS is not left passed over |
| `NewsIsSent` | `ClearedIsOpen` (an action property): news is let go of only when the LMS has it or refused it |

A row is made once (`QueuedOnce`), so the row a pass works on is the one it found. `JobAgrees` is the
heart: the pass works with a snapshot while calls write the row, but calls write only the news,
and add a course; the fields only the pass writes still stand in the row at each of its steps, and
where it is about to clear news, the LMS has the snapshot's. `Follows` is `OtherFollows` weakened to
hold while news waits; `Unskips`, that a student passed over is about to be put back in the
queue by the pass that enrolled them.

### InvoicePaymentsProofs

From `NoneAssumption`, `AmountsAssumption`, `BoundsAssumption`, in four rounds:

| theorem | property | round |
|---|---|---|
| `TypeCorrect` | `TypeOK` | `Shape` |
| `PromisesKept` | `KeepsPromises`: the calls implement `SettledRequests`, on the invoice once and approved only if it was there (not that an answer stays) | `Promises` |
| `BalanceStays` | `BalanceIsRest`: total less paid is what is left, unless an edit of the total overlaps a call | `BalancedTillCrossed` |
| `HoldsWhatIsPaid` | `PaidIsHeld`: one call at a time, paid is at least the payments held, at most they and the credit, never over the total | `CarefulTillRaced` |
| `StatusIsRight` | `StatusAgrees`: one call at a time, the status says what the balance says | `CarefulTillRaced` |
| `ReceiptIsRight` | `ReceiptAgrees`: one call at a time, a request's receipt is its payment's | `CarefulTillRaced` |

- `Promises`, whatever overlaps: at most one call holds a request between its claim and its
  payment (`OneHolder`), it is claimed all that time and not on the invoice when it is
  about to be saved (`CallsKnow`), so it is there once (`OnceOnInvoice`); what is on the
  invoice, and what a call goes on to answer, was recorded (`OnlyRecorded`). Each step then maps to a
  step of `SettledRequests` or to a stutter.
- `BalancedTillCrossed`: a save takes paid and balance from one read, so they add up to the total
  as it was read (`CallsBalance`), which is the total as it is unless an edit of it came between
  (`AmendAlone`). No assumption on what else overlaps.
- `CarefulTillRaced`: a call alone saves onto what it read (`CallsCareful`), so the checks it made
  still hold at the save. The sums it needs (`SumOfAdded`, `SumOfTaken`) are lemmas about cardinalities.

### PaymentLinesProofs

For any number of payments, lines, late entries and calls, from `BoundsAssumption`, `NoneAssumption`:

| theorem | property |
|---|---|
| `TypeCorrect` | `TypeOK` |
| `DecidedByOne` | `OneDecider`: no late entry is being applied by two managers, whatever else is under way on its payment |
| `LineForEachPayment` | `LinesFollow`: between calls that never overlapped, the account's lines are the payments', none for those that wait or were turned down and kept |
| `ManagersSeeWhatWaits` | `AskedIsShown`: the entries shown are those that payments wait on, and those given back |
| `TurnedDownGoesBack` | `RejectedGoes`: a payment whose date was turned down is back at the one it had, or had none and could not be deleted |
| `ReconciledStillLands` | `ReconciledLands` (an action property): a reconciled line stands, or goes for one of its payment's that lands the same on the same date |

`OneDecider` is not inductive: an entry that is given back waits again, so it must not be
in anybody else's hands then, and a second claim must find it decided. `IInv` adds:

- `OneHolder`: `OneDecider`, and while an entry is given back too.
- `EntriesAreThere`: an entry that is being applied is not pending, so `Claim` finds it
  taken; and it exists.
- `EntriesAreNew`: an entry that is about to be asked is nobody's, so `Ask` cannot put one
  that is being applied back to pending.
- `CallShape`: what a call holds at each step.

The lemmas `Beginning`, `Going`, `Withdrawing`, `Marking`, `Throwing` and `Around` state once
what kinds of step have in common (a call starts; a call goes on and the entries stay; entries
are withdrawn; ...), and each `Step...` lemma cites the one it is an instance of.

The other four are about one call at a time, and rest on `OneInv`, which is `~raced => Lone`. A call
changes the payment, its late entry and its line one after the other, so between two of its steps
none of the four is true. `Work` says for each next step how far the call is: what it found when
it started (`EditReads`, `Decided`), that the payment is marked as waiting and has not been shown yet
(`Marked`), that its line is out of date and may be rewritten (`Syncs`). A payment no call works
on rests (`LineRests`, `LateRests`), no two share a line (`Apart`), each line is a payment's or in the
call's hands, and each entry shown is waited on or about to be withdrawn. `Ids` says that an id is
given once, so a new payment cannot be mistaken for a deleted one. Voiding and
restoring change none of this: what they leave behind is a payment that was turned down and could not
be deleted, whose entry was given back (`TurnedDown`, from `undone`), and each property names exactly
that. `ReconciledLands` follows from `Work`: where a call is about to remove or rewrite a line,
it is not reconciled (`Loose`), since no statement is signed between the steps of a call alone, or
the payment lands as the line does (`Lands`), which is all that `MayEdit` makes sure of.

### ReconciliationProofs

From `NoneAssumption`, `FiguresAssumption`, `BoundsAssumption`, `NothingAssumption`:

| theorem | property |
|---|---|
| `TypeCorrect` | `TypeOK` |
| `LockedIsSigned` | `LockedBySigned`: a locked line names a completed reconciliation that ticks it, and a completed one's lines name it until another takes one |
| `LastStandsForLatest` | `LastIsLatest`: the account's last balance is the latest completed reconciliation's |
| `FiguresAreOfLines` | `FiguresAgree`: a reconciliation's figures are those of its lines, unless one was changed under it or taken by another |
| `SignsInOrder` | `SignedInOrder`: the calls implement `SignedStatements` |

The periods come first, whatever dies: one is open at most, the completed ones follow one another, and the
open one follows them all (`Ordered`), which what the clerk's call read depends on and keeps
(`ClerkAgrees`). That is already the refinement. What a completion locks it ticks,
so a line is locked by what ticks it (`LockedIsTicked`); a completion that takes a line from another
marks that one, so the lines of one that is not marked stay locked by it (`TickedIsLocked`). Such a
line is not changed by the keeper without `stale` saying so, and the figures stay those of the lines
(`FiguresRight`, `Figures` for the ones a call is about to save). `LastStands` is `LastIsLatest` extended to the steps in which the
clerk's calls leave it alone.

### EnrolmentIntakeProofs and EnrolmentBillsProofs

For any number of invoices and deaths, from `OrgsAssumption` (two academies), `BoundsAssumption`,
`NoneAssumption`:

| theorem | property |
|---|---|
| `TypeCorrect` | `TypeOK` |
| `ApprovedIsLeft` | `ApprovedStands`, for any number of callers: no step of a call changes an approved invoice |
| `EnrolmentStaysBilled` (`OneCaller`) | `StaysBilled`: whatever accounts do between the steps of a call and wherever calls die |
| `BilledOnce` | `OneBill`, for any number of callers |

The first module proves `Shape` invariant: `TypeOK`, what a call holds at each step
(`CallShape`), that an academy has the CRM's id on one invoice at most (`OneKeyed`), that a call's
invoice is of the academy it was sent to (`InItsBooks`). Its `Does...` lemmas then say once
what each step of a call does; the three invariants of the second module cite them, with one
lemma per action each.

- `Careful`, for `ApprovedStands`. A call sees the approval when it is sent and writes some
  steps later. While it runs nobody else acts (`Alone`: a person's act would set `raced`), so its
  invoice is still not approved (`Fine`). One that moved away is the hard case, since `Send`
  does not look at its approval: it was sent back when it moved, and it is void
  (`MovedAway`), and what approves a void invoice counts as bringing it back by hand.
- `Stays`, for `StaysBilled`. The invoice in the other academy is voided last: before that
  `Holds` says the call's own invoice is there, not void and keyed, and neither a death nor any
  act of accounts but voiding and deleting changes that.
- `Single`, for `OneBill`. `Placed` says for each step of a call which invoices can be not
  void: at most its own and the one it will void, and at the end one (`Lone`). It rests on
  `MovedThere`: what moved away is keyed and became a keyed invoice of the other academy, so
  by `OneKeyed` and the two academies nothing else can be live when it comes back
  (`OneOfTwo`). Deleting an invoice another had moved to breaks exactly that.

TLC checked `Careful` and `Single` with two callers too before they were proved.

### What stays with TLC

Liveness (`DecisionSettles`, `MoneyArrives`, `EnrolmentArrives`, `NewsSettles`) is outside the
prover's reach: it rests on fairness. The properties of the four violated runs are false.

## Findings

Four runs show the code do other than its comments say. `PROJECT.json` quotes the lines.

1. `deposits_heard`: Reopen takes the payment off before it claims the request, so a
   Send again in between tells CS Portal "approved" of a payment that is gone.
2. `deposits_withdrawn`: a withdrawal takes off the payments it finds, and a handler
   still recording one puts it on afterwards.
3. `lms_behind`: a payment's sync decides where to write from a row read before the
   worker moved it; the status is then written where nothing reads it again.
4. `lines_waiting`: a new late payment is rejected, marked so, and its deletion refused (the
   invoice was voided meanwhile): its entry waits again, but the payment no longer
   waits on it, so every later decision withdraws it instead.

### What the exceptions name

Some properties of the passing runs leave something out that one call at a time, with no death, is
enough to reach. In each case the code does less than a comment says; the property says what it does
guarantee, and without the exception TLC refutes it.

- `PendingHasNoPayment`, but for `overlooked`: an approval is turned down, its part-paid
  invoice is voided, the request is reopened. `takeOffRecordedPayments`
  (`tetra-deposit.service.ts:592`) skips void invoices, so nothing comes off, and `restoreInvoice`
  makes the payment count for a request that waits for a decision ("an approval's payment comes off
  its invoice first", 869).
- `LinesFollow`, `AskedIsShown` and `RejectedGoes`, but for `TurnedDown` and `undone`: the payment of
  finding 4, once the invoice is restored (`invoice.service.ts:1277`), is one that was turned down and has
  no line, though "a payment with an account has its own line in it" (`payment-bank.ts:18`).
- `ReconciledLands`, but for a line that lands the same: `updatePayment`
  (`invoice.service.ts:2067-2069`) asks `assertLineMovable` only where the date, the account or what lands
  changes. The line carries the charges too, so an amount and its charges changed together replace a
  line that was reconciled ("unless a bank statement has been reconciled against it",
  `payment-bank.ts:19-20`).
- `LockedBySigned` and `FiguresAgree`, but for `overtaken`: `updateReconciliation`
  (`banking.service.ts:1212-1217`) takes a line another reconciliation was completed with, and
  `completeReconciliation` (1318-1324) overwrites its `reconciledSessionId`, though "no line is reconciled
  twice" (1106).

## Plan

Written so far, in order: `TetraDeposits`, `FeeUpdates`, `LmsProvision`, `InvoicePayments` with
`SettledRequests`, `Reconciliation` with `SignedStatements`, `PaymentLines`, `EnrolmentIntake`,
each with its proofs.

To prove next: which of the four `OneDesk` theorems need less than one accountant (it is enough
that no two of their calls about one request overlap); `StaysBilled` for callers that do
not overlap, however many; a delivery queue stated once (queued, sent, told, or given up and
said so), and `TetraDeposits` and `FeeUpdates` shown to implement it.

To model next: running balances and cash counts beside `Reconciliation`; `OneTimeClaims`
(refresh rotation, password tokens, commission payouts and recurring documents share one
shape, find then claim) against an abstract once-only specification; `StudentNews`,
composing `LmsProvision` and `FeeUpdates` through `commission.state`.

## Not modelled

The web client enforces nothing of its own; reports, the dashboard, approvals, search and
the enrolment status endpoint only read. Payroll, quotations, orders, procurement, budgets,
loans and advances are a status each and calculation. Expenses and bills repeat the invoice's
read, check, save: a model of a bill's payments would be `InvoicePayments` with other
names. Inventory and numbering are atomic increments, of which nothing can be said that the
database does not guarantee. Copies of other systems' rows (HRMS wallet, departments,
portal directory) are replaced whole. Sessions, commission payouts, recurring documents and
reminders are planned. `PROJECT.json` lists each with its sources.

## Running the checks

    tlc -workers 2 -config deposits_two_desks.cfg MCTetraDeposits
    tlc -workers 2 -config payments.cfg MCInvoicePayments

and so on: `PROJECT.json` names the module of each configuration. A violation
run ends with a counterexample, which is its purpose. The proofs:

    tlapm TetraDepositsProofs.tla
    tlapm FeeUpdatesProofs.tla
    tlapm LmsProvisionProofs.tla
    tlapm InvoicePaymentsProofs.tla
    tlapm PaymentLinesProofs.tla
    tlapm ReconciliationProofs.tla
    tlapm EnrolmentIntakeProofs.tla
    tlapm EnrolmentBillsProofs.tla

Each takes a few minutes from nothing.
