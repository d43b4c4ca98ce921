--------------------------- MODULE TetraDeposits ---------------------------
(***************************************************************************)
(* CS Portal's deposit requests, decided in finance and answered there     *)
(* (apps/api/src/modules/tetra-deposit/tetra-deposit.service.ts).          *)
(*                                                                         *)
(* A request is one MongoDB document (row).  It is decided by an           *)
(* accountant's HTTP call, whose handler puts the payment on the student's *)
(* invoice, then sends the decision to CS Portal and writes down what came *)
(* of it.  A worker pass takes over what could not be sent, and whatever a *)
(* handler that died left "sending".  Between any two database or network  *)
(* calls of one handler any other may run: each action below is the code   *)
(* from one await to the next.  There are no transactions; a handler holds *)
(* a request only by a conditional findOneAndUpdate, and most later writes *)
(* name the document by its _id alone.                                     *)
(***************************************************************************)
EXTENDS Naturals, FiniteSets

CONSTANTS
    Requests,     \* the requests CS Portal raises
    Kind,         \* what each is: "deposit" (no payment here), "balance", "course"
    Accountants,  \* accountants' calls in progress, one per element
    Worker,       \* the background pass (one: its `running` guard)
    Portal,       \* CS Portal's call that withdraws a request
    Withdrawable, \* the requests CS Portal may come to reject of its own accord
    Voidable,     \* the requests whose invoice may be voided: they pay a part of it
    MaxPayments,  \* bound: payments ever put on an invoice for one request
    MaxFaults     \* bound: handlers cut short by a crash or a thrown error

ASSUME KindAssumption == Kind \in [Requests -> {"deposit", "balance", "course"}]
ASSUME ActorsAssumption == Worker # Portal /\ {Worker, Portal} \cap Accountants = {}
ASSUME WithdrawableAssumption == Withdrawable \subseteq Requests
ASSUME VoidableAssumption == Voidable \subseteq Requests
ASSUME BoundsAssumption == {MaxPayments, MaxFaults} \subseteq Nat

VARIABLES
    row,      \* the request's document
    invoice,  \* payments on an invoice under the request's externalRef
    void,     \* requests whose payment is on an invoice that is void now
    minted,   \* payments ever made for it (their ids are 1..minted)
    portal,   \* the request's standing in CS Portal
    owed,     \* CS Portal rejected it and has not been answered by finance yet
    call,     \* the handler each actor runs, from one await to the next
    found,    \* requests the worker found due, not rewritten since
    stuck,    \* requests claimed longer ago than STUCK_MS
    faults,   \* handlers cut short so far
    overlooked \* (history) reopened while the payment was on a void invoice, and
               \* not taken off since

vars == <<row, invoice, void, minted, portal, owed, call, found, stuck, faults, overlooked>>

Actors == Accountants \cup {Worker, Portal}
PaymentIds == 1..MaxPayments
None == 0   \* no payment id

Statuses == {"absent", "pending", "approved", "rejected", "closed", "deleted"}

Row == [status   : Statuses,
        delivery : {"none", "sending", "queued", "failed", "delivered"},
        recorded : {None} \cup PaymentIds,    \* the payment it remembers making
        previous : Statuses]                  \* deleted.previousStatus

\* A handler between two awaits: `at` is the step it takes next, on request
\* `req`, with what it read so far.
Steps == {"read", "save", "readback", "remember", "putback", "load", "send", "outcome",
          "find", "takeoff", "reopen", "withdraw", "check", "delete", "restore"}

Call == [at      : Steps,
         op      : {"approve", "reject", "resend", "pass", "reopen", "withdraw", "delete", "restore"},
         req     : Requests,
         status  : Statuses,                  \* the row's status as read
         payment : {None} \cup PaymentIds,    \* the payment as read, or about to be saved
         held    : SUBSET PaymentIds,         \* the payments to take off
         answer  : {"none", "ok", "refused", "over", "lost"}]

Idle == [at |-> "idle"]

Begin(op, at, r, status) ==
    [at |-> at, op |-> op, req |-> r, status |-> status,
     payment |-> row[r].recorded, held |-> {}, answer |-> "none"]

Init ==
    /\ row = [r \in Requests |-> [status |-> "absent", delivery |-> "none",
                                  recorded |-> None, previous |-> "absent"]]
    /\ invoice = [r \in Requests |-> {}]
    /\ minted = [r \in Requests |-> 0]
    /\ portal = [r \in Requests |-> "waiting"]
    /\ owed = {}
    /\ call = [a \in Actors |-> Idle]
    /\ found = {} /\ stuck = {}
    /\ faults = 0
    /\ void = {} /\ overlooked = {}

----------------------------------------------------------------------------
(* What the actions share. *)

Free(a) == call[a] = Idle
At(a, step) == call[a].at = step
Goto(a, step) == call' = [call EXCEPT ![a].at = step]
Finish(a) == call' = [call EXCEPT ![a] = Idle]

\* A bug it could have: the worker's claim matches whatever the delivery has become.
RewrittenUnnoticed(r) == stuck' = stuck \ {r} /\ UNCHANGED found

\* A write of the delivery: a claim CAS made on its old value no longer matches.
Rewritten(r) == found' = found \ {r} /\ stuck' = stuck \ {r}
NotRewritten == UNCHANGED <<found, stuck>>

\* In the middle of recording or sending a decision it claimed.
Claimed == {"read", "save", "readback", "remember", "putback", "load", "send", "outcome"}
Holds(a, r) == call[a].at \in Claimed /\ call[a].req = r

Decided == {"approved", "rejected"}
TurnedDown(r) == row[r].status \in Decided /\ row[r].delivery = "failed"

----------------------------------------------------------------------------
(* Intake, and an accountant's decision. *)

\* CS Portal hands a request over.  The unique externalId makes a retry, or two
\* deliveries racing, answer with the row that is there.
Intake(r) ==
    /\ row[r].status = "absent"
    /\ row' = [row EXCEPT ![r].status = "pending"]
    /\ UNCHANGED <<invoice, void, minted, portal, owed, call, found, stuck, faults, overlooked>>

\* The claim: status and delivery in one conditional write.
Decide(a, r, decision) ==
    /\ a \in Accountants /\ Free(a)
    /\ row[r].status = "pending"
    /\ row' = [row EXCEPT ![r].status = decision, ![r].delivery = "sending"]
    /\ call' = [call EXCEPT ![a] =
                  IF decision = "rejected" THEN Begin("reject", "send", r, decision)
                  ELSE Begin("approve", IF Kind[r] = "deposit" THEN "send" ELSE "read", r, decision)]
    /\ Rewritten(r)
    /\ UNCHANGED <<invoice, void, minted, portal, owed, faults, overlooked>>

\* A bug it could have: the invoice is not searched for the request's externalRef.
OnInvoiceUnasked(r) == FALSE

\* A payment is on an invoice, void or not, under the request's externalRef.
OnInvoice(r) == invoice[r] # {}

\* recordPayment reads the invoice: the payment is there under this externalRef
\* already, or it may be added, or the invoice refuses it (void, paid, not
\* approved, owing less).
ReadInvoice(a) ==
    /\ At(a, "read")
    /\ LET r == call[a].req IN
       \/ /\ call[a].payment # None
          /\ Goto(a, "load") /\ UNCHANGED minted
       \/ /\ call[a].payment = None /\ OnInvoice(r)
          /\ Goto(a, "readback") /\ UNCHANGED minted
       \/ /\ call[a].payment = None /\ ~OnInvoice(r) /\ minted[r] < MaxPayments
          /\ minted' = [minted EXCEPT ![r] = @ + 1]
          /\ call' = [call EXCEPT ![a].at = "save", ![a].payment = minted[r] + 1]
       \/ /\ call[a].payment = None /\ ~OnInvoice(r)
          /\ Goto(a, "putback") /\ UNCHANGED minted
    /\ NotRewritten
    /\ UNCHANGED <<row, invoice, void, portal, owed, faults, overlooked>>

\* doc.save() pushes the payment: a $push, so no other writer's push stops it.
SavePayment(a) ==
    /\ At(a, "save")
    /\ LET r == call[a].req IN
         invoice' = [invoice EXCEPT ![r] = @ \cup {call[a].payment}]
    /\ Goto(a, "readback")
    /\ NotRewritten
    /\ UNCHANGED <<row, void, minted, portal, owed, faults, overlooked>>

\* The invoice read back for the payment's id.  Gone again: a balance payment
\* is remembered as "" and a course payment, with no receipt to issue, refused.
ReadBack(a) ==
    /\ At(a, "readback")
    /\ LET r == call[a].req IN
       \/ /\ invoice[r] = {}
          /\ \/ /\ Kind[r] = "course" /\ Goto(a, "putback")
             \/ /\ Kind[r] = "balance"
                /\ call' = [call EXCEPT ![a].at = "remember", ![a].payment = None]
       \/ \E p \in invoice[r] :
             call' = [call EXCEPT ![a].at = "remember", ![a].payment = p]
    /\ NotRewritten
    /\ UNCHANGED <<row, invoice, void, minted, portal, owed, faults, overlooked>>

Remember(a) ==
    /\ At(a, "remember")
    /\ LET r == call[a].req IN row' = [row EXCEPT ![r].recorded = call[a].payment]
    /\ Goto(a, "load")
    /\ NotRewritten
    /\ UNCHANGED <<invoice, void, minted, portal, owed, faults, overlooked>>

\* A bug it could have: the delivery of the decision is left on the row.
PutBackInDelivery(a) ==
    /\ At(a, "putback")
    /\ LET r == call[a].req IN row' = [row EXCEPT ![r].status = "pending"] /\ Rewritten(r)
    /\ Finish(a)
    /\ UNCHANGED <<invoice, void, minted, portal, owed, faults, overlooked>>

\* Not recorded: pending again, the decision and its delivery unset, by _id alone.
PutBack(a) ==
    /\ At(a, "putback")
    /\ LET r == call[a].req IN
         /\ row' = [row EXCEPT ![r].status = "pending", ![r].delivery = "none"]
         /\ Rewritten(r)
    /\ Finish(a)
    /\ UNCHANGED <<invoice, void, minted, portal, owed, faults, overlooked>>

\* The row read again before it is sent.
Load(a) ==
    /\ At(a, "load")
    /\ LET r == call[a].req IN
         call' = [call EXCEPT ![a].at = "send", ![a].status = row[r].status,
                              ![a].payment = row[r].recorded]
    /\ NotRewritten
    /\ UNCHANGED <<row, invoice, void, minted, portal, owed, faults, overlooked>>

----------------------------------------------------------------------------
(* The decision sent to CS Portal, and its outcome written down. *)

\* decisionFor: whatever is not approved goes out as rejected.
DecisionFor(status) == IF status = "approved" THEN "approved" ELSE "rejected"

\* CS Portal's side: it takes a decision once, repeats are fine, one that
\* contradicts what it has is ALREADY_DECIDED or 410.  It may turn down an
\* approval it could still take (a transaction ID already used).
PortalAnswers(state, decision) ==
    IF state = "waiting" THEN {<<decision, "ok">>, <<state, "refused">>}
    ELSE IF state = decision THEN {<<state, "ok">>} ELSE {<<state, "over">>}

SendWith(a, replies) ==
    /\ At(a, "send")
    /\ \E reply \in replies :
         /\ portal' = [portal EXCEPT ![call[a].req] = reply[1]]
         /\ call' = [call EXCEPT ![a].at = "outcome", ![a].answer = reply[2]]
    /\ NotRewritten
    /\ UNCHANGED <<row, invoice, void, minted, owed, faults, overlooked>>

Replies(a) == PortalAnswers(portal[call[a].req], DecisionFor(call[a].status))

SendAnswered(a) == SendWith(a, Replies(a))

\* No answer: down, or timed out, and CS Portal may have taken it or not.
SendLost(a) ==
    SendWith(a, {<<portal[call[a].req], "lost">>} \cup {<<x[1], "lost">> : x \in Replies(a)})

\* A bug it could have: no answer is taken for a good one.
DeliveryIfSent(answer) == IF answer \in {"ok", "lost"} THEN "delivered" ELSE "failed"

\* What the delivery becomes: no answer is tried again, a refusal is not.
DeliveryAfter(answer) ==
    CASE answer = "ok" -> "delivered" [] answer = "lost" -> "queued" [] OTHER -> "failed"

\* deliverDecision's update, by _id alone.  A refusal the accountant
\* is waiting on, with no payment recorded for it, goes back in front of them.
Outcome(a) ==
    /\ At(a, "outcome")
    /\ LET r == call[a].req
           correctable == \/ call[a].op = "approve" /\ Kind[r] = "deposit"
                          \/ call[a].op = "reject" /\ Kind[r] # "balance"
       IN /\ row' = [row EXCEPT
               ![r].status = CASE call[a].answer = "over" -> "closed"
                               [] call[a].answer = "refused" /\ correctable -> "pending"
                               [] OTHER -> @,
               ![r].delivery = IF call[a].answer = "refused" /\ correctable THEN "none"
                               ELSE DeliveryAfter(call[a].answer)]
          /\ Rewritten(r)
    /\ Finish(a)
    /\ UNCHANGED <<invoice, void, minted, portal, owed, faults, overlooked>>

\* Sent again as it was, claimed by the same write that finds it turned down.
\* Its payment is not looked at.
Resend(a, r) ==
    /\ a \in Accountants /\ Free(a)
    /\ TurnedDown(r)
    /\ row' = [row EXCEPT ![r].delivery = "sending"]
    /\ call' = [call EXCEPT ![a] = Begin("resend", "send", r, row[r].status)]
    /\ Rewritten(r)
    /\ UNCHANGED <<invoice, void, minted, portal, owed, faults, overlooked>>

----------------------------------------------------------------------------
(* The worker's pass: find what is due, claim each by what it saw, send it. *)

\* A bug it could have: a decision whose handler died is not looked for.
DueQueued == {r \in Requests : row[r].status \in Decided /\ row[r].delivery = "queued"}

\* What the worker looks for: not delivered yet, or claimed too long ago.
Due == {r \in Requests : /\ row[r].status \in Decided
                         /\ \/ row[r].delivery = "queued"
                            \/ row[r].delivery = "sending" /\ r \in stuck}

Find ==
    /\ Free(Worker) /\ found = {}
    /\ found' \in SUBSET Due \ {{}}          \* those whose back-off is over
    /\ UNCHANGED <<row, invoice, void, minted, portal, owed, call, stuck, faults, overlooked>>

\* A bug it could have: the worker records balance payments only.
BalanceToRecord(r) == Kind[r] = "balance" /\ row[r].status = "approved" /\ row[r].recorded = None

\* An approval whose first handler died before it recorded the payment.
StillToRecord(r) == Kind[r] # "deposit" /\ row[r].status = "approved" /\ row[r].recorded = None

\* The claim compares the delivery it saw (`found`), not the status.
Claim(r) ==
    /\ Free(Worker) /\ r \in found
    /\ row' = [row EXCEPT ![r].delivery = "sending"]
    /\ call' = [call EXCEPT ![Worker] =
                  Begin("pass", IF StillToRecord(r) THEN "read" ELSE "send", r, row[r].status)]
    /\ Rewritten(r)
    /\ UNCHANGED <<invoice, void, minted, portal, owed, faults, overlooked>>

----------------------------------------------------------------------------
(* Taken back: a decision reopened, or withdrawn by CS Portal. *)

\* A bug it could have: reopened without the payment taken off.
ReopenAsItIs(a, r) ==
    /\ a \in Accountants /\ Free(a)
    /\ TurnedDown(r)
    /\ call' = [call EXCEPT ![a] = Begin("reopen", "reopen", r, row[r].status)]
    /\ UNCHANGED <<row, invoice, void, minted, portal, owed, found, stuck, faults, overlooked>>

ReopenRead(a, r) ==
    /\ a \in Accountants /\ Free(a)
    /\ TurnedDown(r)
    /\ call' = [call EXCEPT ![a] = Begin("reopen", "find", r, row[r].status)]
    /\ UNCHANGED <<row, invoice, void, minted, portal, owed, found, stuck, faults, overlooked>>

\* A request still pending is answered "pending": CS Portal asks again later.
WithdrawRead(r) ==
    /\ Free(Portal)
    /\ r \in owed /\ row[r].status # "pending"
    /\ call' = [call EXCEPT ![Portal] = Begin("withdraw", "find", r, row[r].status)]
    /\ UNCHANGED <<row, invoice, void, minted, portal, owed, found, stuck, faults, overlooked>>

\* Not taken off: the reopen is refused; the withdrawal is answered "kept".
Refuse(a) ==
    /\ Finish(a)
    /\ owed' = IF call[a].op = "withdraw" THEN owed \ {call[a].req} ELSE owed
    /\ UNCHANGED <<invoice, overlooked>>

\* A bug it could have: the payment the row remembers is taken off, not what is there.
HeldByMemory(r) == {row[r].recorded}

\* The payments under the request's externalRef, void invoices not looked at.
HeldFor(r) == IF r \in void THEN {} ELSE invoice[r]

\* takeOffRecordedPayments: every payment under the externalRef, unless a bank
\* statement has been reconciled against one.
FindPayments(a) ==
    /\ At(a, "find")
    /\ LET r == call[a].req IN
       \/ /\ call' = [call EXCEPT ![a].at = "takeoff", ![a].held = HeldFor(r)]
          /\ overlooked' = IF call[a].op = "reopen" /\ r \in void THEN overlooked \cup {r}
                           ELSE overlooked
          /\ UNCHANGED <<owed, invoice>>
       \/ HeldFor(r) # {} /\ Refuse(a)
    /\ UNCHANGED <<row, void, minted, portal, found, stuck, faults>>

\* deletePayment of each.  One taken off by another handler meanwhile is not
\* found, or pulled once more: the pull's save is not refused.  A payment whose
\* invoice has become void does not come off.
TakeOff(a) ==
    /\ At(a, "takeoff")
    /\ LET r == call[a].req IN
       \/ /\ call[a].held = {} \/ r \notin void
          /\ invoice' = [invoice EXCEPT ![r] = @ \ call[a].held]
          /\ overlooked' = {q \in overlooked : invoice'[q] # {}}
          /\ Goto(a, call[a].op) /\ UNCHANGED owed
       \/ call[a].held # {} /\ Refuse(a)   \* not found, void or reconciled since
    /\ UNCHANGED <<row, void, minted, portal, found, stuck, faults>>

\* Pending again, if it is still turned down; else "it changed meanwhile".
Reopen(a) ==
    /\ At(a, "reopen")
    /\ LET r == call[a].req IN
       \/ /\ TurnedDown(r)
          /\ row' = [row EXCEPT ![r].status = "pending", ![r].delivery = "none",
                                ![r].recorded = None]
          /\ Rewritten(r)
       \/ ~TurnedDown(r) /\ NotRewritten /\ UNCHANGED row
    /\ Finish(a)
    /\ UNCHANGED <<invoice, void, minted, portal, owed, faults, overlooked>>

\* Kept as deleted, whatever it has become since it was read.
Withdraw(a) ==
    /\ At(a, "withdraw")
    /\ LET r == call[a].req IN
         /\ row' = IF call[a].status = "deleted" THEN row
                   ELSE [row EXCEPT ![r].status = "deleted", ![r].previous = call[a].status]
         /\ owed' = owed \ {r}
    /\ Finish(a)
    /\ NotRewritten
    /\ UNCHANGED <<invoice, void, minted, portal, faults, overlooked>>

----------------------------------------------------------------------------
(* Deleted by hand, and restored. *)

\* A bug it could have: deleted while its decision is still on its way.
DeleteInFlight(a, r) ==
    /\ a \in Accountants /\ Free(a)
    /\ row[r].status \in Decided \cup {"closed"}
    /\ call' = [call EXCEPT ![a] = Begin("delete", "check", r, row[r].status)]
    /\ UNCHANGED <<row, invoice, void, minted, portal, owed, found, stuck, faults, overlooked>>

DeleteRead(a, r) ==
    /\ a \in Accountants /\ Free(a)
    /\ row[r].status \in Decided \cup {"closed"}
    /\ row[r].delivery \notin {"sending", "queued"}
    /\ call' = [call EXCEPT ![a] = Begin("delete", "check", r, row[r].status)]
    /\ UNCHANGED <<row, invoice, void, minted, portal, owed, found, stuck, faults, overlooked>>

\* Refused while the payment it remembers is on an invoice that is not void.
DeleteCheck(a) ==
    /\ At(a, "check")
    /\ IF call[a].payment \in HeldFor(call[a].req) THEN Finish(a) ELSE Goto(a, "delete")
    /\ UNCHANGED <<row, invoice, void, minted, portal, owed, found, stuck, faults, overlooked>>

\* The condition is on the status alone.
Delete(a) ==
    /\ At(a, "delete")
    /\ LET r == call[a].req IN
         row' = IF row[r].status # call[a].status THEN row
                ELSE [row EXCEPT ![r].status = "deleted", ![r].previous = call[a].status]
    /\ Finish(a)
    /\ UNCHANGED <<invoice, void, minted, portal, owed, found, stuck, faults, overlooked>>

RestoreRead(a, r) ==
    /\ a \in Accountants /\ Free(a)
    /\ row[r].status = "deleted"
    /\ call' = [call EXCEPT ![a] = Begin("restore", "restore", r, row[r].previous)]
    /\ UNCHANGED <<row, invoice, void, minted, portal, owed, found, stuck, faults, overlooked>>

Restore(a) ==
    /\ At(a, "restore")
    /\ LET r == call[a].req IN
         row' = IF row[r].status # "deleted" THEN row
                ELSE [row EXCEPT ![r].status = call[a].status]
    /\ Finish(a)
    /\ UNCHANGED <<invoice, void, minted, portal, owed, found, stuck, faults, overlooked>>

----------------------------------------------------------------------------
(* The environment. *)

\* CS Portal rejects or deletes a request of its own accord; it then asks
\* finance to withdraw it until it is answered.
PortalRejects(r) ==
    /\ r \in Withdrawable
    /\ row[r].status # "absent"
    /\ portal[r] \in {"waiting", "approved"}
    /\ portal' = [portal EXCEPT ![r] = "withdrawn"]
    /\ owed' = owed \cup {r}
    /\ UNCHANGED <<row, invoice, void, minted, call, found, stuck, faults, overlooked>>

\* voidInvoice: the invoice is not paid in full, and its payments stay on it.
VoidInvoice(r) ==
    /\ r \in Voidable \ void /\ invoice[r] # {}
    /\ void' = void \cup {r}
    /\ UNCHANGED <<row, invoice, minted, portal, owed, call, found, stuck, faults, overlooked>>

\* restoreInvoice: what is on it counts again.
RestoreInvoice(r) ==
    /\ r \in void
    /\ void' = void \ {r}
    /\ UNCHANGED <<row, invoice, minted, portal, owed, call, found, stuck, faults, overlooked>>

\* A handler dies between two awaits: a crash, or the database throws.
Fail(a) ==
    /\ call[a] # Idle /\ faults < MaxFaults
    /\ faults' = faults + 1
    /\ Finish(a)
    /\ found' = IF a = Worker THEN {} ELSE found
    /\ UNCHANGED <<row, invoice, void, minted, portal, owed, stuck, overlooked>>

\* A claim becomes older than STUCK_MS (two minutes).  A handler that is alive
\* finishes sooner: the call to CS Portal itself is given up after 20 seconds.
Ages(r) ==
    /\ row[r].delivery = "sending" /\ r \notin stuck
    /\ \A a \in Actors : ~Holds(a, r)
    /\ stuck' = stuck \cup {r}
    /\ UNCHANGED <<row, invoice, void, minted, portal, owed, call, found, faults, overlooked>>

----------------------------------------------------------------------------
\* The steps a handler takes once it is running.
Continue(a) ==
    \/ ReadInvoice(a) \/ SavePayment(a) \/ ReadBack(a) \/ Remember(a) \/ PutBack(a)
    \/ Load(a) \/ SendAnswered(a) \/ SendLost(a) \/ Outcome(a)
    \/ FindPayments(a) \/ TakeOff(a) \/ Reopen(a) \/ Withdraw(a)
    \/ DeleteCheck(a) \/ Delete(a) \/ Restore(a)

Start(a, r) ==
    \/ Decide(a, r, "approved") \/ Decide(a, r, "rejected")
    \/ Resend(a, r) \/ ReopenRead(a, r) \/ DeleteRead(a, r) \/ RestoreRead(a, r)

Next ==
    \/ \E a \in Actors : Continue(a) \/ Fail(a)
    \/ \E a \in Accountants, r \in Requests : Start(a, r)
    \/ \E r \in Requests : Intake(r) \/ Claim(r) \/ WithdrawRead(r) \/ PortalRejects(r) \/ Ages(r)
    \/ \E r \in Requests : VoidInvoice(r) \/ RestoreInvoice(r)
    \/ Find

Spec == Init /\ [][Next]_vars

\* Handlers run on; the worker's timer comes round and finds each due request
\* in turn; a dead claim grows old; CS Portal, asked again and again about a
\* request, answers sooner or later.
Fairness ==
    /\ \A a \in Actors : WF_vars(Continue(a))
    /\ \A r \in Requests :
         /\ SF_vars(Find /\ r \in found')
         /\ WF_vars(Claim(r))
         /\ WF_vars(Ages(r))
         /\ SF_vars(SendAnswered(Worker) /\ call[Worker].req = r)

FairSpec == Spec /\ Fairness
----------------------------------------------------------------------------
(* Properties. *)

TypeOK ==
    /\ row \in [Requests -> Row]
    /\ invoice \in [Requests -> SUBSET PaymentIds]
    /\ minted \in [Requests -> 0..MaxPayments]
    /\ portal \in [Requests -> {"waiting", "approved", "rejected", "withdrawn"}]
    /\ owed \subseteq Requests
    /\ call \in [Actors -> Call \cup {Idle}]
    /\ found \subseteq Requests /\ stuck \subseteq Requests
    /\ faults \in 0..MaxFaults
    /\ void \subseteq Requests /\ overlooked \subseteq Requests

\* A decision is in one handler's hands at a time, whatever the accountants, the
\* worker and CS Portal's withdrawals do and wherever a handler dies: "claimed
\* first, so it is never sent twice at once" (resendTetraDeposit, the worker).
OneSender ==
    \A r \in Requests : \A a, b \in Actors : Holds(a, r) /\ Holds(b, r) => a = b

\* A request's payment is on an invoice once at most: retries after a crash
\* part-way record nothing twice (recordBalancePayment, recordCoursePayment).
OnePayment ==
    \A r \in Requests : \A p, q \in invoice[r] : p = q

\* A request that waits for a decision has none in delivery, so the worker can
\* not send the one it was given before (putBack, reopen, a correctable refusal).
PendingIsClean ==
    \A r \in Requests : row[r].status = "pending" => row[r].delivery = "none" /\ r \notin found

\* One accountant at a time: a request that waits for a decision has no payment
\* on an invoice -- it could be rejected, and the money would stay counted --
\* unless it was reopened while its invoice was void (takeOffRecordedPayments
\* does not look there, and restoreInvoice makes the payment count again).
PendingHasNoPayment ==
    \A r \in Requests : row[r].status = "pending" /\ r \notin overlooked => invoice[r] = {}

\* One accountant at a time: what finance shows as delivered is what CS Portal
\* has, unless CS Portal has since rejected the request itself.
DeliveredAgrees ==
    \A r \in Requests :
        row[r].status \in Decided /\ row[r].delivery = "delivered"
            => portal[r] \in {row[r].status, "withdrawn"}

\* One accountant at a time, until CS Portal rejects the request itself: a
\* decision always stands somewhere in its delivery, and a deleted request has
\* none still on its way (deleteTetraDeposit).
NoDecisionLost ==
    \A r \in Requests : portal[r] # "withdrawn" =>
        /\ row[r].status \in Decided => row[r].delivery # "none"
        /\ row[r].status = "deleted" => row[r].delivery \in {"failed", "delivered"}

\* The instant CS Portal comes to count an approved payment.
Heard(r) == portal[r] # "approved" /\ portal'[r] = "approved" /\ Kind[r] # "deposit"

\* One accountant at a time: CS Portal only hears of an approval whose payment
\* the request remembers recording, even when the first handler died.
HeardAfterRecorded ==
    [][\A r \in Requests : Heard(r) => row[r].recorded # None]_vars

\* "The payment goes on the invoice first; only then does CS Portal hear it was
\* approved" (decideTetraDeposit): the payment is on the invoice at that instant.
HeardWhilePaid ==
    [][\A r \in Requests : Heard(r) => invoice[r] # {}]_vars

\* "It isn't counted there, so it isn't money here either -- its invoice payment
\* comes off" (withdrawTetraDeposit): once CS Portal has been answered and no
\* handler is at work, a request kept as deleted has no payment on an invoice.
WithdrawnIsOff ==
    \A r \in Withdrawable :
        /\ row[r].status = "deleted" /\ portal[r] = "withdrawn" /\ r \notin owed
        /\ \A a \in Actors : Free(a)
        => invoice[r] = {}

\* A decision on its way to CS Portal gets there or is turned down, handlers
\* that die included; it does not stay "sending" or "queued" for good.
DecisionSettles ==
    \A r \in Requests :
        row[r].status \in Decided /\ row[r].delivery \in {"sending", "queued"}
            ~> row[r].status \notin Decided \/ row[r].delivery \in {"failed", "delivered"}
============================================================================
