---------------------------- MODULE LmsProvision ----------------------------
(***************************************************************************)
(* Approved enrolments on their way to the LMS, and the news that more of  *)
(* the fee is paid (apps/api/src/jobs/lms-provision.worker.ts, with        *)
(* queueLmsProvision, syncLmsAccess and deleteInvoice of                   *)
(* apps/api/src/modules/invoice/invoice.service.ts).                       *)
(*                                                                         *)
(* An approval queues one row per invoice; the worker makes the student    *)
(* from it, then sends the invoice's other course, the news of payments,   *)
(* and the student to CS Portal.  Payments raise what the row is to say by *)
(* calls nobody awaits.  One other course stands for all of them.          *)
(***************************************************************************)
EXTENDS Naturals

CONSTANTS
    Invoices,
    Callers,     \* background calls that may be in progress together
    Worker,      \* the pass (one: its `running` guard)
    Mortal,      \* who may die part-way, or have a database call throw
    Forex,       \* the courses whose programme is FOREX Trading: "first", "other"
    MaxChanges,  \* bound: changes of how much of one invoice is paid
    MaxFaults    \* bound: deaths and database errors

ASSUME WorkerAssumption == Worker \notin Callers
ASSUME ForexAssumption == Forex \subseteq {"first", "other"}
ASSUME BoundsAssumption == {MaxChanges, MaxFaults} \subseteq Nat

VARIABLES
    invoice,  \* [state, paid, changes]: paid is what lmsPaymentStatus says of it
    row,      \* the invoice's row in the queue
    lms,      \* [first, other]: how much of each course the LMS has open
    call,     \* each background call, from one await to the next
    job,      \* what the worker is doing, and the row as its query found it
    faults

vars == <<invoice, row, lms, call, job, faults>>

\* LMS_RANK, after 0 for a status that is not set: unpaid, partial, paid.
Unset == 0
Ranks == 1..3
Told == {Unset} \cup Ranks
Higher(a, b) == IF a > b THEN a ELSE b

Row == [status     : {"none", "pending", "sent", "failed", "unmapped"},
        payload    : Told,      \* payload.paymentStatus
        sent       : Told,      \* access.sent
        pending    : Told,      \* access.pending
        refused    : BOOLEAN,   \* access.lastError, of a refusal for good
        other      : {"none", "pending", "sent", "failed"},   \* extraCourses[0].status
        otherSent  : Told,      \* its accessSent
        otherError : BOOLEAN,   \* its lastError
        commission : {"none", "pending", "sent", "failed", "skipped"}]

NoRow == [status |-> "none", payload |-> Unset, sent |-> Unset, pending |-> Unset,
          refused |-> FALSE, other |-> "none", otherSent |-> Unset, otherError |-> FALSE,
          commission |-> "none"]

Call == [at : {"exists", "create", "read", "write", "stop"}, inv : Invoices,
         rank : Ranks, sent : BOOLEAN]

Job == [at : {"provision", "save", "reread", "raise", "other", "unskip", "access",
              "tellOther", "clear", "refuse", "student"},
        inv : Invoices, row : Row, answer : {"none", "ok", "refused", "lost"}, latest : Told]

Idle == [at |-> "idle"]

Init ==
    /\ invoice \in [Invoices -> [state : {"draft"}, paid : Ranks, changes : {0}]]
    /\ row = [i \in Invoices |-> NoRow]
    /\ lms = [i \in Invoices |-> [first |-> Unset, other |-> Unset]]
    /\ call = [c \in Callers |-> Idle]
    /\ job = Idle
    /\ faults = 0

----------------------------------------------------------------------------
(* What people do with the invoice; each starts a call it does not await.  *)

Start(c, at, i, rank) ==
    /\ call[c] = Idle
    /\ call' = [call EXCEPT ![c] = [at |-> at, inv |-> i, rank |-> rank, sent |-> FALSE]]

\* Once: an approved invoice is not approved again.
Approve(c, i) ==
    /\ invoice[i].state = "draft"
    /\ invoice' = [invoice EXCEPT ![i].state = "approved"]
    /\ Start(c, "exists", i, invoice[i].paid)
    /\ UNCHANGED <<row, lms, job, faults>>

Repaid(i, rank) ==
    /\ invoice[i].state # "gone" /\ invoice[i].changes < MaxChanges /\ rank # invoice[i].paid
    /\ invoice' = [invoice EXCEPT ![i].paid = rank, ![i].changes = @ + 1]

\* A payment recorded or edited, a credit note applied.
Pay(c, i, rank) ==
    /\ invoice[i].state = "approved" /\ Repaid(i, rank)
    /\ Start(c, "read", i, rank)
    /\ UNCHANGED <<row, lms, job, faults>>

\* A payment deleted, or the invoice's lines edited, is told nobody.
ChangeUntold(i, rank) ==
    /\ Repaid(i, rank)
    /\ UNCHANGED <<row, lms, call, job, faults>>

\* The invoice goes first, its row a moment later.
DeleteInvoice(c, i) ==
    /\ invoice[i].state # "gone"
    /\ invoice' = [invoice EXCEPT ![i].state = "gone"]
    /\ Start(c, "stop", i, invoice[i].paid)
    /\ UNCHANGED <<row, lms, job, faults>>

Stop(c) ==
    /\ call[c].at = "stop"
    /\ row' = [row EXCEPT ![call[c].inv] = IF @.status = "sent" THEN @ ELSE NoRow]
    /\ call' = [call EXCEPT ![c] = Idle]
    /\ UNCHANGED <<invoice, lms, job, faults>>

----------------------------------------------------------------------------
(* queueLmsProvision. *)

Exists(c) ==
    /\ call[c].at = "exists"
    /\ call' = [call EXCEPT ![c] = IF row[@.inv].status = "none" THEN [@ EXCEPT !.at = "create"]
                                   ELSE Idle]
    /\ UNCHANGED <<invoice, row, lms, job, faults>>

\* The row is made from the invoice as it was approved; without a course or an
\* email it is kept for somebody to find.
Create(c) ==
    /\ call[c].at = "create"
    /\ \E made \in {[NoRow EXCEPT !.status = "unmapped"]} \cup
                   {[NoRow EXCEPT !.status = "pending", !.payload = call[c].rank, !.other = o] :
                        o \in {"none", "pending"}} :
         row' = [row EXCEPT ![call[c].inv] = made]
    /\ call' = [call EXCEPT ![c] = Idle]
    /\ UNCHANGED <<invoice, lms, job, faults>>

----------------------------------------------------------------------------
(* syncLmsAccess. *)

\* What the LMS was last told, or is about to be.
Known(r) == IF r.pending # Unset THEN r.pending
            ELSE IF r.sent # Unset THEN r.sent ELSE r.payload

SyncRead(c) ==
    /\ call[c].at = "read"
    /\ LET r == row[call[c].inv] IN
         call' = [call EXCEPT ![c] = IF r.status = "none" \/ @.rank <= Known(r) THEN Idle
                                     ELSE [@ EXCEPT !.at = "write", !.sent = (r.status = "sent")]]
    /\ UNCHANGED <<invoice, row, lms, job, faults>>

\* Where the status read a moment ago said; of a row deleted since, nothing.
SyncWrite(c) ==
    /\ call[c].at = "write"
    /\ LET i == call[c].inv IN
         row' = [row EXCEPT ![i] =
                   IF @.status = "none" THEN @
                   ELSE IF call[c].sent THEN [@ EXCEPT !.pending = call[c].rank, !.refused = FALSE]
                   ELSE [@ EXCEPT !.payload = call[c].rank]]
    /\ call' = [call EXCEPT ![c] = Idle]
    /\ UNCHANGED <<invoice, lms, job, faults>>

----------------------------------------------------------------------------
(* The worker's pass: a row found due, then one await after another.  Which *)
(* stage comes to a row when is up to its back-off.                         *)

DueStages(r) ==
    (IF r.status = "pending" THEN {"provision"} ELSE {}) \cup
    (IF r.status = "sent" /\ r.other = "pending" THEN {"other"} ELSE {}) \cup
    (IF r.status = "sent" /\ r.pending # Unset THEN {"access"} ELSE {}) \cup
    (IF r.status = "sent" /\ r.commission = "pending" THEN {"student"} ELSE {})

Find(i, stage) ==
    /\ job = Idle /\ stage \in DueStages(row[i])
    /\ job' = [at |-> stage, inv |-> i, row |-> row[i], answer |-> "none", latest |-> Unset]
    /\ UNCHANGED <<invoice, row, lms, call, faults>>

At(step) == job # Idle /\ job.at = step
I == job.inv
Go(step) == job' = [job EXCEPT !.at = step]
Done == job' = Idle

\* The LMS only ever opens.  It may take a call whose answer is lost; a student
\* it already has it may leave as they are when they arrive again.
Opens(course, rank) == lms' = [lms EXCEPT ![I][course] = Higher(@, rank)]
Arrives(course, rank) == \/ Opens(course, rank)
                         \/ lms[I][course] # Unset /\ UNCHANGED lms

\* drainLmsProvisions: the call, then the row saved as the query found it.
ProvisionCall ==
    /\ At("provision")
    /\ \E answer \in {"ok", "refused", "lost"} :
         /\ job' = [job EXCEPT !.at = "save", !.answer = answer]
         /\ \/ answer # "refused" /\ Arrives("first", job.row.payload)
            \/ answer # "ok" /\ UNCHANGED lms
    /\ UNCHANGED <<invoice, row, call, faults>>

\* A bug it could have: the fee updates' word for it, which this queue has not.
CommissionStopped(r) == CASE r.commission # "none" -> r.commission
                          [] "first" \in Forex -> "pending" [] OTHER -> "stopped"

\* To CS Portal if the course is Forex, and only the first time.
CommissionOf(r) == CASE r.commission # "none" -> r.commission
                     [] "first" \in Forex -> "pending" [] OTHER -> "skipped"

\* A bug it could have: whatever was not refused is taken as done.
SaveUnlessRefused ==
    /\ At("save")
    /\ IF row[I].status = "none" THEN Done /\ UNCHANGED row
       ELSE IF job.answer = "refused"
       THEN row' = [row EXCEPT ![I].status = "failed"] /\ Done
       ELSE /\ row' = [row EXCEPT ![I].status = "sent", ![I].sent = job.row.payload,
                                  ![I].commission = CommissionOf(job.row)]
            /\ Go("reread")
    /\ UNCHANGED <<invoice, lms, call, faults>>

\* A row deleted meanwhile cannot be saved, and the pass ends there.
ProvisionSave ==
    /\ At("save")
    /\ IF row[I].status = "none" THEN Done /\ UNCHANGED row
       ELSE CASE job.answer = "ok" ->
                   /\ row' = [row EXCEPT ![I].status = "sent", ![I].sent = job.row.payload,
                                         ![I].commission = CommissionOf(job.row)]
                   /\ Go("reread")
              [] OTHER ->
                   /\ row' = [row EXCEPT ![I].status = IF job.answer = "refused" THEN "failed"
                                                       ELSE "pending"]
                   /\ Done
    /\ UNCHANGED <<invoice, lms, call, faults>>

\* A payment recorded while it was on its way raised the status: that goes too.
Reread ==
    /\ At("reread")
    /\ job' = IF row[I].payload > job.row.payload
              THEN [job EXCEPT !.at = "raise", !.latest = row[I].payload] ELSE Idle
    /\ UNCHANGED <<invoice, row, lms, call, faults>>

Raise ==
    /\ At("raise")
    /\ row' = [row EXCEPT ![I].pending = job.latest]
    /\ Done
    /\ UNCHANGED <<invoice, lms, call, faults>>

\* A bug it could have: the other course opens as the enrolment was queued.
PaidAtQueueing(r) == r.payload

\* As paid as the first course was last told, or is about to be.
MostPaid(r) == Higher(Higher(r.pending, r.sent), r.payload)

\* drainLmsExtraCourses.  Nobody else writes the course's part of the row.
ProvisionOther ==
    /\ At("other")
    /\ \/ /\ Arrives("other", MostPaid(job.row))
          /\ row' = [row EXCEPT ![I].other = "sent", ![I].otherSent = MostPaid(job.row),
                                ![I].otherError = FALSE]
          /\ IF "other" \in Forex THEN Go("unskip") ELSE Done
       \/ /\ row' = [row EXCEPT ![I].other = "failed", ![I].otherError = TRUE]
          /\ Done /\ UNCHANGED lms
       \/ /\ Arrives("other", MostPaid(job.row)) \/ UNCHANGED lms
          /\ row' = [row EXCEPT ![I].otherError = TRUE]
          /\ Done
    /\ UNCHANGED <<invoice, call, faults>>

\* A bug it could have: a student once passed over stays passed over.
LeaveSkipped ==
    /\ At("unskip") /\ Done
    /\ UNCHANGED <<invoice, row, lms, call, faults>>

\* A Forex course after a first that was not: a Forex student after all.
Unskip ==
    /\ At("unskip")
    /\ row' = [row EXCEPT ![I].commission = IF @ = "skipped" THEN "pending" ELSE @]
    /\ Done
    /\ UNCHANGED <<invoice, lms, call, faults>>

\* drainLmsAccessUpdates: the first course, then the other, then cleared.
News == job.row.pending

AccessCall ==
    /\ At("access")
    /\ \/ /\ Opens("first", News)
          /\ Go(IF job.row.other = "sent" /\ job.row.otherSent < News THEN "tellOther" ELSE "clear")
       \/ Go("refuse") /\ UNCHANGED lms
       \/ Done /\ (Opens("first", News) \/ UNCHANGED lms)
    /\ UNCHANGED <<invoice, row, call, faults>>

TellOther ==
    /\ At("tellOther")
    /\ \/ /\ Opens("other", News)
          /\ row' = [row EXCEPT ![I].otherSent = News, ![I].otherError = FALSE]
          /\ Go("clear")
       \/ /\ row' = [row EXCEPT ![I].otherError = TRUE]
          /\ Go("clear") /\ UNCHANGED lms
       \/ Done /\ UNCHANGED row /\ (Opens("other", News) \/ UNCHANGED lms)
    /\ UNCHANGED <<invoice, call, faults>>

\* A bug it could have: cleared whatever arrived meanwhile.
ClearAnyway ==
    /\ At("clear")
    /\ row' = [row EXCEPT ![I].sent = News, ![I].pending = Unset, ![I].refused = FALSE]
    /\ Done
    /\ UNCHANGED <<invoice, lms, call, faults>>

\* "Cleared only when nothing newer arrived while the call was on its way."
Clear ==
    /\ At("clear")
    /\ row' = [row EXCEPT ![I] = IF @.pending # News THEN @
                                 ELSE [@ EXCEPT !.sent = News, !.pending = Unset, !.refused = FALSE]]
    /\ Done
    /\ UNCHANGED <<invoice, lms, call, faults>>

\* A bug it could have: news the LMS will never take is sent again for ever.
KeepRefused ==
    /\ At("refuse")
    /\ row' = [row EXCEPT ![I].refused = TRUE]
    /\ Done
    /\ UNCHANGED <<invoice, lms, call, faults>>

\* The LMS will never take it: let go, if it is still what waits.
Refuse ==
    /\ At("refuse")
    /\ row' = [row EXCEPT ![I] = IF @.pending # News THEN @
                                 ELSE [@ EXCEPT !.pending = Unset, !.refused = TRUE]]
    /\ Done
    /\ UNCHANGED <<invoice, lms, call, faults>>

\* drainCommissionStudents: taken, refused for good, or to be tried again.
SendStudent ==
    /\ At("student")
    /\ \E state \in {"sent", "failed", "pending"} :
         row' = [row EXCEPT ![I].commission = IF @ = "pending" THEN state ELSE @]
    /\ Done
    /\ UNCHANGED <<invoice, lms, call, faults>>

----------------------------------------------------------------------------
(* What goes wrong. *)

Fault(x) == x \in Mortal /\ faults < MaxFaults /\ faults' = faults + 1

Die(x) ==
    /\ Fault(x)
    /\ IF x = Worker THEN job # Idle /\ Done /\ UNCHANGED call
       ELSE call[x] # Idle /\ call' = [call EXCEPT ![x] = Idle] /\ UNCHANGED job
    /\ UNCHANGED <<invoice, row, lms>>

\* A database error after the row was saved, in the same try: back in the queue.
Throws ==
    /\ Fault(Worker)
    /\ \/ /\ At("reread") \/ At("raise")
          /\ row' = [row EXCEPT ![I].status = "pending"]
       \/ /\ At("unskip")
          /\ row' = [row EXCEPT ![I].other = "pending", ![I].otherError = TRUE]
    /\ Done
    /\ UNCHANGED <<invoice, lms, call>>

----------------------------------------------------------------------------
Continue(c) == Stop(c) \/ Exists(c) \/ Create(c) \/ SyncRead(c) \/ SyncWrite(c)

Work == \/ ProvisionCall \/ ProvisionSave \/ Reread \/ Raise
        \/ ProvisionOther \/ Unskip
        \/ AccessCall \/ TellOther \/ Clear \/ Refuse
        \/ SendStudent

Next ==
    \/ \E c \in Callers, i \in Invoices : Approve(c, i) \/ DeleteInvoice(c, i)
    \/ \E c \in Callers, i \in Invoices, rank \in Ranks : Pay(c, i, rank)
    \/ \E i \in Invoices, rank \in Ranks : ChangeUntold(i, rank)
    \/ \E c \in Callers : Continue(c)
    \/ \E i \in Invoices, stage \in {"provision", "other", "access", "student"} : Find(i, stage)
    \/ Work
    \/ \E x \in Callers \cup {Worker} : Die(x)
    \/ Throws

Spec == Init /\ [][Next]_vars

\* A call that began goes on; the worker's timer comes round to every row that
\* waits to be made or has news; the LMS answers sooner or later.
Fairness ==
    /\ \A c \in Callers : WF_vars(Continue(c))
    /\ WF_vars(Work)
    /\ \A i \in Invoices :
         /\ SF_vars(Find(i, "provision")) /\ SF_vars(Find(i, "access"))
         /\ SF_vars(ProvisionCall /\ I = i /\ job'.answer # "lost")
         /\ SF_vars(AccessCall /\ I = i /\ job' # Idle)
         /\ SF_vars(TellOther /\ I = i /\ job' # Idle)

FairSpec == Spec /\ Fairness
----------------------------------------------------------------------------
(* Properties. *)

TypeOK ==
    /\ invoice \in [Invoices -> [state : {"draft", "approved", "gone"}, paid : Ranks,
                                 changes : 0..MaxChanges]]
    /\ row \in [Invoices -> Row]
    /\ lms \in [Invoices -> [first : Told, other : Told]]
    /\ call \in [Callers -> Call \cup {Idle}]
    /\ job \in Job \cup {Idle}
    /\ faults \in 0..MaxFaults

Working(i) == job # Idle /\ job.inv = i

\* "As paid as the first course was last told" (drainLmsExtraCourses): once no
\* news waits, the other course was told of as much of the fee as the first,
\* whichever of its own sending and the payments came first -- unless the LMS
\* refused some of it.
OtherFollows ==
    \A i \in Invoices :
        /\ row[i].status = "sent" /\ row[i].other = "sent"
        /\ row[i].pending = Unset /\ ~row[i].refused /\ ~row[i].otherError
        /\ ~Working(i)
        => row[i].otherSent >= row[i].sent

\* "Cleared only when nothing newer arrived while the call was on its way"
\* (drainLmsAccessUpdates): news is let go of only when the LMS has that much
\* of the course open, or has refused that very news for good.
ClearedIsOpen ==
    [][\A i \in Invoices :
         row[i].pending # Unset /\ row'[i].pending = Unset /\ row'[i].status # "none" =>
             \/ lms[i].first >= row[i].pending
             \/ At("refuse") /\ News = row[i].pending]_vars

\* "A Forex course among the invoice's other courses still sends them, under
\* that course" (the model's commission): as long as nothing dies, a student
\* with a Forex course in the LMS is not left passed over.
ForexGoes ==
    \A i \in Invoices :
        /\ "other" \in Forex /\ row[i].other = "sent"
        /\ ~Working(i) /\ faults = 0
        => row[i].commission # "skipped"

\* "Anything else is waited out" (drainLmsProvisions): an approved enrolment comes
\* to be in the LMS, or its row says why it never will -- through a death of the
\* worker and lost answers.
EnrolmentArrives ==
    \A i \in Invoices :
        invoice[i].state = "approved" ~>
            \/ lms[i].first # Unset \/ row[i].status \in {"failed", "unmapped"}
            \/ invoice[i].state = "gone"

\* News of a payment does not wait for ever behind other news, a refusal or a
\* death of the worker, unless the row itself is refused or deleted.
NewsSettles ==
    \A i \in Invoices :
        row[i].pending # Unset ~> row[i].pending = Unset \/ row[i].status = "failed"

\* "A payment recorded while this was on its way raised the status after it was
\* read: send that too, rather than leave the LMS a step behind"
\* (drainLmsProvisions): once nothing is in progress and nothing waits, what
\* the row is to say has been sent, or the LMS refused it.
NoStepBehind ==
    \A i \in Invoices :
        /\ row[i].status = "sent" /\ row[i].pending = Unset /\ ~row[i].refused
        /\ ~Working(i) /\ \A c \in Callers : call[c] = Idle
        => row[i].sent >= row[i].payload
=============================================================================
