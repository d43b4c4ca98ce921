----------------------------- MODULE FeeUpdates -----------------------------
(***************************************************************************)
(* What CS Portal is told of an enrolment's money as it changes            *)
(* (apps/api/src/modules/integrations/commission-fee-update.service.ts).   *)
(*                                                                         *)
(* Every change of an invoice's money starts a call, never awaited, that   *)
(* reads the invoice and puts the whole picture of it in the invoice's one *)
(* queue row, over whatever is waiting there.  A worker claims due rows,   *)
(* sends them and writes the outcome down unless a newer one was queued.   *)
(* CS Portal keeps the picture with the latest stamp.                      *)
(***************************************************************************)
EXTENDS Naturals

CONSTANTS
    Invoices,
    Queuers,     \* calls of queueFeeUpdate that may be in progress together
    Mortal,      \* the processes that may die part-way: queuers, or Worker
    Worker,      \* the worker's pass (one: its `running` guard)
    MaxChanges,  \* bound: changes of one invoice's money
    MaxFaults    \* bound: processes that die

ASSUME WorkerAssumption == Worker \notin Queuers
ASSUME BoundsAssumption == {MaxChanges, MaxFaults} \subseteq Nat

VARIABLES
    money,    \* [version, gone]: the invoice's money as it is in the database
    student,  \* invoices whose student was sent to CS Portal (commission.state)
    row,      \* the invoice's row in the queue
    portal,   \* CS Portal's side: [known, picture, stamp]
    call,     \* each queuer's call, from one await to the next
    worker,   \* the pass: the row it claimed, and where it is with it
    found,    \* due rows the pass has read and not come to: <<invoice, stamp>>
    stuck,    \* rows claimed longer ago than STUCK_MS
    clock,    \* the last stamp given
    faults,
    raced     \* (for the properties) invoices with two calls in progress at once,
              \* or one that died

vars == <<money, student, row, portal, call, worker, found, stuck, clock, faults, raced>>

\* A picture is the version of the money it shows; every change makes another.
Pictures == 0..MaxChanges
Stamps == Nat

Row == [state   : {"none", "pending", "sending", "delivered", "stopped", "failed"},
        picture : Pictures,   \* payload
        stamp   : Stamps]     \* queuedAt, and the payload's updatedAt

Call == [at      : {"saved", "invoice", "stamp", "write"},
         inv     : Invoices,
         deleted : BOOLEAN,   \* opts.deleted: the document is passed, not read
         picture : Pictures,
         stamp   : Stamps]

Pass == [at : {"send", "outcome"}, inv : Invoices, picture : Pictures, stamp : Stamps,
         answer : {"none", "ok", "unknown", "refused", "lost"}]

Idle == [at |-> "idle"]

Init ==
    /\ money = [i \in Invoices |-> [version |-> 0, gone |-> FALSE]]
    /\ student = {}
    /\ row = [i \in Invoices |-> [state |-> "none", picture |-> 0, stamp |-> 0]]
    /\ portal = [i \in Invoices |-> [known |-> FALSE, picture |-> 0, stamp |-> 0]]
    /\ call = [q \in Queuers |-> Idle]
    /\ worker = Idle
    /\ found = {} /\ stuck = {}
    /\ clock = 0 /\ faults = 0 /\ raced = {}

----------------------------------------------------------------------------
(* The changes that are told. *)

Queue(q, i, deleted, version) ==
    /\ call[q] = Idle
    /\ call' = [call EXCEPT ![q] = [at |-> "saved", inv |-> i, deleted |-> deleted,
                                    picture |-> version, stamp |-> 0]]
    /\ raced' = raced \cup {call[p].inv : p \in {p \in Queuers : call[p] # Idle /\ call[p].inv = i}}

\* A payment recorded, edited or deleted, the invoice voided or restored, a
\* credit note, a due date: saved, and its update queued some awaits later.
Change(q, i) ==
    /\ ~money[i].gone /\ money[i].version < MaxChanges
    /\ money' = [money EXCEPT ![i].version = @ + 1]
    /\ Queue(q, i, FALSE, 0)
    /\ UNCHANGED <<student, row, portal, worker, found, stuck, clock, faults>>

\* The invoice is deleted: the call is given the document that is gone.
DeleteInvoice(q, i) ==
    /\ ~money[i].gone /\ money[i].version < MaxChanges
    /\ money' = [money EXCEPT ![i] = [version |-> @.version + 1, gone |-> TRUE]]
    /\ Queue(q, i, TRUE, money[i].version + 1)
    /\ UNCHANGED <<student, row, portal, worker, found, stuck, clock, faults>>

\* A bug it could have: the student goes as it was at approval, with no update after.
SendStudentOnly(q, i) ==
    /\ i \notin student /\ call[q] = Idle
    /\ student' = student \cup {i}
    /\ \E known \in BOOLEAN :
         portal' = [portal EXCEPT ![i] = [known |-> known, picture |-> 0, stamp |-> 0]]
    /\ UNCHANGED <<money, row, call, worker, found, stuck, clock, faults, raced>>

\* The LMS worker sends the student, with the fee as it was at approval
\* (version 0), marks the row sent and only then queues the money as it is now.
\* CS Portal may have no course fee for the invoice (an email it had already).
SendStudent(q, i) ==
    /\ i \notin student
    /\ student' = student \cup {i}
    /\ \E known \in BOOLEAN :
         portal' = [portal EXCEPT ![i] = [known |-> known, picture |-> 0, stamp |-> 0]]
    /\ Queue(q, i, FALSE, 0)
    /\ UNCHANGED <<money, row, worker, found, stuck, clock, faults>>

----------------------------------------------------------------------------
(* queueFeeUpdate, from one await to the next. *)

\* Only for a student who went to CS Portal; else sending the student queues it.
ReadProvision(q) ==
    /\ call[q].at = "saved"
    /\ call' = [call EXCEPT ![q] = IF call[q].inv \in student THEN [@ EXCEPT !.at = "invoice"]
                                   ELSE Idle]
    /\ UNCHANGED <<money, student, row, portal, worker, found, stuck, clock, faults, raced>>

ReadMoney(q) ==
    /\ call[q].at = "invoice"
    /\ LET i == call[q].inv IN
         call' = [call EXCEPT ![q] =
                    IF call[q].deleted THEN [@ EXCEPT !.at = "stamp"]
                    ELSE IF money[i].gone THEN Idle
                    ELSE [@ EXCEPT !.at = "stamp", !.picture = money[i].version]]
    /\ UNCHANGED <<money, student, row, portal, worker, found, stuck, clock, faults, raced>>

\* The clock is read after the customer was; no two reads of it are the same
\* millisecond.
Stamp(q) ==
    /\ call[q].at = "stamp"
    /\ clock' = clock + 1
    /\ call' = [call EXCEPT ![q].at = "write", ![q].stamp = clock + 1]
    /\ UNCHANGED <<money, student, row, portal, worker, found, stuck, faults, raced>>

\* The upsert: over whatever the row holds, being sent or not.
Write(q) ==
    /\ call[q].at = "write"
    /\ LET i == call[q].inv IN
         /\ row' = [row EXCEPT ![i] = [state |-> "pending", picture |-> call[q].picture,
                                       stamp |-> call[q].stamp]]
         /\ stuck' = stuck \ {i}
    /\ call' = [call EXCEPT ![q] = Idle]
    /\ UNCHANGED <<money, student, portal, worker, found, clock, faults, raced>>

----------------------------------------------------------------------------
(* The worker's pass (drainFeeUpdates). *)

\* A bug it could have: an update whose pass died is not looked for again.
DueIfPending == {i \in Invoices : row[i].state = "pending"}

Due == {i \in Invoices : \/ row[i].state = "pending"
                         \/ row[i].state = "sending" /\ i \in stuck}

\* Some of what is due: a row that failed waits its back-off out.
Find ==
    /\ worker = Idle /\ found = {}
    /\ \E S \in SUBSET Due \ {{}} : found' = {<<i, row[i].state, row[i].stamp>> : i \in S}
    /\ UNCHANGED <<money, student, row, portal, call, worker, stuck, clock, faults, raced>>

\* Claimed if it is as it was found, state and queuedAt; else left.
Claim(c) ==
    /\ worker = Idle /\ c \in found
    /\ found' = found \ {c}
    /\ LET i == c[1] IN
         IF row[i].state = c[2] /\ row[i].stamp = c[3]
         THEN /\ row' = [row EXCEPT ![i].state = "sending"]
              /\ stuck' = stuck \ {i}
              /\ worker' = [at |-> "send", inv |-> i, picture |-> row[i].picture,
                            stamp |-> row[i].stamp, answer |-> "none"]
         ELSE UNCHANGED <<row, stuck, worker>>
    /\ UNCHANGED <<money, student, portal, call, clock, faults, raced>>

\* CS Portal takes a picture newer than the one it has, answers 200 to an older
\* one too, and UNKNOWN_INVOICE where it has no fee.
PortalTakes(p) ==
    IF ~p.known THEN <<p, "unknown">>
    ELSE <<IF worker.stamp > p.stamp THEN [p EXCEPT !.picture = worker.picture, !.stamp = worker.stamp]
           ELSE p, "ok">>

Send ==
    /\ worker # Idle /\ worker.at = "send"
    /\ LET i == worker.inv taken == PortalTakes(portal[i]) IN
         \/ /\ portal' = [portal EXCEPT ![i] = taken[1]]
            /\ worker' = [worker EXCEPT !.at = "outcome", !.answer = taken[2]]
         \/ /\ worker' = [worker EXCEPT !.at = "outcome", !.answer = "refused"]   \* 400, 422
            /\ UNCHANGED portal
         \/ /\ portal' \in {portal, [portal EXCEPT ![i] = taken[1]]}   \* no answer
            /\ worker' = [worker EXCEPT !.at = "outcome", !.answer = "lost"]
    /\ UNCHANGED <<money, student, row, call, found, stuck, clock, faults, raced>>

\* A bug it could have: the state the deposits' queue uses, which this one has not.
StateAfterQueued(answer) ==
    CASE answer = "ok" -> "delivered" [] answer = "unknown" -> "stopped"
      [] answer = "refused" -> "failed" [] OTHER -> "queued"

StateAfter(answer) ==
    CASE answer = "ok" -> "delivered" [] answer = "unknown" -> "stopped"
      [] answer = "refused" -> "failed" [] OTHER -> "pending"

\* A bug it could have: the outcome is written over whatever was queued since.
OutcomeAnyway ==
    /\ worker # Idle /\ worker.at = "outcome"
    /\ row' = [row EXCEPT ![worker.inv].state = StateAfter(worker.answer)]
    /\ stuck' = stuck \ {worker.inv}
    /\ worker' = Idle
    /\ UNCHANGED <<money, student, portal, call, found, clock, faults, raced>>

\* Written only if nothing newer was queued meanwhile: `same`, by queuedAt.
Outcome ==
    /\ worker # Idle /\ worker.at = "outcome"
    /\ LET i == worker.inv IN
         IF row[i].stamp = worker.stamp
         THEN /\ row' = [row EXCEPT ![i].state = StateAfter(worker.answer)]
              /\ stuck' = stuck \ {i}
         ELSE UNCHANGED <<row, stuck>>
    /\ worker' = Idle
    /\ UNCHANGED <<money, student, portal, call, found, clock, faults, raced>>

----------------------------------------------------------------------------
(* The environment. *)

\* A process dies between two awaits, or its database call throws.
Die(x) ==
    /\ x \in Mortal /\ faults < MaxFaults
    /\ faults' = faults + 1
    /\ IF x = Worker
       THEN worker # Idle /\ worker' = Idle /\ found' = {} /\ UNCHANGED <<call, raced>>
       ELSE /\ call[x] # Idle /\ call' = [call EXCEPT ![x] = Idle]
            /\ raced' = raced \cup {call[x].inv}
            /\ UNCHANGED <<worker, found>>
    /\ UNCHANGED <<money, student, row, portal, stuck, clock>>

\* A claim grows older than STUCK_MS.  A pass that is alive is done with a row
\* sooner: the call to CS Portal is given up after 20 seconds.
Ages(i) ==
    /\ row[i].state = "sending" /\ i \notin stuck
    /\ ~(worker # Idle /\ worker.inv = i)
    /\ stuck' = stuck \cup {i}
    /\ UNCHANGED <<money, student, row, portal, call, worker, found, clock, faults, raced>>

----------------------------------------------------------------------------
Continue(q) == ReadProvision(q) \/ ReadMoney(q) \/ Stamp(q) \/ Write(q)

Next ==
    \/ \E q \in Queuers : Continue(q)
    \/ \E q \in Queuers, i \in Invoices : Change(q, i) \/ DeleteInvoice(q, i) \/ SendStudent(q, i)
    \/ Find \/ Send \/ Outcome
    \/ \E c \in found : Claim(c)
    \/ \E x \in Queuers \cup {Worker} : Die(x)
    \/ \E i \in Invoices : Ages(i)

Spec == Init /\ [][Next]_vars

\* A call that began goes on; the worker's timer comes round, with each due row
\* in turn; a dead claim grows old; CS Portal answers sooner or later.
Fairness ==
    /\ \A q \in Queuers : WF_vars(Continue(q))
    /\ WF_vars(\E c \in found : Claim(c)) /\ WF_vars(Send) /\ WF_vars(Outcome)
    /\ \A i \in Invoices :
         /\ SF_vars(Find /\ \E c \in found' : c[1] = i)
         /\ WF_vars(Ages(i))
         /\ SF_vars(Send /\ worker.inv = i /\ worker'.answer \in {"ok", "unknown"})

FairSpec == Spec /\ Fairness
----------------------------------------------------------------------------
(* Properties. *)

TypeOK ==
    /\ money \in [Invoices -> [version : Pictures, gone : BOOLEAN]]
    /\ student \subseteq Invoices
    /\ row \in [Invoices -> Row]
    /\ portal \in [Invoices -> [known : BOOLEAN, picture : Pictures, stamp : Stamps]]
    /\ call \in [Queuers -> Call \cup {Idle}]
    /\ worker \in Pass \cup {Idle}
    /\ found \subseteq Invoices \X {"pending", "sending"} \X Stamps
    /\ stuck \subseteq Invoices
    /\ clock \in Stamps /\ faults \in 0..MaxFaults
    /\ raced \subseteq Invoices

\* "Each outcome written only if nothing newer was queued meanwhile"
\* (drainFeeUpdates): a row that says delivered has its own picture in CS
\* Portal, or CS Portal has a newer one.
DeliveredIsThere ==
    \A i \in Invoices :
        row[i].state = "delivered" =>
            \/ portal[i].stamp = row[i].stamp /\ portal[i].picture = row[i].picture
            \/ portal[i].stamp > row[i].stamp

\* Of an invoice deleted before its student was sent nothing is ever queued: no
\* student yet at the deletion, no invoice left to read after the sending.
NeverTold(i) == money[i].gone /\ row[i].state = "none"

\* As long as no two calls about it overlapped and none died: when no call is in
\* progress the row of a student who went to CS Portal holds the money as it is
\* now, whatever the worker is doing and whichever came first, the change or the
\* student.
QueuedIsCurrent ==
    \A i \in student \ raced :
        (\A q \in Queuers : call[q] = Idle)
            => row[i].picture = money[i].version \/ NeverTold(i)

\* With no two calls about it overlapping and none dying: CS Portal, where it
\* knows the invoice and does not refuse the update for good, comes to show the
\* money as it is -- a worker that dies part-way included.
MoneyArrives ==
    \A i \in Invoices :
        i \in student /\ portal[i].known
            ~> portal[i].picture = money[i].version \/ row[i].state = "failed" \/ NeverTold(i)
               \/ i \in raced
============================================================================
