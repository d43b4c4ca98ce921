--------------------------- MODULE EnrolmentIntake ---------------------------
(***************************************************************************)
(* One enrolment of a sales CRM and the invoices made for it in the books  *)
(* of two academies (intakeEnrolment of                                    *)
(* apps/api/src/modules/integrations/enrolment-intake.service.ts): sent,   *)
(* sent again by a CRM that timed out, corrected once it was sent back,    *)
(* and moved to the other academy and back; while accounts approve, send   *)
(* back, void, restore, delete and are paid (invoice.service.ts).          *)
(*                                                                         *)
(* A call of the CRM goes from one read or write of the database to the    *)
(* next.  What is left of an invoice is its approval, its status, whether  *)
(* it was paid and where it moved; what it bills is left out.              *)
(***************************************************************************)
EXTENDS Naturals, FiniteSets

CONSTANTS
    Orgs,       \* the two academies' organizations
    Invoices,   \* ids for invoices, each given once
    Callers,    \* calls of the CRM that may be in progress together
    None,
    MaxFaults   \* bound: calls that die or throw

ASSUME OrgsAssumption == \E a, b \in Orgs : a # b /\ Orgs = {a, b}
ASSUME BoundsAssumption == MaxFaults \in Nat

VARIABLES
    invoice,   \* [org, keyed, approval, status, paid, moved] or None
    used,      \* ids given out
    call,      \* each call of the CRM
    desk,      \* an approval under way
    faults,
    raced,     \* (for the properties) something else happened while a call was in progress
    hands      \* (for the properties) what people did to invoices of this enrolment

vars == <<invoice, used, call, desk, faults, raced, hands>>

Statuses == {"draft", "sent", "partial", "paid", "void"}

Moved == [to : Invoices, from : Statuses]

Invoice == [org      : Orgs,
            keyed    : BOOLEAN,              \* external: the CRM's id is on it
            approval : {"pending", "returned", "approved"},
            status   : Statuses,
            paid     : BOOLEAN,              \* payments are recorded
            moved    : Moved \cup {None}]    \* enrolment.movedTo

Read == [status : Statuses, paid : BOOLEAN]

Call == [at    : {"elsewhere", "create", "key", "back", "restore", "correct", "rewrite",
                  "requeue", "moveOut"},
         org   : Orgs,
         mine  : Invoices \cup {None},   \* the invoice found or made
         moved : Moved \cup {None},      \* its movedTo, as found
         other : Invoices \cup {None},   \* the one to move out of the other academy
         from  : Statuses,               \* and its status, as read
         read  : Read \cup {None}]       \* what updateInvoice read of it

Idle == [at |-> "idle"]

ASSUME NoneAssumption == None \notin Invoices \cup Moved \cup Invoice \cup Read

Init ==
    /\ invoice = [i \in Invoices |-> None]
    /\ used = {}
    /\ call = [c \in Callers |-> Idle]
    /\ desk = Idle
    /\ faults = 0 /\ raced = FALSE /\ hands = {}

----------------------------------------------------------------------------
Here == {i \in Invoices : invoice[i] # None}
Live == {i \in Here : invoice[i].status # "void"}
Keyed(org) == {i \in Here : invoice[i].keyed /\ invoice[i].org = org}

Calling == \E c \in Callers : call[c] # Idle

To(c, record) == call' = [call EXCEPT ![c] = record]
Go(c, at) == call' = [call EXCEPT ![c].at = at]
Done(c) == To(c, Idle)

Quiet == UNCHANGED <<used, desk, faults, raced, hands>>

\* A bug it could have: what is not approved yet is open, and what was sent.
CorrectableUnlessPending(i) == invoice[i].approval # "pending"

\* "One exception to 'already here, nothing to do'."
Correctable(i) == invoice[i].approval = "returned"

\* refuseUnlessMovable
Movable(i) == invoice[i].approval = "returned" /\ ~invoice[i].paid

----------------------------------------------------------------------------
(* intakeEnrolment *)

\* Is it here already?  One that moved away comes back, one sent back is
\* corrected, any other is left alone.
Send(c, org) ==
    /\ call[c] = Idle
    /\ raced' = (raced \/ Calling \/ desk # Idle)
    /\ LET sent(at, i) == [at |-> at, org |-> org, mine |-> i, other |-> None,
                           moved |-> IF i = None THEN None ELSE invoice[i].moved,
                           from |-> "draft", read |-> None] IN
         \/ Keyed(org) = {} /\ To(c, sent("elsewhere", None))
         \/ \E i \in Keyed(org) :
              \/ invoice[i].moved # None /\ To(c, sent("back", i))
              \/ invoice[i].moved = None /\ Correctable(i) /\ To(c, sent("correct", i))
    /\ UNCHANGED <<invoice, used, desk, faults, hands>>

\* A bug it could have: the other academy's books are not looked at.
ElsewhereUnseen(c) ==
    /\ call[c].at = "elsewhere"
    /\ Go(c, "create")
    /\ UNCHANGED invoice /\ Quiet

\* In the other academy's books: it moves here, or the call is refused.
Elsewhere(c) ==
    /\ call[c].at = "elsewhere"
    /\ LET there == {i \in Live : invoice[i].keyed /\ invoice[i].org # call[c].org} IN
         \/ there = {} /\ Go(c, "create")
         \/ \E i \in there :
              IF Movable(i) THEN To(c, [call[c] EXCEPT !.at = "create", !.other = i, !.from = invoice[i].status])
              ELSE Done(c)
    /\ UNCHANGED invoice /\ Quiet

\* createInvoice: a draft, in front of an approver.
Create(c) ==
    /\ call[c].at = "create"
    /\ \E i \in Invoices \ used :
         /\ invoice' = [invoice EXCEPT ![i] =
                          [org |-> call[c].org, keyed |-> FALSE, approval |-> "pending", status |-> "draft",
                           paid |-> FALSE, moved |-> None]]
         /\ used' = used \cup {i}
         /\ To(c, [call[c] EXCEPT !.at = "key", !.mine = i])
    /\ UNCHANGED <<desk, faults, raced, hands>>

\* The CRM's id goes on it afterwards; the index refuses a second one.
Key(c) ==
    /\ call[c].at = "key"
    /\ IF Keyed(call[c].org) # {} THEN UNCHANGED invoice /\ Done(c)
       ELSE /\ invoice' = [i \in Invoices |-> IF i = call[c].mine /\ i \in Here
                                              THEN [invoice[i] EXCEPT !.keyed = TRUE] ELSE invoice[i]]
            /\ IF call[c].other # None THEN Go(c, "moveOut") ELSE Done(c)
    /\ Quiet

\* A bug it could have: the status it had is not kept.
LeftBehindBare(i, to, from) == [invoice EXCEPT ![i] = [@ EXCEPT !.status = "void",
                                                                !.moved = [to |-> to, from |-> None]]]

LeftBehind(i, to, from) == [invoice EXCEPT ![i] = [@ EXCEPT !.status = "void",
                                                            !.moved = [to |-> to, from |-> from]]]

\* moveOut: the one left behind is voided, if it is sent back still.
MoveOut(c) ==
    /\ call[c].at = "moveOut"
    /\ LET i == call[c].other IN
         invoice' = IF i \in Live /\ invoice[i].approval = "returned"
                    THEN LeftBehind(i, call[c].mine, call[c].from) ELSE invoice
    /\ Done(c)
    /\ Quiet

\* A bug it could have: the one to leave is voided before the one that comes back is.
BackVoidingFirst(c) ==
    /\ call[c].at = "back"
    /\ LET i == call[c].moved.to IN
         IF i \in Live
         THEN IF Movable(i) THEN Go(c, "restore") /\ invoice' = LeftBehind(i, call[c].mine, invoice[i].status)
              ELSE Done(c) /\ UNCHANGED invoice
         ELSE Go(c, "restore") /\ UNCHANGED invoice
    /\ Quiet

\* Moved away earlier: the invoice it became is looked at ...
Back(c) ==
    /\ call[c].at = "back"
    /\ LET i == call[c].moved.to IN
         IF i \in Live
         THEN IF Movable(i)
              THEN To(c, [call[c] EXCEPT !.at = "restore", !.other = i, !.from = invoice[i].status])
              ELSE Done(c)
         ELSE Go(c, "restore")
    /\ UNCHANGED invoice /\ Quiet

\* ... and this one is as it was before it moved.
Restore(c) ==
    /\ call[c].at = "restore"
    /\ invoice' = [i \in Invoices |-> IF i = call[c].mine /\ i \in Here
                                      THEN [invoice[i] EXCEPT !.status = call[c].moved.from, !.moved = None]
                                      ELSE invoice[i]]
    /\ Go(c, "correct")
    /\ Quiet

----------------------------------------------------------------------------
(* resubmitReturned, with updateInvoice. *)

ReadOf(i) == [status |-> invoice[i].status, paid |-> invoice[i].paid]

\* updateInvoice reads it: a voided one stays shut, and what it bills is not
\* reduced below what was received.
Correct(c) ==
    /\ call[c].at = "correct"
    /\ LET i == call[c].mine IN
         \/ i \in Live /\ To(c, [call[c] EXCEPT !.at = "rewrite", !.read = ReadOf(i)])
         \/ (i \in Live => invoice[i].paid) /\ Done(c)
    /\ UNCHANGED invoice /\ Quiet

StatusAfter(paid) == IF paid THEN {"partial", "paid"} ELSE {"sent"}

\* Its lines are saved, unless payments were written since; its status, if
\* that is another than was read.
Rewrite(c) ==
    /\ call[c].at = "rewrite"
    /\ LET i == call[c].mine read == call[c].read IN
         IF i \notin Here \/ invoice[i].paid # read.paid
         THEN UNCHANGED invoice /\ Done(c)
         ELSE /\ \E status \in IF read.status = "draft" THEN {"draft"} ELSE StatusAfter(read.paid) :
                   invoice' = [invoice EXCEPT ![i].status = IF status # read.status THEN status ELSE @]
              /\ To(c, [call[c] EXCEPT !.at = "requeue", !.read = None])
    /\ Quiet

\* Back in front of an approver, whatever was decided since it was found.
Requeue(c) ==
    /\ call[c].at = "requeue"
    /\ LET i == call[c].mine IN
         invoice' = IF i \in Here THEN [invoice EXCEPT ![i].approval = "pending"] ELSE invoice
    /\ IF call[c].other # None THEN Go(c, "moveOut") ELSE Done(c)
    /\ Quiet

\* A call dies between two of its steps, or throws.
Die(c) ==
    /\ call[c] # Idle /\ faults < MaxFaults
    /\ faults' = faults + 1
    /\ Done(c)
    /\ UNCHANGED <<invoice, used, desk, raced, hands>>

----------------------------------------------------------------------------
(* Accounts. *)

ByHand(i, record, what) ==
    /\ invoice' = [invoice EXCEPT ![i] = record]
    /\ hands' = hands \cup what
    /\ raced' = (raced \/ Calling)
    /\ UNCHANGED <<used, call, desk, faults>>

\* What a person did brings a voided invoice back, or counts it as approved.
Revived(i) == IF i \in Here \ Live THEN hands \cup {"revived"} ELSE hands

\* approveInvoice: any that is not approved, as it was read ...
Approve(i) ==
    /\ desk = Idle /\ i \in Here /\ invoice[i].approval # "approved"
    /\ desk' = [at |-> "approve", invoice |-> i, read |-> ReadOf(i)]
    /\ raced' = (raced \/ Calling)
    /\ UNCHANGED <<invoice, used, call, faults, hands>>

\* recordDeclaredPayments: where none are recorded yet, and then not always.
MayRecord(read) == ~read.paid

\* ... with the payments declared at the close ...
SaveApproval ==
    /\ desk.at = "approve"
    /\ LET i == desk.invoice read == desk.read IN
         \/ i \notin Here /\ desk' = Idle /\ UNCHANGED <<invoice, hands>>
         \/ /\ i \in Here
            /\ invoice' = [invoice EXCEPT ![i].approval = "approved"]
            /\ desk' = IF read.status = "draft" THEN [desk EXCEPT !.at = "issue", !.read = None] ELSE Idle
            /\ hands' = Revived(i)
         \/ /\ i \in Here /\ MayRecord(read)
            /\ \E status \in StatusAfter(TRUE) :
                 invoice' = [invoice EXCEPT ![i] = [@ EXCEPT !.approval = "approved", !.paid = TRUE,
                                                             !.status = status]]
            /\ hands' = Revived(i)
            /\ desk' = Idle
    /\ UNCHANGED <<used, call, faults, raced>>

\* ... and issued to the client.
Issue ==
    /\ desk.at = "issue"
    /\ LET i == desk.invoice IN
         /\ invoice' = IF i \in Here THEN [invoice EXCEPT ![i].status = "sent"] ELSE invoice
         /\ hands' = Revived(i)
    /\ desk' = Idle
    /\ UNCHANGED <<used, call, faults, raced>>

\* returnInvoice
Return(i) ==
    /\ i \in Here /\ invoice[i].status = "draft"
    /\ ByHand(i, [invoice[i] EXCEPT !.approval = "returned"], {})

\* resubmitInvoice
Resubmit(i) ==
    /\ i \in Here /\ invoice[i].approval = "returned"
    /\ ByHand(i, [invoice[i] EXCEPT !.approval = "pending"], {})

\* voidInvoice, restoreInvoice
Void(i) ==
    /\ i \in Live /\ invoice[i].status # "paid"
    /\ ByHand(i, [invoice[i] EXCEPT !.status = "void"], {"voided"})

Unvoid(i) ==
    /\ i \in Here \ Live
    /\ \E status \in IF invoice[i].paid THEN StatusAfter(TRUE) ELSE {"draft"} :
         ByHand(i, [invoice[i] EXCEPT !.status = status], {"revived"})

\* deleteInvoice; another may still say that it moved there.
Delete(i) ==
    /\ i \in Here /\ ~invoice[i].paid
    /\ LET pointing == {j \in Here : invoice[j].moved # None /\ invoice[j].moved.to = i} IN
         ByHand(i, None, IF pointing = {} THEN {"deleted"} ELSE {"deleted", "orphaned"})

----------------------------------------------------------------------------
Continue(c) ==
    \/ Elsewhere(c) \/ Create(c) \/ Key(c) \/ MoveOut(c) \/ Back(c) \/ Restore(c)
    \/ Correct(c) \/ Rewrite(c) \/ Requeue(c)

Next ==
    \/ \E c \in Callers : Continue(c) \/ Die(c) \/ \E org \in Orgs : Send(c, org)
    \/ \E i \in Invoices : \/ Approve(i) \/ Return(i) \/ Resubmit(i)
                           \/ Void(i) \/ Unvoid(i) \/ Delete(i)
    \/ SaveApproval \/ Issue

Spec == Init /\ [][Next]_vars
----------------------------------------------------------------------------
(* Properties. *)

TypeOK ==
    /\ invoice \in [Invoices -> Invoice \cup {None}]
    /\ used \subseteq Invoices /\ Here \subseteq used
    /\ call \in [Callers -> Call \cup {Idle}]
    /\ desk \in [at : {"approve", "issue"}, invoice : Invoices, read : Read \cup {None}] \cup {Idle}
    /\ faults \in 0..MaxFaults /\ raced \in BOOLEAN
    /\ hands \subseteq {"voided", "revived", "deleted", "orphaned"}

\* "The same invoice and the same number, corrected - never a second one, and
\* never a second bill" (intakeEnrolment): however often it is sent, corrected
\* and moved between the academies, an enrolment is billed by one invoice of
\* theirs that is not void: where its calls come one at a time and none
\* died, nobody restored or approved a voided invoice, nor deleted one another had moved to.
OneBill ==
    ~raced /\ faults = 0 /\ hands \cap {"revived", "orphaned"} = {} /\ ~Calling =>
        Cardinality(Live) <= 1

\* "Made here as a new enrolment ... and the sent-back invoice in the other is
\* voided" in that order: whatever people do meanwhile and wherever a call dies, an
\* enrolment taken is billed by an invoice that carries the CRM's id and is not void,
\* unless somebody voided or deleted one.  With calls of the CRM that do not
\* overlap: two of them, each moving it the other way, can void both.
StaysBilled ==
    (\E i \in Here : invoice[i].keyed) /\ hands \cap {"voided", "deleted"} = {} =>
        \E i \in Live : invoice[i].keyed

\* "An approved or paid invoice is not something a resend may quietly rewrite":
\* no call of the CRM changes an approved invoice, unless it was approved after the
\* call found it, or is one that moved away and was restored or approved by hand.
ApprovedStands ==
    [][~raced' /\ "revived" \notin hands /\ call' # call =>
           \A i \in Here : invoice[i].approval = "approved" => invoice'[i] = invoice[i]]_vars
=============================================================================
