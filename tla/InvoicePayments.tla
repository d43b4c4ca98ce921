--------------------------- MODULE InvoicePayments ---------------------------
(***************************************************************************)
(* The money of one approved invoice: payments recorded, edited and        *)
(* deleted, its lines edited, sent, voided and restored (recordPayment,    *)
(* updatePayment, deletePayment, updateInvoice, sendInvoice, voidInvoice   *)
(* and restoreInvoice of apps/api/src/modules/invoice/invoice.service.ts), *)
(* a credit note applied (credit-note.service.ts) and balance payments a   *)
(* sales CRM sends, that accountants decide (balance-payment.service.ts).  *)
(*                                                                         *)
(* A call reads the invoice, awaits other things and saves.  Its save      *)
(* writes the fields it changed and pushes or pulls a payment on the list  *)
(* as it is by then.  Only an edit in a list, or of all the lines, is      *)
(* refused where a list is no longer as it was read (mongoose's version).  *)
(***************************************************************************)
EXTENDS Integers, FiniteSets, FiniteSetsExt

CONSTANTS
    Total,      \* totalMinor as it was approved, and the most it is edited to
    Credit,     \* the credit note's total; 0 for none
    Requests,   \* balance payments of a CRM
    Ids,        \* ids for payments, each given once
    Actors,     \* calls that may be in progress together
    None,
    MaxFaults   \* bound: calls that die or throw

ASSUME NoneAssumption == None \notin Requests \cup Ids
ASSUME AmountsAssumption == Total \in Nat \ {0} /\ Credit \in Nat
ASSUME BoundsAssumption == MaxFaults \in Nat

VARIABLES
    invoice,   \* [status, total, paid, balance, payments]
    used,      \* ids given to payments
    note,      \* [status, applied]: the credit note
    credited,  \* (for the properties) credit put on the invoice
    request,   \* [status, claimed, amount, receipt]; claimed: decision.decidedAt is set
    recorded,  \* (for the properties) requests that were put on the invoice
    minted,    \* receipt numbers taken
    call,      \* each call, from one await to the next
    faults,
    raced,     \* (for the properties) two calls were in progress at once
    crossed    \* (for the properties) and one of them edited the total

vars == <<invoice, used, note, credited, request, recorded, minted, call, faults, raced, crossed>>

Amounts == 1..Total
NoNumber == 0

Payment == [id : Ids, amount : Amounts, ref : Requests \cup {None}, receipt : Nat]

Invoice == [status   : {"draft", "sent", "partial", "paid", "void"},
            total    : Amounts,
            paid     : Int,
            balance  : Int,
            payments : SUBSET Payment]

Note == [status : {"draft", "issued", "applied", "voided"}, applied : Int]

Request == [status  : {"absent", "pending", "approved", "rejected"},
            claimed : BOOLEAN, amount : 0..Total, receipt : Nat]

Call == [at     : {"weigh", "claim", "read", "save", "back", "unset", "receipt", "stamp", "mark",
                   "edit", "remove", "amend", "send", "target", "apply", "count"},
         req    : Requests \cup {None},
         id     : Ids \cup {None},
         amount : Int,
         doc    : Invoice \cup {None},   \* the invoice as it was read, as far as it is used
         moved  : BOOLEAN,               \* its __v has moved since, and the save looks at it
         note   : Note \cup {None},      \* the credit note as it was read
         number : Nat]        \* the receipt number found or taken

Idle == [at |-> "idle"]

Init ==
    /\ invoice = [status |-> "sent", total |-> Total, paid |-> 0, balance |-> Total,
                  payments |-> {}]
    /\ used = {} /\ recorded = {}
    /\ note = [status |-> "draft", applied |-> 0] /\ credited = 0
    /\ request = [r \in Requests |-> [status |-> "absent", claimed |-> FALSE, amount |-> 0,
                                      receipt |-> NoNumber]]
    /\ minted = NoNumber
    /\ call = [a \in Actors |-> Idle]
    /\ faults = 0 /\ raced = FALSE /\ crossed = FALSE

----------------------------------------------------------------------------
\* What the payments come to, minor unit by minor unit.
SumOf(payments) == Cardinality({unit \in payments \X Amounts : unit[2] <= unit[1].amount})

\* save() after the document read as `doc`: only what changed is written.
Written(doc, paid, balance, status) ==
    [invoice EXCEPT !.paid    = IF paid # doc.paid THEN paid ELSE @,
                    !.balance = IF balance # doc.balance THEN balance ELSE @,
                    !.status  = IF status # doc.status THEN status ELSE @]

\* __v goes up with a payment pushed or pulled and with the lines set: an edit
\* in the payments, or of the lines, read before that will be refused.
MovesOn(calls) ==
    [b \in Actors |-> IF calls[b].at \in {"edit", "amend"} THEN [calls[b] EXCEPT !.moved = TRUE]
                      ELSE calls[b]]

\* A bug it could have: the status a reader is shown is the one saved.
StatusShown(balance) == IF balance <= 0 THEN "paid" ELSE "overdue"

StatusFor(balance) == IF balance <= 0 THEN "paid" ELSE "partial"

Outstanding(paid, balance) ==
    IF balance <= 0 THEN "paid" ELSE IF paid > 0 THEN "partial" ELSE "sent"

Together == \E a \in Actors : call[a] # Idle

Fresh(at, doc) == [at |-> at, req |-> None, id |-> None, amount |-> 0, doc |-> doc, note |-> None,
                   moved |-> FALSE, number |-> NoNumber]

\* What a save that only adds to the totals goes by.
Figures == [invoice EXCEPT !.payments = {}]

Begin(a, record) ==
    /\ call[a] = Idle
    /\ call' = [call EXCEPT ![a] = record]
    /\ raced' = (raced \/ Together)
    /\ crossed' = (crossed \/ \E b \in Actors \ {a} :
                     call[b] # Idle /\ "amend" \in {record.at, call[b].at})

Go(a, at) == call' = [call EXCEPT ![a].at = at]
Done(a) == call' = [call EXCEPT ![a] = Idle]

----------------------------------------------------------------------------
(* recordPayment, updatePayment, deletePayment, voidInvoice. *)

Takes(doc, amount) == doc.status \notin {"void", "paid"} /\ amount <= doc.balance

\* Typed by accounts: the invoice is read and the payment looked at.
Record(a, amount) ==
    /\ Takes(invoice, amount)
    /\ Begin(a, [Fresh("save", Figures) EXCEPT !.amount = amount])
    /\ UNCHANGED <<invoice, used, note, credited, request, recorded, minted, faults>>

\* The payment is pushed; the total is the one read, and the amount.
SaveRecorded(a) ==
    /\ call[a].at = "save"
    /\ \E id \in Ids \ used :
         LET c == call[a] paid == c.doc.paid + c.amount balance == c.doc.total - paid IN
           /\ invoice' = [Written(c.doc, paid, balance, StatusFor(balance)) EXCEPT
                            !.payments = @ \cup {[id |-> id, amount |-> c.amount, ref |-> c.req,
                                                  receipt |-> NoNumber]}]
           /\ used' = used \cup {id}
           /\ recorded' = recorded \cup ({c.req} \ {None})
           /\ call' = MovesOn([call EXCEPT ![a] = IF c.req = None THEN Idle
                                                 ELSE [c EXCEPT !.at = "back", !.doc = None]])
    /\ UNCHANGED <<note, credited, request, minted, faults, raced, crossed>>

\* Its amount changed: with the others as read it fits the invoice's total.
Edit(a, p, amount) ==
    /\ invoice.status # "void" /\ p \in invoice.payments /\ amount # p.amount
    /\ SumOf(invoice.payments \ {p}) + amount <= invoice.total
    /\ Begin(a, [Fresh("edit", invoice) EXCEPT !.id = p.id, !.amount = amount])
    /\ UNCHANGED <<invoice, used, note, credited, request, recorded, minted, faults>>

\* A bug it could have: the new amount is added, the old one not taken off.
SaveEditAdded(a) ==
    /\ call[a].at = "edit"
    /\ LET c       == call[a]
           paid    == c.doc.paid + c.amount
           balance == c.doc.total - paid
           edited  == {IF p.id = c.id THEN [p EXCEPT !.amount = c.amount] ELSE p : p \in invoice.payments}
       IN invoice' = [Written(c.doc, paid, balance, StatusFor(balance)) EXCEPT !.payments = edited]
    /\ Done(a)
    /\ UNCHANGED <<used, note, credited, request, recorded, minted, faults, raced, crossed>>

\* Refused if a payment was pushed or pulled, or the lines edited, since.
SaveEdit(a) ==
    /\ call[a].at = "edit"
    /\ LET c       == call[a]
           paid    == SumOf({p \in c.doc.payments : p.id # c.id}) + c.amount
           balance == c.doc.total - paid
           edited  == {IF p.id = c.id THEN [p EXCEPT !.amount = c.amount] ELSE p : p \in invoice.payments}
       IN invoice' = IF c.moved THEN invoice
                     ELSE [Written(c.doc, paid, balance, StatusFor(balance)) EXCEPT !.payments = edited]
    /\ Done(a)
    /\ UNCHANGED <<used, note, credited, request, recorded, minted, faults, raced, crossed>>

Remove(a, p) ==
    /\ invoice.status # "void" /\ p \in invoice.payments
    /\ Begin(a, [Fresh("remove", invoice) EXCEPT !.id = p.id])
    /\ UNCHANGED <<invoice, used, note, credited, request, recorded, minted, faults>>

\* A bug it could have: the money is taken off the total, the status left.
SaveRemoveOnly(a) ==
    /\ call[a].at = "remove"
    /\ LET c == call[a] left == {p \in c.doc.payments : p.id # c.id} paid == SumOf(left) IN
         invoice' = [Written(c.doc, paid, c.doc.total - paid, c.doc.status) EXCEPT
                       !.payments = {p \in @ : p.id # c.id}]
    /\ call' = MovesOn([call EXCEPT ![a] = Idle])
    /\ UNCHANGED <<used, note, credited, request, recorded, minted, faults, raced, crossed>>

\* What is left is counted from the payments as read; the pull is not refused.
SaveRemove(a) ==
    /\ call[a].at = "remove"
    /\ LET c       == call[a]
           left    == {p \in c.doc.payments : p.id # c.id}
           paid    == SumOf(left)
           balance == c.doc.total - paid
       IN invoice' = [Written(c.doc, paid, balance, Outstanding(paid, balance)) EXCEPT
                        !.payments = {p \in @ : p.id # c.id}]
    /\ call' = MovesOn([call EXCEPT ![a] = Idle])
    /\ UNCHANGED <<used, note, credited, request, recorded, minted, faults, raced, crossed>>

\* updateInvoice with other lines: not below what has been received.
Amend(a, total) ==
    /\ invoice.status # "void" /\ total # invoice.total /\ invoice.paid <= total
    /\ Begin(a, [Fresh("amend", Figures) EXCEPT !.amount = total])
    /\ UNCHANGED <<invoice, used, note, credited, request, recorded, minted, faults>>

\* A bug it could have: what the customer owes stays what the old lines came to.
SaveAmendLines(a) ==
    /\ call[a].at = "amend"
    /\ IF call[a].moved THEN Done(a) /\ UNCHANGED invoice
       ELSE /\ invoice' = [invoice EXCEPT !.total = call[a].amount]
            /\ call' = MovesOn([call EXCEPT ![a] = Idle])
    /\ UNCHANGED <<used, note, credited, request, recorded, minted, faults, raced, crossed>>

\* A draft stays one; else the status says what is now left to pay.
SaveAmend(a) ==
    /\ call[a].at = "amend"
    /\ LET c       == call[a]
           paid    == c.doc.paid
           balance == c.amount - paid
           status  == IF c.doc.status = "draft" THEN "draft" ELSE Outstanding(paid, balance)
       IN IF c.moved THEN Done(a) /\ UNCHANGED invoice
          ELSE /\ invoice' = [Written(c.doc, paid, balance, status) EXCEPT !.total = c.amount]
               /\ call' = MovesOn([call EXCEPT ![a] = Idle])
    /\ UNCHANGED <<used, note, credited, request, recorded, minted, faults, raced, crossed>>

\* Read and saved with nothing awaited in between.
Void ==
    /\ invoice.status \notin {"paid", "void"}
    /\ invoice' = [invoice EXCEPT !.status = "void"]
    /\ raced' = (raced \/ Together)
    /\ UNCHANGED <<used, note, credited, request, recorded, minted, call, faults, crossed>>

\* Nothing awaited either.  With nothing paid it is a draft, to be sent again.
Restore ==
    /\ invoice.status = "void"
    /\ LET paid == invoice.paid IN
         invoice' = [invoice EXCEPT !.balance = invoice.total - paid,
                                    !.status  = IF paid <= 0 THEN "draft"
                                                ELSE IF paid >= invoice.total THEN "paid" ELSE "partial"]
    /\ raced' = (raced \/ Together)
    /\ UNCHANGED <<used, note, credited, request, recorded, minted, call, faults, crossed>>

\* sendInvoice: the stock is looked at between its read and its save.
Send(a) ==
    /\ invoice.status = "draft"
    /\ Begin(a, Fresh("send", None))
    /\ UNCHANGED <<invoice, used, note, credited, request, recorded, minted, faults>>

SaveSend(a) ==
    /\ call[a].at = "send"
    /\ invoice' = [invoice EXCEPT !.status = "sent"]
    /\ Done(a)
    /\ UNCHANGED <<used, note, credited, request, recorded, minted, faults, raced, crossed>>

----------------------------------------------------------------------------
(* The credit note. *)

Issue ==
    /\ Credit > 0 /\ note.status = "draft"
    /\ note' = [note EXCEPT !.status = "issued"]
    /\ UNCHANGED <<invoice, used, credited, request, recorded, minted, call, faults, raced, crossed>>

VoidNote ==
    /\ Credit > 0 /\ note.status \notin {"applied", "voided"}
    /\ note' = [note EXCEPT !.status = "voided"]
    /\ raced' = (raced \/ Together)
    /\ UNCHANGED <<invoice, used, credited, request, recorded, minted, call, faults, crossed>>

Apply(a) ==
    /\ note.status = "issued" /\ note.applied < Credit
    /\ Begin(a, [Fresh("target", None) EXCEPT !.note = note])
    /\ UNCHANGED <<invoice, used, note, credited, request, recorded, minted, faults>>

\* The invoice is read after the note; as much as both have room for.
Target(a) ==
    /\ call[a].at = "target"
    /\ IF invoice.status = "void" THEN Done(a)
       ELSE LET room == Credit - call[a].note.applied IN
              call' = [call EXCEPT ![a].at = "apply", ![a].doc = Figures,
                         ![a].amount = IF room < invoice.balance THEN room ELSE invoice.balance]
    /\ UNCHANGED <<invoice, used, note, credited, request, recorded, minted, faults, raced, crossed>>

ApplySave(a) ==
    /\ call[a].at = "apply"
    /\ LET c       == call[a]
           paid    == c.doc.paid + c.amount
           balance == c.doc.balance - c.amount
           status  == IF balance <= 0 THEN "paid" ELSE IF paid > 0 THEN "partial" ELSE c.doc.status
       IN invoice' = Written(c.doc, paid, balance, status)
    /\ credited' = credited + call[a].amount
    /\ call' = [call EXCEPT ![a].at = "count", ![a].doc = None]
    /\ UNCHANGED <<used, note, request, recorded, minted, faults, raced, crossed>>

\* Only then is it counted on the note, from what was read of it.
Count(a) ==
    /\ call[a].at = "count"
    /\ LET c == call[a] applied == c.note.applied + c.amount IN
         note' = [status  |-> IF applied >= Credit THEN "applied" ELSE note.status,
                  applied |-> IF c.amount = 0 THEN note.applied ELSE applied]
    /\ Done(a)
    /\ UNCHANGED <<invoice, used, credited, request, recorded, minted, faults, raced, crossed>>

----------------------------------------------------------------------------
(* Balance payments: intakeBalancePayment, decideBalancePayment. *)

Waiting(others) == MapThenSumSet(LAMBDA r : IF request[r].status = "pending" THEN request[r].amount ELSE 0,
                                 others)

Fits(r, amount) == /\ invoice.status # "void" /\ invoice.balance > 0
                   /\ amount + Waiting(Requests \ {r}) <= invoice.balance

\* Sent again it is the same request.
Intake(r, amount) ==
    /\ request[r].status = "absent" /\ Fits(r, amount)
    /\ request' = [request EXCEPT ![r].status = "pending", ![r].amount = amount]
    /\ UNCHANGED <<invoice, used, note, credited, recorded, minted, call, faults, raced, crossed>>

Reject(r) ==
    /\ request[r].status = "pending"
    /\ request' = [request EXCEPT ![r].status = "rejected", ![r].claimed = TRUE]
    /\ raced' = (raced \/ Together)
    /\ UNCHANGED <<invoice, used, note, credited, recorded, minted, call, faults, crossed>>

Approve(a, r) ==
    /\ request[r].status = "pending"
    /\ Begin(a, [Fresh("weigh", None) EXCEPT !.req = r, !.amount = request[r].amount])
    /\ UNCHANGED <<invoice, used, note, credited, request, recorded, minted, faults>>

OnInvoice(r) == \E p \in invoice.payments : p.ref = r

\* On the invoice already, from an attempt that got that far: only the rest.
Weigh(a) ==
    /\ call[a].at = "weigh"
    /\ LET c == call[a] IN
         IF OnInvoice(c.req) THEN Go(a, "receipt")
         ELSE IF Fits(c.req, c.amount) THEN Go(a, "claim") ELSE Done(a)
    /\ UNCHANGED <<invoice, used, note, credited, request, recorded, minted, faults, raced, crossed>>

\* A bug it could have: claimed whoever else had.
ClaimAnyway(a) ==
    /\ call[a].at = "claim"
    /\ LET r == call[a].req IN
         IF request[r].status = "pending"
         THEN request' = [request EXCEPT ![r].claimed = TRUE] /\ Go(a, "read")
         ELSE UNCHANGED request /\ Done(a)
    /\ UNCHANGED <<invoice, used, note, credited, recorded, minted, faults, raced, crossed>>

Claim(a) ==
    /\ call[a].at = "claim"
    /\ LET r == call[a].req IN
         IF request[r].status = "pending" /\ ~request[r].claimed
         THEN request' = [request EXCEPT ![r].claimed = TRUE] /\ Go(a, "read")
         ELSE UNCHANGED request /\ Done(a)
    /\ UNCHANGED <<invoice, used, note, credited, recorded, minted, faults, raced, crossed>>

\* recordPayment reads the invoice: recorded already it does nothing.
ReadToRecord(a) ==
    /\ call[a].at = "read"
    /\ LET c == call[a] IN
         call' = [call EXCEPT ![a] =
                    IF OnInvoice(c.req) THEN [c EXCEPT !.at = "receipt"]
                    ELSE IF Takes(invoice, c.amount) THEN [c EXCEPT !.at = "save", !.doc = Figures]
                    ELSE [c EXCEPT !.at = "unset"]]
    /\ UNCHANGED <<invoice, used, note, credited, request, recorded, minted, faults, raced, crossed>>

\* The payment is saved, and recordPayment returns.
Back(a) ==
    /\ call[a].at = "back"
    /\ Go(a, "receipt")
    /\ UNCHANGED <<invoice, used, note, credited, request, recorded, minted, faults, raced, crossed>>

\* recordPayment threw: the claim is given up, unless it was rejected meanwhile.
Unset(a) ==
    /\ call[a].at = "unset"
    /\ LET r == call[a].req IN
         request' = [request EXCEPT ![r].claimed = IF request[r].status = "pending" THEN FALSE ELSE @]
    /\ Done(a)
    /\ UNCHANGED <<invoice, used, note, credited, recorded, minted, faults, raced, crossed>>

\* A bug it could have: a number is taken whether the payment has one or not.
ReceiptAnew(a) ==
    /\ call[a].at = "receipt"
    /\ IF OnInvoice(call[a].req)
       THEN /\ minted' = minted + 1
            /\ call' = [call EXCEPT ![a].at = "stamp", ![a].number = minted + 1]
       ELSE Done(a) /\ UNCHANGED minted
    /\ UNCHANGED <<invoice, used, note, credited, request, recorded, faults, raced, crossed>>

\* issueReceipt: the payment's own number, or the next one.
Receipt(a) ==
    /\ call[a].at = "receipt"
    /\ IF ~OnInvoice(call[a].req) THEN Done(a) /\ UNCHANGED minted
       ELSE LET p == CHOOSE p \in invoice.payments : p.ref = call[a].req IN
              IF p.receipt # NoNumber
              THEN /\ call' = [call EXCEPT ![a].at = "mark", ![a].number = p.receipt]
                   /\ UNCHANGED minted
              ELSE /\ minted' = minted + 1
                   /\ call' = [call EXCEPT ![a].at = "stamp", ![a].number = minted + 1]
    /\ UNCHANGED <<invoice, used, note, credited, request, recorded, faults, raced, crossed>>

\* On the payment, if it has none yet.
StampReceipt(a) ==
    /\ call[a].at = "stamp"
    /\ LET c == call[a] IN
         invoice' = [invoice EXCEPT !.payments =
                       {IF p.ref = c.req /\ p.receipt = NoNumber THEN [p EXCEPT !.receipt = c.number] ELSE p
                          : p \in @}]
    /\ Go(a, "mark")
    /\ UNCHANGED <<used, note, credited, request, recorded, minted, faults, raced, crossed>>

\* Approved, whatever became of it since it was claimed.
Mark(a) ==
    /\ call[a].at = "mark"
    /\ request' = [request EXCEPT ![call[a].req] = [@ EXCEPT !.status = "approved", !.claimed = TRUE,
                                                             !.receipt = call[a].number]]
    /\ Done(a)
    /\ UNCHANGED <<invoice, used, note, credited, recorded, minted, faults, raced, crossed>>

----------------------------------------------------------------------------
(* What goes wrong. *)

\* The process dies between two awaits, or the database throws where nothing
\* is done about it.
Die(a) ==
    /\ call[a] # Idle /\ faults < MaxFaults
    /\ faults' = faults + 1
    /\ Done(a)
    /\ UNCHANGED <<invoice, used, note, credited, request, recorded, minted, raced, crossed>>

\* recordPayment throws, before or after its save: caught, and the claim given up.
Throw(a) ==
    /\ call[a] # Idle /\ call[a].req # None /\ call[a].at \in {"read", "save", "back"}
    /\ faults < MaxFaults
    /\ faults' = faults + 1
    /\ call' = [call EXCEPT ![a].at = "unset", ![a].doc = None]
    /\ UNCHANGED <<invoice, used, note, credited, request, recorded, minted, raced, crossed>>

----------------------------------------------------------------------------
Start(a) ==
    \/ \E amount \in Amounts : Record(a, amount)
    \/ \E p \in invoice.payments : Remove(a, p) \/ \E amount \in Amounts : Edit(a, p, amount)
    \/ \E total \in Amounts : Amend(a, total)
    \/ Send(a) \/ Apply(a)
    \/ \E r \in Requests : Approve(a, r)

Continue(a) ==
    \/ SaveRecorded(a) \/ SaveEdit(a) \/ SaveRemove(a) \/ SaveAmend(a) \/ SaveSend(a)
    \/ Target(a) \/ ApplySave(a) \/ Count(a)
    \/ Weigh(a) \/ Claim(a) \/ ReadToRecord(a) \/ Back(a) \/ Unset(a)
    \/ Receipt(a) \/ StampReceipt(a) \/ Mark(a)

Next ==
    \/ \E a \in Actors : Start(a) \/ Continue(a) \/ Die(a) \/ Throw(a)
    \/ Void \/ Restore \/ Issue \/ VoidNote
    \/ \E r \in Requests : Reject(r) \/ \E amount \in Amounts : Intake(r, amount)

Spec == Init /\ [][Next]_vars
----------------------------------------------------------------------------
(* Properties. *)

TypeOK ==
    /\ invoice \in Invoice
    /\ used \subseteq Ids
    /\ note \in Note
    /\ credited \in Int
    /\ request \in [Requests -> Request]
    /\ recorded \subseteq Requests
    /\ minted \in Nat
    /\ call \in [Actors -> Call \cup {Idle}]
    /\ faults \in 0..MaxFaults /\ raced \in BOOLEAN /\ crossed \in BOOLEAN

\* Whatever overlaps, overwrites or dies, what is left to pay is the total less
\* what counts as paid: every save writes both fields or neither, from one read.
\* Until an edit of the total overlaps another call: its save and theirs then
\* leave a balance that is neither's (updateInvoice).
BalanceIsRest == ~crossed => invoice.paid + invoice.balance = invoice.total

\* One call at a time: the invoice counts no money it does not hold, and loses
\* no payment: its payments, and of the credit put on it what no later edit or
\* deletion of a payment dropped.
PaidIsHeld ==
    ~raced => /\ SumOf(invoice.payments) <= invoice.paid
              /\ invoice.paid <= SumOf(invoice.payments) + credited
              /\ invoice.paid <= invoice.total

\* One call at a time: an invoice reads as paid exactly when nothing is left to
\* pay, and as unpaid only when nothing counts as paid.
StatusAgrees ==
    ~raced /\ invoice.status # "void" =>
        /\ invoice.status = "paid" <=> invoice.balance <= 0
        /\ invoice.status \in {"draft", "sent"} <=> invoice.paid = 0

\* One call at a time, deaths and failures included: the receipt number the CRM
\* reads of a payment is the one on the payment (issueReceipt).
ReceiptAgrees ==
    ~raced =>
        \A r \in Requests : \A p \in invoice.payments :
            p.ref = r /\ request[r].status = "approved" => p.receipt = request[r].receipt

\* "Claimed before it is recorded, so two accountants never record it twice";
\* "recorded on the invoice first ... then marked so" (decideBalancePayment):
\* two accountants, the CRM, deaths and failures before and after the save keep
\* the promises of SettledRequests.
Settled == INSTANCE SettledRequests WITH
    answer  <- [r \in Requests |-> request[r].status],
    counted <- [r \in Requests |-> Cardinality({p \in invoice.payments : p.ref = r})]

KeepsPromises == Settled!Spec
=============================================================================
