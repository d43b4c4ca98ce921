------------------------ MODULE TetraDepositsProofs ------------------------
(***************************************************************************)
(* What TetraDeposits guarantees for every set of requests and             *)
(* accountants, whatever CS Portal does and however many handlers die: one *)
(* sender per decision, one payment per request, and nothing in delivery   *)
(* for a request that waits for a decision.  The second part assumes one   *)
(* accountant: then what waits is not paid, but for what was reopened      *)
(* while its invoice was void; what is delivered is what CS Portal has, no *)
(* decision is lost, and CS Portal hears of an approval after its payment  *)
(* is remembered.                                                          *)
(***************************************************************************)
EXTENDS TetraDeposits, TLAPS

(* The inductive invariant. *)

Kept == {"approved", "rejected", "closed"}

\* What a handler can have read, by what it does.
CallShape ==
    \A a \in Actors : call[a] # Idle =>
        /\ call[a].at \in Claimed => call[a].op \in {"approve", "reject", "resend", "pass"}
        /\ call[a].at \in {"find", "takeoff"} => call[a].op \in {"reopen", "withdraw"}
        /\ call[a].at = "save" => call[a].payment \in PaymentIds
        /\ call[a].op = "withdraw" => call[a].status \in Kept \cup {"deleted"}
        /\ call[a].op \in {"delete", "restore"} => call[a].status \in Kept
        /\ call[a].at \in {"check", "delete"} => call[a].op = "delete"
        /\ call[a].at = "restore" => call[a].op = "restore"
        /\ call[a].at = "withdraw" => call[a].op = "withdraw"

RowShape ==
    \A r \in Requests :
        /\ row[r].status = "deleted" => row[r].previous \in Kept
        /\ row[r].status = "absent" => row[r].delivery = "none" /\ r \notin found /\ r \notin owed

\* Whoever holds a decision, the row says "sending" and no claim can match it.
HeldIsSending ==
    \A r \in Requests : \A a \in Actors :
        Holds(a, r) => row[r].delivery = "sending" /\ r \notin found /\ r \notin stuck

\* A payment about to be saved is the only one.
SaveIsFirst ==
    \A a \in Actors : At(a, "save") => invoice[call[a].req] = {}

IInv == /\ TypeOK /\ CallShape /\ RowShape /\ HeldIsSending
        /\ OneSender /\ PendingIsClean /\ SaveIsFirst /\ OnePayment

----------------------------------------------------------------------------
(* What each action does, field by field. *)

Busy(a, r) == call[a] # Idle /\ call[a] \in Call /\ r = call[a].req /\ r \in Requests
OtherCalls(a) == \A b \in Actors : b # a => call'[b] = call[b]
Ends(a) == call'[a] = Idle /\ OtherCalls(a)
Goes(a, at) == /\ call'[a] # Idle /\ call'[a].at = at /\ call'[a].req = call[a].req
               /\ call'[a].op = call[a].op /\ OtherCalls(a)

\* A handler begins: nobody else's changes.
Begins(a, op, at, r, status) ==
    /\ call[a] = Idle /\ call'[a] # Idle /\ call'[a].op = op /\ call'[a].at = at
    /\ call'[a].req = r /\ call'[a].status = status
    /\ call'[a].payment = row[r].recorded /\ OtherCalls(a)

OtherRows(r) == \A q \in Requests : q # r => row'[q] = row[q]
RowIs(r, status, delivery, recorded, previous) ==
    /\ row'[r].status = status /\ row'[r].delivery = delivery
    /\ row'[r].recorded = recorded /\ row'[r].previous = previous /\ OtherRows(r)

LEMMA CallSet ==
    ASSUME TypeOK, NEW a \in Actors, NEW new, call' = [call EXCEPT ![a] = new]
    PROVE  call'[a] = new /\ OtherCalls(a)
BY DEF TypeOK, OtherCalls

LEMMA RowSet ==
    ASSUME TypeOK, NEW r \in Requests, NEW new, row' = [row EXCEPT ![r] = new]
    PROVE  row'[r] = new /\ OtherRows(r)
BY DEF TypeOK, OtherRows

\* A handler that is at another step, or has ended, is a handler still.
LEMMA CallStays ==
    ASSUME TypeOK, NEW a \in Actors, NEW new \in Call \cup {Idle}, call' = [call EXCEPT ![a] = new]
    PROVE  call' \in [Actors -> Call \cup {Idle}]
BY DEF TypeOK

\* So is a row whose request is now deleted.
LEMMA DeletedRow ==
    ASSUME NEW new \in Row, NEW status \in Statuses
    PROVE  [new EXCEPT !.status = "deleted", !.previous = status] \in Row
BY DEF Row, Statuses

LEMMA GotoStays ==
    ASSUME TypeOK, NEW a \in Actors, call[a] \in Call, NEW at \in Steps, Goto(a, at)
    PROVE  call' \in [Actors -> Call \cup {Idle}]
<1>1. [call[a] EXCEPT !.at = at] \in Call
  BY DEF Call
<1> QED
  BY <1>1, CallStays DEF Goto

LEMMA FinishStays ==
    ASSUME TypeOK, NEW a \in Actors, Finish(a) PROVE call' \in [Actors -> Call \cup {Idle}]
BY CallStays DEF Finish

LEMMA BusyAt ==
    ASSUME TypeOK, NEW a \in Actors, call[a].at \in Steps PROVE Busy(a, call[a].req)
BY DEF TypeOK, Busy, Call, Idle, Steps

LEMMA NewCall ==
    ASSUME TypeOK, NEW a \in Actors, NEW op, NEW at, at # "idle", NEW r, NEW status,
           call[a] = Idle, call' = [call EXCEPT ![a] = Begin(op, at, r, status)]
    PROVE  Begins(a, op, at, r, status)
<1>1. call'[a] = Begin(op, at, r, status) /\ OtherCalls(a)
  BY CallSet
<1> QED
  BY <1>1 DEF Begin, Begins, Idle

LEMMA CallGoes ==
    ASSUME TypeOK, NEW a \in Actors, call[a].at \in Steps, NEW at \in Steps,
           call' = [call EXCEPT ![a].at = at]
    PROVE  /\ Goes(a, at) /\ call'[a].status = call[a].status
           /\ call'[a].payment = call[a].payment /\ call'[a].held = call[a].held
<1>1. call[a] \in Call
  BY DEF TypeOK, Idle, Steps
<1>2. call'[a] = [call[a] EXCEPT !.at = at] /\ OtherCalls(a)
  BY CallSet
<1> QED
  BY <1>1, <1>2 DEF Goes, Idle, Call, Steps

ReadInvoiceIs(a, r) ==
    /\ Busy(a, r) /\ call[a].at = "read" /\ call'[a].status = call[a].status
    /\ \/ Goes(a, "load") /\ call[a].payment # None
       \/ Goes(a, "readback") /\ invoice[r] # {}
       \/ Goes(a, "save")
       \/ Goes(a, "putback") /\ invoice[r] = {}
    /\ UNCHANGED <<row, invoice, portal, owed, found, overlooked>>

LEMMA ReadInvoiceDoes ==
    ASSUME TypeOK, NEW a \in Actors, ReadInvoice(a) PROVE ReadInvoiceIs(a, call[a].req)
<1>1. call[a].at \in Steps /\ call[a].at = "read"
  BY DEF ReadInvoice, At, Steps
<1>2. Busy(a, call[a].req)
  BY <1>1, BusyAt
<1>3. CASE call' = [call EXCEPT ![a].at = "save", ![a].payment = minted[call[a].req] + 1]
  <2>1. call'[a] = [call[a] EXCEPT !.at = "save", !.payment = minted[call[a].req] + 1] /\ OtherCalls(a)
    BY <1>3 DEF TypeOK, OtherCalls
  <2>2. Goes(a, "save") /\ call'[a].status = call[a].status
    BY <1>2, <2>1 DEF Goes, Busy, Call, Idle
  <2> QED
    BY <1>1, <1>2, <2>2 DEF ReadInvoice, ReadInvoiceIs, NotRewritten
<1>4. ASSUME NEW at \in {"load", "readback", "putback"}, Goto(a, at)
      PROVE  Goes(a, at) /\ call'[a].status = call[a].status
  BY <1>1, <1>4, CallGoes DEF Goto, Steps
<1> QED
  BY <1>1, <1>2, <1>3, <1>4 DEF ReadInvoice, ReadInvoiceIs, NotRewritten, OnInvoice

SavePaymentIs(a, r) ==
    /\ Busy(a, r) /\ call[a].at = "save" /\ Goes(a, "readback") /\ call'[a].status = call[a].status
    /\ invoice'[r] # {} /\ \A q \in Requests : q # r => invoice'[q] = invoice[q]
    /\ UNCHANGED <<row, portal, owed, found, overlooked>>

LEMMA SavePaymentDoes ==
    ASSUME TypeOK, NEW a \in Actors, SavePayment(a) PROVE SavePaymentIs(a, call[a].req)
<1>1. call[a].at \in Steps /\ call[a].at = "save"
  BY DEF SavePayment, At, Steps
<1>2. Busy(a, call[a].req)
  BY <1>1, BusyAt
<1>3. Goes(a, "readback") /\ call'[a].status = call[a].status
  BY <1>1, CallGoes DEF SavePayment, Goto, Steps
<1>4. invoice' = [invoice EXCEPT ![call[a].req] = @ \cup {call[a].payment}]
  BY DEF SavePayment
<1> QED
  BY <1>1, <1>2, <1>3, <1>4 DEF SavePayment, SavePaymentIs, NotRewritten, Busy, TypeOK

ReadBackIs(a, r) ==
    /\ Busy(a, r) /\ call[a].at = "readback" /\ call'[a].status = call[a].status
    /\ \/ Goes(a, "putback") /\ invoice[r] = {}
       \/ Goes(a, "remember") /\ (invoice[r] = {} \/ call'[a].payment # None)
    /\ UNCHANGED <<row, invoice, portal, owed, found, overlooked>>

LEMMA ReadBackDoes ==
    ASSUME TypeOK, NEW a \in Actors, ReadBack(a) PROVE ReadBackIs(a, call[a].req)
<1>1. call[a].at \in Steps /\ call[a].at = "readback"
  BY DEF ReadBack, At, Steps
<1>2. Busy(a, call[a].req)
  BY <1>1, BusyAt
<1>3. ASSUME NEW p, call' = [call EXCEPT ![a].at = "remember", ![a].payment = p]
      PROVE  Goes(a, "remember") /\ call'[a].status = call[a].status /\ call'[a].payment = p
  <2>1. call'[a] = [call[a] EXCEPT !.at = "remember", !.payment = p] /\ OtherCalls(a)
    BY <1>3 DEF TypeOK, OtherCalls
  <2> QED
    BY <1>2, <2>1 DEF Goes, Busy, Call, Idle
<1>4. ASSUME Goto(a, "putback") PROVE Goes(a, "putback") /\ call'[a].status = call[a].status
  BY <1>1, <1>4, CallGoes DEF Goto, Steps
<1>5. \A p \in invoice[call[a].req] : p # None
  BY <1>2 DEF TypeOK, PaymentIds, None, Busy
<1> QED
  BY <1>1, <1>2, <1>3, <1>4, <1>5 DEF ReadBack, ReadBackIs, NotRewritten

RememberIs(a, r) ==
    /\ Busy(a, r) /\ call[a].at = "remember" /\ Goes(a, "load") /\ call'[a].status = call[a].status
    /\ RowIs(r, row[r].status, row[r].delivery, call[a].payment, row[r].previous)
    /\ UNCHANGED <<invoice, portal, owed, found, overlooked>>

LEMMA RowFields ==
    ASSUME TypeOK, NEW r \in Requests
    PROVE  row[r] \in Row
BY DEF TypeOK

LEMMA RememberDoes ==
    ASSUME TypeOK, NEW a \in Actors, Remember(a) PROVE RememberIs(a, call[a].req)
<1> DEFINE r == call[a].req
<1>1. call[a].at \in Steps /\ call[a].at = "remember"
  BY DEF Remember, At, Steps
<1>2. Busy(a, r)
  BY <1>1, BusyAt
<1>3. Goes(a, "load") /\ call'[a].status = call[a].status
  BY <1>1, CallGoes DEF Remember, Goto, Steps
<1>4. row'[r] = [row[r] EXCEPT !.recorded = call[a].payment] /\ OtherRows(r)
  BY <1>2, RowSet DEF Remember, Busy
<1>5. RowIs(r, row[r].status, row[r].delivery, call[a].payment, row[r].previous)
  BY <1>2, <1>4, RowFields DEF RowIs, Row, Busy
<1> QED
  BY <1>1, <1>2, <1>3, <1>5 DEF Remember, RememberIs, NotRewritten

PutBackIs(a, r) ==
    /\ Busy(a, r) /\ call[a].at = "putback" /\ Ends(a)
    /\ RowIs(r, "pending", "none", row[r].recorded, row[r].previous)
    /\ found' = found \ {r} /\ UNCHANGED <<invoice, portal, owed, overlooked>>

LEMMA CallEnds ==
    ASSUME TypeOK, NEW a \in Actors, Finish(a) PROVE Ends(a)
BY CallSet DEF Finish, Ends

LEMMA PutBackDoes ==
    ASSUME TypeOK, NEW a \in Actors, PutBack(a) PROVE PutBackIs(a, call[a].req)
<1> DEFINE r == call[a].req
<1>1. call[a].at \in Steps /\ call[a].at = "putback"
  BY DEF PutBack, At, Steps
<1>2. Busy(a, r)
  BY <1>1, BusyAt
<1>3. row'[r] = [row[r] EXCEPT !.status = "pending", !.delivery = "none"] /\ OtherRows(r)
  BY <1>2 DEF PutBack, Busy, TypeOK, OtherRows
<1>4. RowIs(r, "pending", "none", row[r].recorded, row[r].previous)
  BY <1>2, <1>3, RowFields DEF RowIs, Row, Busy
<1> QED
  BY <1>1, <1>2, <1>4, CallEnds DEF PutBack, PutBackIs, Rewritten

LoadIs(a, r) ==
    /\ Busy(a, r) /\ call[a].at = "load" /\ Goes(a, "send") /\ call'[a].status = row[r].status
    /\ UNCHANGED <<row, invoice, portal, owed, found, overlooked>>

LEMMA LoadDoes ==
    ASSUME TypeOK, NEW a \in Actors, Load(a) PROVE LoadIs(a, call[a].req)
<1> DEFINE r == call[a].req
<1>1. call[a].at \in Steps /\ call[a].at = "load"
  BY DEF Load, At, Steps
<1>2. Busy(a, r)
  BY <1>1, BusyAt
<1>3. call'[a] = [call[a] EXCEPT !.at = "send", !.status = row[r].status,
                                 !.payment = row[r].recorded] /\ OtherCalls(a)
  BY DEF Load, TypeOK, OtherCalls
<1>4. Goes(a, "send") /\ call'[a].status = row[r].status
  BY <1>2, <1>3 DEF Goes, Busy, Call, Idle
<1> QED
  BY <1>1, <1>2, <1>4 DEF Load, LoadIs, NotRewritten

\* Only a request that still waits in CS Portal changes there.
SendIs(a, r) ==
    /\ Busy(a, r) /\ call[a].at = "send" /\ Goes(a, "outcome") /\ call'[a].status = call[a].status
    /\ \/ portal'[r] = portal[r]
       \/ portal[r] = "waiting" /\ portal'[r] = DecisionFor(call[a].status)
    /\ call'[a].answer = "ok" => portal'[r] = DecisionFor(call[a].status)
    /\ \A q \in Requests : q # r => portal'[q] = portal[q]
    /\ UNCHANGED <<row, invoice, owed, found, overlooked>>

LEMMA SendDoes ==
    ASSUME TypeOK, NEW a \in Actors, SendAnswered(a) \/ SendLost(a) PROVE SendIs(a, call[a].req)
<1> DEFINE r == call[a].req
           told == DecisionFor(call[a].status)
<1>1. call[a].at \in Steps /\ call[a].at = "send"
  BY DEF SendAnswered, SendLost, SendWith, At, Steps
<1>2. Busy(a, r)
  BY <1>1, BusyAt
<1>3. \A reply \in Replies(a) :
         /\ reply[1] = portal[r] \/ (portal[r] = "waiting" /\ reply[1] = told)
         /\ reply[2] = "ok" => reply[1] = told
  BY DEF Replies, PortalAnswers
<1> DEFINE all == Replies(a) \cup {<<portal[r], "lost">>} \cup {<<x[1], "lost">> : x \in Replies(a)}
<1>4. PICK reply \in all :
         /\ portal' = [portal EXCEPT ![r] = reply[1]]
         /\ call' = [call EXCEPT ![a].at = "outcome", ![a].answer = reply[2]]
  BY DEF SendAnswered, SendLost, SendWith
<1>5. call'[a] = [call[a] EXCEPT !.at = "outcome", !.answer = reply[2]] /\ OtherCalls(a)
  BY <1>4 DEF TypeOK, OtherCalls
<1>8. /\ reply[1] = portal[r] \/ (portal[r] = "waiting" /\ reply[1] = told)
      /\ reply[2] = "ok" => reply[1] = told
  BY <1>3, <1>4
<1>6. Goes(a, "outcome") /\ call'[a].status = call[a].status /\ call'[a].answer = reply[2]
  BY <1>2, <1>5 DEF Goes, Busy, Call, Idle
<1>7. portal'[r] = reply[1] /\ \A q \in Requests : q # r => portal'[q] = portal[q]
  BY <1>2, <1>4 DEF Busy, TypeOK
<1> QED
  BY <1>1, <1>2, <1>6, <1>7, <1>8
  DEF SendAnswered, SendLost, SendWith, SendIs, NotRewritten
OutcomeIs(a, r) ==
    /\ Busy(a, r) /\ call[a].at = "outcome" /\ Ends(a)
    /\ \/ /\ call[a].answer = "ok"
          /\ RowIs(r, row[r].status, "delivered", row[r].recorded, row[r].previous)
       \/ \E delivery \in {"failed", "queued"} :
             RowIs(r, row[r].status, delivery, row[r].recorded, row[r].previous)
       \/ RowIs(r, "closed", "failed", row[r].recorded, row[r].previous)
       \/ /\ \/ call[a].op = "approve" /\ Kind[r] = "deposit"
             \/ call[a].op = "reject" /\ Kind[r] # "balance"
          /\ RowIs(r, "pending", "none", row[r].recorded, row[r].previous)
    /\ found' = found \ {r} /\ UNCHANGED <<invoice, portal, owed, overlooked>>

LEMMA OutcomeDoes ==
    ASSUME TypeOK, NEW a \in Actors, Outcome(a) PROVE OutcomeIs(a, call[a].req)
<1> DEFINE r == call[a].req
           correctable == \/ call[a].op = "approve" /\ Kind[r] = "deposit"
                          \/ call[a].op = "reject" /\ Kind[r] # "balance"
           status == CASE call[a].answer = "over" -> "closed"
                       [] call[a].answer = "refused" /\ correctable -> "pending"
                       [] OTHER -> row[r].status
           delivery == IF call[a].answer = "refused" /\ correctable THEN "none"
                       ELSE DeliveryAfter(call[a].answer)
<1>1. call[a].at \in Steps /\ call[a].at = "outcome"
  BY DEF Outcome, At, Steps
<1>2. Busy(a, r)
  BY <1>1, BusyAt
<1>3. row' = [row EXCEPT ![r].status = status, ![r].delivery = delivery]
  BY DEF Outcome
<1>4. \/ call[a].answer = "ok" /\ status = row[r].status /\ delivery = "delivered"
      \/ status = row[r].status /\ delivery \in {"failed", "queued"}
      \/ status = "closed" /\ delivery = "failed"
      \/ correctable /\ status = "pending" /\ delivery = "none"
  BY DEF DeliveryAfter
<1> HIDE DEF status, delivery
<1>5. row'[r] = [row[r] EXCEPT !.status = status, !.delivery = delivery] /\ OtherRows(r)
  BY <1>2, <1>3 DEF Busy, TypeOK, OtherRows
<1>6. RowIs(r, status, delivery, row[r].recorded, row[r].previous)
  BY <1>2, <1>5, RowFields DEF RowIs, Row, Busy
<1>7. \/ /\ call[a].answer = "ok"
         /\ RowIs(r, row[r].status, "delivered", row[r].recorded, row[r].previous)
      \/ \E d \in {"failed", "queued"} :
            RowIs(r, row[r].status, d, row[r].recorded, row[r].previous)
      \/ RowIs(r, "closed", "failed", row[r].recorded, row[r].previous)
      \/ /\ correctable
         /\ RowIs(r, "pending", "none", row[r].recorded, row[r].previous)
  BY <1>4, <1>6
<1> QED
  BY <1>1, <1>2, <1>7, CallEnds DEF Outcome, OutcomeIs, Rewritten

DecideIs(a, r, d) ==
    /\ a \in Accountants /\ r \in Requests /\ row[r].status = "pending" /\ d \in Decided
    /\ RowIs(r, d, "sending", row[r].recorded, row[r].previous)
    /\ \/ d = "rejected" /\ Begins(a, "reject", "send", r, d)
       \/ d = "approved" /\ Begins(a, "approve", IF Kind[r] = "deposit" THEN "send" ELSE "read", r, d)
    /\ found' = found \ {r} /\ UNCHANGED <<invoice, portal, owed, overlooked>>

LEMMA DecideDoes ==
    ASSUME TypeOK, NEW a \in Actors, NEW r \in Requests, NEW d \in Decided, Decide(a, r, d)
    PROVE  DecideIs(a, r, d)
<1>1. RowIs(r, d, "sending", row[r].recorded, row[r].previous)
  <2>1. row'[r] = [row[r] EXCEPT !.status = d, !.delivery = "sending"] /\ OtherRows(r)
    BY DEF Decide, TypeOK, OtherRows
  <2> QED
    BY <2>1, RowFields DEF RowIs, Row
<1>2. CASE d = "rejected"
  <2>1. Begins(a, "reject", "send", r, d)
    BY <1>2, NewCall DEF Decide, Free
  <2> QED
    BY <1>1, <1>2, <2>1 DEF Decide, DecideIs, Rewritten
<1>3. CASE d = "approved"
  <2> DEFINE at == IF Kind[r] = "deposit" THEN "send" ELSE "read"
  <2>1. call' = [call EXCEPT ![a] = Begin("approve", at, r, d)] /\ at # "idle"
    BY <1>3 DEF Decide
  <2>2. Begins(a, "approve", at, r, d)
    BY <2>1, NewCall DEF Decide, Free
  <2> QED
    BY <1>1, <1>3, <2>2 DEF Decide, DecideIs, Rewritten
<1> QED
  BY <1>2, <1>3 DEF Decided

ResendIs(a, r) ==
    /\ a \in Accountants /\ r \in Requests /\ TurnedDown(r)
    /\ RowIs(r, row[r].status, "sending", row[r].recorded, row[r].previous)
    /\ Begins(a, "resend", "send", r, row[r].status)
    /\ found' = found \ {r} /\ UNCHANGED <<invoice, portal, owed, overlooked>>

LEMMA NowSending ==
    ASSUME TypeOK, NEW r \in Requests, row' = [row EXCEPT ![r].delivery = "sending"]
    PROVE  RowIs(r, row[r].status, "sending", row[r].recorded, row[r].previous)
<1>1. row'[r] = [row[r] EXCEPT !.delivery = "sending"] /\ OtherRows(r)
  BY RowSet
<1> QED
  BY <1>1, RowFields DEF RowIs, Row

LEMMA ResendDoes ==
    ASSUME TypeOK, NEW a \in Actors, NEW r \in Requests, Resend(a, r) PROVE ResendIs(a, r)
BY NowSending, NewCall DEF Resend, ResendIs, Free, Rewritten

FindIs ==
    /\ \A r \in found' : row[r].status \in Decided /\ row[r].delivery \in {"queued", "sending"}
    /\ UNCHANGED <<row, invoice, portal, owed, call, overlooked>>

LEMMA FindDoes == ASSUME Find PROVE FindIs
BY DEF Find, FindIs, Due

ClaimIs(r) ==
    /\ r \in Requests /\ r \in found
    /\ RowIs(r, row[r].status, "sending", row[r].recorded, row[r].previous)
    /\ Begins(Worker, "pass", IF StillToRecord(r) THEN "read" ELSE "send", r, row[r].status)
    /\ found' = found \ {r} /\ UNCHANGED <<invoice, portal, owed, overlooked>>

LEMMA ClaimDoes == ASSUME TypeOK, NEW r \in Requests, Claim(r) PROVE ClaimIs(r)
<1> DEFINE at == IF StillToRecord(r) THEN "read" ELSE "send"
<1>1. Worker \in Actors /\ at # "idle"
  BY DEF Actors
<1>2. Begins(Worker, "pass", at, r, row[r].status)
  BY <1>1, NewCall DEF Claim, Free
<1> QED
  BY <1>2, NowSending DEF Claim, ClaimIs, Rewritten

\* A handler that only reads what it is about.
ReadsIs(a, op, at, r, status) ==
    /\ a \in Actors /\ r \in Requests
    /\ Begins(a, op, at, r, status)
    /\ UNCHANGED <<row, invoice, portal, owed, found, overlooked>>

LEMMA ReopenReadDoes ==
    ASSUME TypeOK, NEW a \in Actors, NEW r \in Requests, ReopenRead(a, r)
    PROVE  a \in Accountants /\ TurnedDown(r) /\ ReadsIs(a, "reopen", "find", r, row[r].status)
BY NewCall DEF ReopenRead, ReadsIs, Free

LEMMA WithdrawReadDoes ==
    ASSUME TypeOK, NEW r \in Requests, WithdrawRead(r)
    PROVE  r \in owed /\ ReadsIs(Portal, "withdraw", "find", r, row[r].status)
BY NewCall DEF WithdrawRead, ReadsIs, Free, Actors

LEMMA DeleteReadDoes ==
    ASSUME TypeOK, NEW a \in Actors, NEW r \in Requests, DeleteRead(a, r)
    PROVE  /\ a \in Accountants /\ ReadsIs(a, "delete", "check", r, row[r].status)
           /\ row[r].status \in Decided \cup {"closed"}
           /\ row[r].delivery \in {"none", "failed", "delivered"}
BY NewCall, RowFields DEF DeleteRead, ReadsIs, Free, Row

LEMMA RestoreReadDoes ==
    ASSUME TypeOK, NEW a \in Actors, NEW r \in Requests, RestoreRead(a, r)
    PROVE  /\ a \in Accountants /\ row[r].status = "deleted"
           /\ ReadsIs(a, "restore", "restore", r, row[r].previous)
BY NewCall DEF RestoreRead, ReadsIs, Free

FindPaymentsIs(a, r) ==
    /\ Busy(a, r) /\ call[a].at = "find" /\ owed' \subseteq owed /\ overlooked \subseteq overlooked'
    /\ \/ /\ Goes(a, "takeoff") /\ call'[a].status = call[a].status
          /\ \/ call'[a].held = invoice[r]
             \/ call[a].op = "reopen" => r \in overlooked'
       \/ Ends(a)
    /\ UNCHANGED <<row, invoice, portal, found>>

LEMMA Refused ==
    ASSUME TypeOK, NEW a \in Actors, Refuse(a)
    PROVE  Ends(a) /\ owed' \subseteq owed /\ UNCHANGED <<invoice, overlooked>>
BY CallEnds DEF Refuse

LEMMA FindPaymentsDoes ==
    ASSUME TypeOK, NEW a \in Actors, FindPayments(a) PROVE FindPaymentsIs(a, call[a].req)
<1> DEFINE r == call[a].req
<1>1. call[a].at \in Steps /\ call[a].at = "find"
  BY DEF FindPayments, At, Steps
<1>2. Busy(a, r)
  BY <1>1, BusyAt
<1>3. CASE /\ call' = [call EXCEPT ![a].at = "takeoff", ![a].held = HeldFor(r)]
           /\ overlooked' = IF call[a].op = "reopen" /\ r \in void THEN overlooked \cup {r}
                            ELSE overlooked
           /\ UNCHANGED <<owed, invoice>>
  <2>1. call'[a] = [call[a] EXCEPT !.at = "takeoff", !.held = HeldFor(r)] /\ OtherCalls(a)
    BY <1>3 DEF TypeOK, OtherCalls
  <2>2. Goes(a, "takeoff") /\ call'[a].status = call[a].status /\ call'[a].held = HeldFor(r)
    BY <1>2, <2>1 DEF Goes, Busy, Call, Idle
  <2>3. call'[a].held = invoice[r] \/ (call[a].op = "reopen" => r \in overlooked')
    BY <1>3, <2>2 DEF HeldFor
  <2> QED
    BY <1>1, <1>2, <1>3, <2>2, <2>3 DEF FindPayments, FindPaymentsIs
<1>4. CASE Refuse(a)
  BY <1>1, <1>2, <1>4, Refused DEF FindPayments, FindPaymentsIs
<1> QED
  BY <1>3, <1>4 DEF FindPayments

TakeOffIs(a, r) ==
    /\ Busy(a, r) /\ call[a].at = "takeoff" /\ owed' \subseteq owed
    /\ \A q \in Requests : invoice'[q] \subseteq invoice[q] /\ (q # r => invoice'[q] = invoice[q])
    /\ \/ /\ Goes(a, call[a].op) /\ call'[a].status = call[a].status
          /\ invoice'[r] = invoice[r] \ call[a].held
       \/ Ends(a)
    /\ \A q \in overlooked : q \in overlooked' \/ invoice'[q] = {}
    /\ UNCHANGED <<row, portal, found>>

LEMMA TakeOffDoes ==
    ASSUME TypeOK, CallShape, NEW a \in Actors, TakeOff(a) PROVE TakeOffIs(a, call[a].req)
<1> DEFINE r == call[a].req
<1>1. call[a].at \in Steps /\ call[a].at = "takeoff"
  BY DEF TakeOff, At, Steps
<1>2. Busy(a, r)
  BY <1>1, BusyAt
<1>3. CASE /\ Goto(a, call[a].op) /\ invoice' = [invoice EXCEPT ![r] = @ \ call[a].held]
           /\ overlooked' = {q \in overlooked : invoice'[q] # {}} /\ UNCHANGED owed
  <2>1. call[a].op \in Steps
    BY <1>1, <1>2 DEF CallShape, Busy, Steps
  <2>2. Goes(a, call[a].op) /\ call'[a].status = call[a].status
    BY <1>1, <1>3, <2>1, CallGoes DEF Goto
  <2>3. /\ invoice'[r] = invoice[r] \ call[a].held
        /\ \A q \in Requests : q # r => invoice'[q] = invoice[q]
    BY <1>2, <1>3 DEF Busy, TypeOK
  <2> QED
    BY <1>1, <1>2, <1>3, <2>2, <2>3 DEF TakeOff, TakeOffIs
<1>4. CASE Refuse(a)
  BY <1>1, <1>2, <1>4, Refused DEF TakeOff, TakeOffIs
<1> QED
  BY <1>3, <1>4 DEF TakeOff

ReopenIs(a, r) ==
    /\ Busy(a, r) /\ call[a].at = "reopen" /\ Ends(a)
    /\ \/ RowIs(r, "pending", "none", None, row[r].previous) /\ found' = found \ {r}
       \/ UNCHANGED <<row, found>>
    /\ UNCHANGED <<invoice, portal, owed, overlooked>>

LEMMA ReopenDoes ==
    ASSUME TypeOK, NEW a \in Actors, Reopen(a) PROVE ReopenIs(a, call[a].req)
<1> DEFINE r == call[a].req
<1>1. call[a].at \in Steps /\ call[a].at = "reopen"
  BY DEF Reopen, At, Steps
<1>2. Busy(a, r)
  BY <1>1, BusyAt
<1>3. ASSUME row' = [row EXCEPT ![r].status = "pending", ![r].delivery = "none", ![r].recorded = None]
      PROVE  RowIs(r, "pending", "none", None, row[r].previous)
  <2>1. /\ row'[r] = [row[r] EXCEPT !.status = "pending", !.delivery = "none", !.recorded = None]
        /\ OtherRows(r)
    BY <1>2, <1>3 DEF Busy, TypeOK, OtherRows
  <2> QED
    BY <1>2, <2>1, RowFields DEF RowIs, Row, Busy
<1> QED
  BY <1>1, <1>2, <1>3, CallEnds DEF Reopen, ReopenIs, Rewritten, NotRewritten

WithdrawIs(a, r) ==
    /\ Busy(a, r) /\ call[a].at = "withdraw" /\ Ends(a)
    /\ \/ RowIs(r, "deleted", row[r].delivery, row[r].recorded, call[a].status)
       \/ UNCHANGED row
    /\ owed' \subseteq owed /\ UNCHANGED <<invoice, portal, found, overlooked>>

LEMMA NowDeleted ==
    ASSUME TypeOK, NEW r \in Requests, NEW status \in Statuses,
           row' = [row EXCEPT ![r].status = "deleted", ![r].previous = status]
    PROVE  RowIs(r, "deleted", row[r].delivery, row[r].recorded, status)
<1>1. row'[r] = [row[r] EXCEPT !.status = "deleted", !.previous = status] /\ OtherRows(r)
  BY DEF TypeOK, OtherRows
<1>2. row[r] \in Row
  BY RowFields
<1> QED
  BY <1>1, <1>2 DEF RowIs, Row

LEMMA WithdrawDoes ==
    ASSUME TypeOK, NEW a \in Actors, Withdraw(a) PROVE WithdrawIs(a, call[a].req)
<1>1. call[a].at \in Steps /\ call[a].at = "withdraw"
  BY DEF Withdraw, At, Steps
<1>2. Busy(a, call[a].req)
  BY <1>1, BusyAt
<1>3. call[a].req \in Requests /\ call[a].status \in Statuses
  BY <1>2 DEF Busy, Call
<1> QED
  BY <1>1, <1>2, <1>3, CallEnds, NowDeleted DEF Withdraw, WithdrawIs, NotRewritten

DeleteCheckIs(a, r) ==
    /\ Busy(a, r) /\ call[a].at = "check"
    /\ Ends(a) \/ (Goes(a, "delete") /\ call'[a].status = call[a].status)
    /\ UNCHANGED <<row, invoice, portal, owed, found, overlooked>>

LEMMA DeleteCheckDoes ==
    ASSUME TypeOK, NEW a \in Actors, DeleteCheck(a) PROVE DeleteCheckIs(a, call[a].req)
<1>1. call[a].at \in Steps /\ call[a].at = "check"
  BY DEF DeleteCheck, At, Steps
<1>2. Busy(a, call[a].req)
  BY <1>1, BusyAt
<1>3. ASSUME Goto(a, "delete") PROVE Goes(a, "delete") /\ call'[a].status = call[a].status
  BY <1>1, <1>3, CallGoes DEF Goto, Steps
<1> QED
  BY <1>1, <1>2, <1>3, CallEnds DEF DeleteCheck, DeleteCheckIs

DeleteIs(a, r) ==
    /\ Busy(a, r) /\ call[a].at = "delete" /\ Ends(a)
    /\ \/ /\ row[r].status = call[a].status
          /\ RowIs(r, "deleted", row[r].delivery, row[r].recorded, call[a].status)
       \/ UNCHANGED row
    /\ UNCHANGED <<invoice, portal, owed, found, overlooked>>

LEMMA DeleteDoes ==
    ASSUME TypeOK, NEW a \in Actors, Delete(a) PROVE DeleteIs(a, call[a].req)
<1>1. call[a].at \in Steps /\ call[a].at = "delete"
  BY DEF Delete, At, Steps
<1>2. Busy(a, call[a].req)
  BY <1>1, BusyAt
<1>3. call[a].req \in Requests /\ call[a].status \in Statuses
  BY <1>2 DEF Busy, Call
<1> QED
  BY <1>1, <1>2, <1>3, CallEnds, NowDeleted DEF Delete, DeleteIs

RestoreIs(a, r) ==
    /\ Busy(a, r) /\ call[a].at = "restore" /\ Ends(a)
    /\ \/ /\ row[r].status = "deleted"
          /\ RowIs(r, call[a].status, row[r].delivery, row[r].recorded, row[r].previous)
       \/ UNCHANGED row
    /\ UNCHANGED <<invoice, portal, owed, found, overlooked>>

LEMMA RestoreDoes ==
    ASSUME TypeOK, NEW a \in Actors, Restore(a) PROVE RestoreIs(a, call[a].req)
<1> DEFINE r == call[a].req
<1>1. call[a].at \in Steps /\ call[a].at = "restore"
  BY DEF Restore, At, Steps
<1>2. Busy(a, r)
  BY <1>1, BusyAt
<1>3. ASSUME row' = [row EXCEPT ![r].status = call[a].status]
      PROVE  RowIs(r, call[a].status, row[r].delivery, row[r].recorded, row[r].previous)
  <2>1. row'[r] = [row[r] EXCEPT !.status = call[a].status] /\ OtherRows(r)
    BY <1>2, <1>3 DEF Busy, TypeOK, OtherRows
  <2> QED
    BY <1>2, <2>1, RowFields DEF RowIs, Row, Busy
<1> QED
  BY <1>1, <1>2, <1>3, CallEnds DEF Restore, RestoreIs

IntakeIs(r) ==
    /\ r \in Requests /\ row[r].status = "absent"
    /\ RowIs(r, "pending", row[r].delivery, row[r].recorded, row[r].previous)
    /\ UNCHANGED <<invoice, portal, owed, call, found, overlooked>>

LEMMA IntakeDoes == ASSUME TypeOK, NEW r \in Requests, Intake(r) PROVE IntakeIs(r)
<1>1. row'[r] = [row[r] EXCEPT !.status = "pending"] /\ OtherRows(r)
  BY DEF Intake, TypeOK, OtherRows
<1> QED
  BY <1>1, RowFields DEF Intake, IntakeIs, RowIs, Row

PortalRejectsIs(r) ==
    /\ r \in Requests /\ portal'[r] = "withdrawn"
    /\ \A q \in Requests : q # r => portal'[q] = portal[q]
    /\ owed' = owed \cup {r} /\ UNCHANGED <<row, invoice, call, found, overlooked>>

LEMMA PortalRejectsDoes ==
    ASSUME TypeOK, NEW r \in Requests, PortalRejects(r) PROVE PortalRejectsIs(r)
BY DEF PortalRejects, PortalRejectsIs, TypeOK

FailIs(a) == Ends(a) /\ found' \subseteq found /\ UNCHANGED <<row, invoice, portal, owed, overlooked>>

LEMMA FailDoes == ASSUME TypeOK, NEW a \in Actors, Fail(a) PROVE FailIs(a)
BY CallEnds DEF Fail, FailIs
----------------------------------------------------------------------------
(* Initially, and step by step: one lemma per action, one step per conjunct *)
(* the action can disturb, and one for those whose variables it leaves.     *)

LEMMA InitIInv == Init => IInv
<1> SUFFICES ASSUME Init PROVE IInv
  OBVIOUS
<1>1. TypeOK
  BY BoundsAssumption DEF Init, TypeOK, Row, Statuses
<1>2. \A a \in Actors : call[a] = Idle
  BY DEF Init
<1>3. CallShape /\ HeldIsSending /\ OneSender /\ SaveIsFirst
  BY <1>2 DEF CallShape, HeldIsSending, OneSender, SaveIsFirst, Holds, At, Claimed,
      Idle
<1>4. RowShape /\ PendingIsClean /\ OnePayment
  BY DEF Init, RowShape, PendingIsClean, OnePayment
<1> QED
  BY <1>1, <1>3, <1>4 DEF IInv

(* Recording the payment of an approved decision. *)

LEMMA StepReadInvoice == ASSUME IInv, NEW a \in Actors, ReadInvoice(a) PROVE IInv'
<1>1. TypeOK'
  <2>1. call[a] \in Call /\ call[a].req \in Requests
    BY ReadInvoiceDoes DEF IInv, ReadInvoiceIs, Busy
  <2>2. CASE call' = [call EXCEPT ![a].at = "save", ![a].payment = minted[call[a].req] + 1]
             /\ minted[call[a].req] < MaxPayments
             /\ minted' = [minted EXCEPT ![call[a].req] = @ + 1]
    <3>1. minted[call[a].req] + 1 \in PaymentIds /\ minted' \in [Requests -> 0..MaxPayments]
      BY <2>1, <2>2, BoundsAssumption DEF IInv, TypeOK, PaymentIds
    <3>2. [call[a] EXCEPT !.at = "save", !.payment = minted[call[a].req] + 1] \in Call
      BY <2>1, <3>1 DEF Call, Steps
    <3>3. call' \in [Actors -> Call \cup {Idle}]
      BY <2>2, <3>2 DEF IInv, TypeOK
    <3> QED
      BY <3>1, <3>3 DEF IInv, TypeOK, ReadInvoice, NotRewritten
  <2>3. CASE UNCHANGED minted /\ \E at \in {"load", "readback", "putback"} : Goto(a, at)
    <3>1. call' \in [Actors -> Call \cup {Idle}]
      BY <2>1, <2>3, GotoStays DEF IInv, Steps
    <3> QED
      BY <2>3, <3>1 DEF IInv, TypeOK, ReadInvoice, NotRewritten
  <2> QED
    BY <2>2, <2>3 DEF ReadInvoice
<1>2. CallShape'
  BY DEF IInv, Actors, PaymentIds, None, Row, Call, Idle, At, Goto, NotRewritten,
      Claimed, ReadInvoice, OnInvoice, TypeOK, CallShape
<1>3. HeldIsSending'
  BY DEF IInv, Actors, Call, Idle, At, Goto, NotRewritten, Claimed, Holds,
      ReadInvoice, OnInvoice, TypeOK, HeldIsSending
<1>4. OneSender'
  BY DEF IInv, Actors, Call, Idle, At, Goto, NotRewritten, Claimed, Holds,
      ReadInvoice, OnInvoice, TypeOK, OneSender
<1>5. SaveIsFirst'
  BY DEF IInv, Actors, Call, Idle, At, Goto, NotRewritten, ReadInvoice, OnInvoice,
      TypeOK, SaveIsFirst
<1>6. RowShape' /\ PendingIsClean' /\ OnePayment'
  BY DEF IInv, Goto, NotRewritten, ReadInvoice, OnInvoice, OnePayment, PendingIsClean,
      RowShape
<1> QED
  BY <1>1, <1>2, <1>3, <1>4, <1>5, <1>6 DEF IInv

LEMMA StepSavePayment == ASSUME IInv, NEW a \in Actors, SavePayment(a) PROVE IInv'
<1>1. TypeOK'
  <2>1. call[a] # Idle /\ call[a] \in Call /\ call[a].req \in Requests
    BY SavePaymentDoes DEF IInv, SavePaymentIs, Busy
  <2>2. call[a].payment \in PaymentIds
    BY <2>1 DEF IInv, CallShape, SavePayment, At
  <2>3. invoice' \in [Requests -> SUBSET PaymentIds]
    BY <2>1, <2>2 DEF IInv, TypeOK, SavePayment
  <2>4. call' \in [Actors -> Call \cup {Idle}]
    BY <2>1, GotoStays DEF IInv, SavePayment, Steps
  <2> QED
    BY <2>3, <2>4 DEF IInv, TypeOK, SavePayment, NotRewritten
<1>2. CallShape'
  BY DEF IInv, Actors, Idle, At, Goto, NotRewritten, Claimed, SavePayment, CallShape
<1>3. HeldIsSending'
  BY DEF IInv, Actors, At, Goto, NotRewritten, Claimed, Holds, SavePayment,
      HeldIsSending
<1>4. OneSender'
  BY DEF IInv, Actors, At, Goto, NotRewritten, Claimed, Holds, SavePayment, OneSender
<1>5. SaveIsFirst'
  <2>1. SavePaymentIs(a, call[a].req)
    BY SavePaymentDoes DEF IInv
  <2>2. ASSUME NEW b \in Actors, At(b, "save")' PROVE call[b] = call'[b] /\ call[b].req # call[a].req
    BY <2>1, <2>2 DEF IInv, SavePaymentIs, Goes, OtherCalls, At, OneSender, Holds, Claimed, Busy
  <2>3. ASSUME NEW b \in Actors, At(b, "save") PROVE call[b].req \in Requests
    BY <2>3, BusyAt DEF IInv, At, Steps, Busy
  <2> QED
    BY <2>1, <2>2, <2>3 DEF IInv, SaveIsFirst, SavePaymentIs, At
<1>6. OnePayment'
  BY DEF IInv, Actors, Goto, NotRewritten, SavePayment, TypeOK, OnePayment,
      SaveIsFirst
<1>7. RowShape' /\ PendingIsClean'
  BY DEF IInv, Goto, NotRewritten, SavePayment, PendingIsClean, RowShape
<1> QED
  BY <1>1, <1>2, <1>3, <1>4, <1>5, <1>6, <1>7 DEF IInv

LEMMA StepReadBack == ASSUME IInv, NEW a \in Actors, ReadBack(a) PROVE IInv'
<1>1. TypeOK'
  <2>1. call[a] \in Call /\ call[a].req \in Requests
    BY ReadBackDoes DEF IInv, ReadBackIs, Busy
  <2>3. ASSUME NEW p \in {None} \cup PaymentIds
        PROVE  [call[a] EXCEPT !.at = "remember", !.payment = p] \in Call
    BY <2>1 DEF Call, Steps
  <2>4. invoice[call[a].req] \subseteq PaymentIds
    BY <2>1 DEF IInv, TypeOK
  <2>5. CASE Goto(a, "putback")
    BY <2>5, <2>1, GotoStays DEF IInv, TypeOK, ReadBack, NotRewritten, Steps
  <2>6. CASE \E p \in {None} \cup PaymentIds :
                call' = [call EXCEPT ![a].at = "remember", ![a].payment = p]
    <3>1. call' \in [Actors -> Call \cup {Idle}]
      BY <2>3, <2>6 DEF IInv, TypeOK
    <3> QED
      BY <3>1 DEF IInv, TypeOK, ReadBack, NotRewritten
  <2> QED
    BY <2>4, <2>5, <2>6 DEF ReadBack
<1>2. CallShape'
  BY DEF IInv, Actors, Call, Idle, At, Goto, NotRewritten, Claimed, ReadBack, TypeOK,
      CallShape
<1>3. HeldIsSending'
  BY DEF IInv, Actors, Call, Idle, At, Goto, NotRewritten, Claimed, Holds, ReadBack,
      TypeOK, HeldIsSending
<1>4. OneSender'
  BY DEF IInv, Actors, Call, Idle, At, Goto, NotRewritten, Claimed, Holds, ReadBack,
      TypeOK, OneSender
<1>5. SaveIsFirst'
  BY DEF IInv, Actors, Call, Idle, At, Goto, NotRewritten, ReadBack, TypeOK,
      SaveIsFirst
<1>6. RowShape' /\ PendingIsClean' /\ OnePayment'
  BY DEF IInv, Goto, NotRewritten, ReadBack, OnePayment, PendingIsClean, RowShape
<1> QED
  BY <1>1, <1>2, <1>3, <1>4, <1>5, <1>6 DEF IInv

LEMMA StepRemember == ASSUME IInv, NEW a \in Actors, Remember(a) PROVE IInv'
<1>1. TypeOK'
  <2>1. call[a] \in Call /\ call[a].req \in Requests
    BY RememberDoes DEF IInv, RememberIs, Busy
  <2>2. [call[a] EXCEPT !.at = "load"] \in Call /\ call[a].payment \in {None} \cup PaymentIds
    BY <2>1 DEF Call, Steps
  <2>3. call' \in [Actors -> Call \cup {Idle}]
    BY <2>2 DEF IInv, TypeOK, Remember, Goto
  <2>4. [row[call[a].req] EXCEPT !.recorded = call[a].payment] \in Row
    BY <2>1, <2>2, RowFields DEF IInv, Row
  <2>5. row' \in [Requests -> Row]
    BY <2>1, <2>4 DEF IInv, TypeOK, Remember
  <2> QED
    BY <2>3, <2>5 DEF IInv, TypeOK, Remember, NotRewritten
<1>2. CallShape'
  BY DEF IInv, Actors, Idle, At, Goto, NotRewritten, Claimed, Remember, CallShape
<1>3. RowShape'
  BY DEF IInv, Goto, NotRewritten, Remember, RowShape
<1>4. HeldIsSending'
  BY DEF IInv, Actors, At, Goto, NotRewritten, Claimed, Holds, Remember, HeldIsSending
<1>5. OneSender'
  BY DEF IInv, Actors, At, Goto, NotRewritten, Claimed, Holds, Remember, OneSender
<1>6. PendingIsClean'
  BY DEF IInv, Goto, NotRewritten, Remember, PendingIsClean
<1>7. SaveIsFirst'
  <2>1. \A b \in Actors : call'[b] = call[b] \/ call'[b].at = "load"
    BY RememberDoes DEF IInv, RememberIs, Goes, OtherCalls
  <2> QED
    BY <2>1 DEF IInv, SaveIsFirst, At, Remember
<1>8. OnePayment'
  BY DEF IInv, Goto, NotRewritten, Remember, OnePayment
<1> QED
  BY <1>1, <1>2, <1>3, <1>4, <1>5, <1>6, <1>7, <1>8 DEF IInv

LEMMA StepPutBack == ASSUME IInv, NEW a \in Actors, PutBack(a) PROVE IInv'
<1>1. TypeOK'
  <2>1. call[a] \in Call /\ call[a].req \in Requests
    BY PutBackDoes DEF IInv, PutBackIs, Busy
  <2>2. [row[call[a].req] EXCEPT !.status = "pending", !.delivery = "none"] \in Row
    BY <2>1, RowFields DEF IInv, Row, Statuses
  <2>3. row' \in [Requests -> Row]
    BY <2>1, <2>2 DEF IInv, TypeOK, PutBack
  <2> QED
    BY <2>3 DEF IInv, TypeOK, PutBack, Rewritten, Finish
<1>2. CallShape'
  BY DEF IInv, Actors, Finish, Rewritten, PutBack, CallShape
<1>3. RowShape'
  BY DEF IInv, Actors, Finish, Rewritten, PutBack, TypeOK, RowShape
<1>4. HeldIsSending'
  BY DEF IInv, Actors, Row, Idle, Finish, Rewritten, Claimed, Holds, PutBack, TypeOK,
      HeldIsSending
<1>5. OneSender'
  BY DEF IInv, Actors, Idle, Finish, Rewritten, Claimed, Holds, PutBack, OneSender
<1>6. PendingIsClean'
  BY DEF IInv, Actors, Finish, Rewritten, PutBack, TypeOK, PendingIsClean
<1>7. SaveIsFirst'
  BY DEF IInv, Actors, Idle, At, Finish, Rewritten, PutBack, SaveIsFirst
<1>8. OnePayment'
  BY DEF IInv, Finish, Rewritten, PutBack, OnePayment
<1> QED
  BY <1>1, <1>2, <1>3, <1>4, <1>5, <1>6, <1>7, <1>8 DEF IInv

LEMMA StepLoad == ASSUME IInv, NEW a \in Actors, Load(a) PROVE IInv'
<1>1. TypeOK'
  <2>1. call[a] \in Call /\ call[a].req \in Requests
    BY LoadDoes DEF IInv, LoadIs, Busy
  <2>2. row[call[a].req] \in Row
    BY <2>1, RowFields DEF IInv
  <2>3. ASSUME NEW status \in Statuses, NEW payment \in {None} \cup PaymentIds
        PROVE  [call[a] EXCEPT !.at = "send", !.status = status, !.payment = payment] \in Call
    BY <2>1 DEF Call, Steps
  <2>4. call' \in [Actors -> Call \cup {Idle}]
    BY <2>2, <2>3 DEF IInv, TypeOK, Load, Row
  <2> QED
    BY <2>4 DEF IInv, TypeOK, Load, NotRewritten
<1>2. CallShape'
  <2>1. a \in DOMAIN call /\ call[a] \in Call /\ call[a].at = "load"
    BY DEF IInv, TypeOK, Load, At, Idle
  <2>2. call[a].op \in {"approve", "reject", "resend", "pass"}
    BY <2>1 DEF IInv, CallShape, Claimed, Idle
  <2>3. call'[a].at = "send" /\ call'[a].op = call[a].op
    BY <2>1 DEF Load, Call
  <2>4. \A b \in Actors : b # a => call'[b] = call[b]
    BY DEF IInv, TypeOK, Load
  <2> QED
    BY <2>2, <2>3, <2>4 DEF IInv, CallShape
<1>3. HeldIsSending'
  BY DEF IInv, Actors, At, NotRewritten, Claimed, Holds, Load, TypeOK, HeldIsSending
<1>4. OneSender'
  BY DEF IInv, Actors, At, NotRewritten, Claimed, Holds, Load, TypeOK, OneSender
<1>5. SaveIsFirst'
  BY DEF IInv, Actors, Call, Idle, At, NotRewritten, Load, TypeOK, SaveIsFirst
<1>6. RowShape' /\ PendingIsClean' /\ OnePayment'
  BY DEF IInv, NotRewritten, Load, OnePayment, PendingIsClean, RowShape
<1> QED
  BY <1>1, <1>2, <1>3, <1>4, <1>5, <1>6 DEF IInv

(* Sending the decision and writing down what came of it. *)

LEMMA StepSendWith ==
    ASSUME IInv, NEW a \in Actors, NEW replies,
           replies \subseteq {"waiting", "approved", "rejected", "withdrawn"} \X {"ok",
              "refused", "over", "lost"},
           SendWith(a, replies)
    PROVE  IInv'
<1>1. TypeOK'
  <2>1. call[a] # Idle /\ call[a] \in Call /\ call[a].req \in Requests
    BY DEF IInv, TypeOK, SendWith, At, Idle, Call
  <2>2. PICK reply \in replies :
           /\ portal' = [portal EXCEPT ![call[a].req] = reply[1]]
           /\ call' = [call EXCEPT ![a].at = "outcome", ![a].answer = reply[2]]
    BY DEF SendWith
  <2>3. /\ reply[1] \in {"waiting", "approved", "rejected", "withdrawn"}
        /\ reply[2] \in {"ok", "refused", "over", "lost"}
    OBVIOUS
  <2>4. [call[a] EXCEPT !.at = "outcome", !.answer = reply[2]] \in Call
    <3> DEFINE answer == reply[2]
    <3>1. answer \in {"ok", "refused", "over", "lost"}
      BY <2>3
    <3> HIDE DEF answer
    <3>2. [call[a] EXCEPT !.at = "outcome", !.answer = answer] \in Call
      BY <2>1, <3>1 DEF Call, Steps
    <3> QED
      BY <3>2 DEF answer
  <2>5. call' \in [Actors -> Call \cup {Idle}]
    BY <2>2, <2>4 DEF IInv, TypeOK
  <2>6. portal' \in [Requests -> {"waiting", "approved", "rejected", "withdrawn"}]
    BY <2>1, <2>2, <2>3 DEF IInv, TypeOK
  <2> QED
    BY <2>5, <2>6 DEF IInv, TypeOK, SendWith, NotRewritten
<1>2. CallShape'
  BY DEF IInv, Actors, Idle, At, NotRewritten, Claimed, SendWith, TypeOK, CallShape
<1>3. HeldIsSending'
  BY DEF IInv, Actors, At, NotRewritten, Claimed, Holds, SendWith, TypeOK,
      HeldIsSending
<1>4. OneSender'
  BY DEF IInv, Actors, At, NotRewritten, Claimed, Holds, SendWith, TypeOK,
      OneSender
<1>5. SaveIsFirst'
  <2>1. \A b \in Actors : At(b, "save")' => call'[b] = call[b]
    BY DEF IInv, TypeOK, SendWith, At
  <2>2. invoice' = invoice
    BY DEF SendWith
  <2> QED
    BY <2>1, <2>2 DEF IInv, SaveIsFirst, At
<1>6. RowShape' /\ PendingIsClean' /\ OnePayment'
  BY DEF IInv, NotRewritten, SendWith, OnePayment, PendingIsClean, RowShape
<1> QED
  BY <1>1, <1>2, <1>3, <1>4, <1>5, <1>6 DEF IInv

LEMMA RepliesType ==
    ASSUME TypeOK, NEW a \in Actors, call[a] # Idle
    PROVE  Replies(a) \subseteq {"waiting", "approved", "rejected", "withdrawn"} \X {"ok",
       "refused", "over", "lost"}
BY DEF TypeOK, Replies, PortalAnswers, DecisionFor, Call

LEMMA StepSendAnswered == ASSUME IInv, NEW a \in Actors, SendAnswered(a) PROVE IInv'
<1>1. call[a] # Idle
  BY DEF SendAnswered, SendWith, At, Idle
<1> QED
  BY <1>1, RepliesType, StepSendWith DEF IInv, SendAnswered

LEMMA StepSendLost == ASSUME IInv, NEW a \in Actors, SendLost(a) PROVE IInv'
<1> DEFINE lost == {<<portal[call[a].req], "lost">>} \cup {<<x[1], "lost">> : x \in Replies(a)}
<1>1. call[a] # Idle
  BY DEF SendLost, SendWith, At, Idle
<1>2. Replies(a) \subseteq {"waiting", "approved", "rejected", "withdrawn"} \X {"ok", "refused", "over", "lost"}
  BY <1>1, RepliesType DEF IInv
<1>3. call[a].req \in Requests
  BY <1>1 DEF IInv, TypeOK, Call
<1>4. lost \subseteq {"waiting", "approved", "rejected", "withdrawn"} \X {"ok", "refused", "over", "lost"}
  BY <1>2, <1>3 DEF IInv, TypeOK
<1>5. SendWith(a, lost)
  BY DEF SendLost
<1> QED
  BY <1>4, <1>5, StepSendWith

LEMMA StepOutcome == ASSUME IInv, NEW a \in Actors, Outcome(a) PROVE IInv'
<1>0. PICK s \in Statuses, d \in {"none", "queued", "failed", "delivered"} :
         row' = [row EXCEPT ![call[a].req].status = s, ![call[a].req].delivery = d]
  <2> DEFINE correctable == \/ call[a].op = "approve" /\ Kind[call[a].req] = "deposit"
                            \/ call[a].op = "reject" /\ Kind[call[a].req] # "balance"
             newStatus == CASE call[a].answer = "over" -> "closed"
                            [] call[a].answer = "refused" /\ correctable -> "pending"
                            [] OTHER -> row[call[a].req].status
             newDelivery == IF call[a].answer = "refused" /\ correctable THEN "none"
                            ELSE DeliveryAfter(call[a].answer)
  <2>1. row[call[a].req].status \in Statuses
    BY DEF IInv, TypeOK, Outcome, At, Idle, Call, Row
  <2>2. newStatus \in Statuses
    BY <2>1 DEF Statuses
  <2>3. newDelivery \in {"none", "queued", "failed", "delivered"}
    BY DEF DeliveryAfter
  <2>4. row' = [row EXCEPT ![call[a].req].status = newStatus,
                           ![call[a].req].delivery = newDelivery]
    BY DEF Outcome
  <2> HIDE DEF newStatus, newDelivery
  <2> QED
    BY <2>2, <2>3, <2>4, Zenon
<1>1. TypeOK'
  <2>1. call[a] # Idle /\ call[a] \in Call /\ call[a].req \in Requests
    BY DEF IInv, TypeOK, Outcome, At, Idle, Call
  <2>2. row' \in [Requests -> Row]
    <3>1. [row[call[a].req] EXCEPT !.status = s, !.delivery = d] \in Row
      BY <2>1, RowFields DEF IInv, Row
    <3> QED
      BY <1>0, <3>1 DEF IInv, TypeOK
  <2>3. call' \in [Actors -> Call \cup {Idle}]
    BY DEF IInv, TypeOK, Outcome, Finish
  <2>4. found' \subseteq Requests /\ stuck' \subseteq Requests
    BY DEF IInv, TypeOK, Outcome, Rewritten
  <2>5. UNCHANGED <<invoice, void, minted, portal, owed, faults, overlooked>>
    BY DEF Outcome
  <2> QED
    BY <2>2, <2>3, <2>4, <2>5 DEF IInv, TypeOK
<1>2. CallShape'
  BY DEF IInv, Actors, Finish, Rewritten, Outcome, DeliveryAfter, CallShape
<1>3. RowShape'
  <2>1. OutcomeIs(a, call[a].req)
    BY OutcomeDoes DEF IInv
  <2>2. /\ \A q \in Requests : \/ row'[q].status = row[q].status /\ row'[q].previous = row[q].previous
                              \/ row'[q].status \in {"closed", "pending"}
        /\ found' \subseteq found /\ owed' = owed
        /\ \A q \in Requests : row[q].status = "absent" => q # call[a].req
    <3>1. row[call[a].req].status # "absent"
      BY <2>1 DEF IInv, RowShape, HeldIsSending, Holds, Claimed, OutcomeIs, Busy
    <3> QED
      BY <2>1, <3>1 DEF OutcomeIs, RowIs, OtherRows
  <2>3. \A q \in Requests : q # call[a].req => row'[q] = row[q]
    BY <2>1 DEF OutcomeIs, RowIs, OtherRows
  <2> QED
    BY <2>2, <2>3 DEF IInv, RowShape
<1>4. HeldIsSending'
  BY DEF IInv, Actors, Row, Idle, Finish, Rewritten, Claimed, Holds, Outcome,
      DeliveryAfter, TypeOK, HeldIsSending
<1>5. OneSender'
  BY DEF IInv, Actors, Idle, Finish, Rewritten, Claimed, Holds, Outcome,
      DeliveryAfter, OneSender
<1>6. PendingIsClean'
  <2>1. OutcomeIs(a, call[a].req)
    BY OutcomeDoes DEF IInv
  <2>2. Holds(a, call[a].req)
    BY <2>1 DEF OutcomeIs, Holds, Claimed
  <2> QED
    BY <2>1, <2>2 DEF IInv, PendingIsClean, HeldIsSending, OutcomeIs, RowIs, OtherRows, Busy
<1>7. SaveIsFirst'
  BY DEF IInv, Actors, Idle, At, Finish, Rewritten, Outcome, DeliveryAfter,
      SaveIsFirst
<1>8. OnePayment'
  BY DEF IInv, Finish, Rewritten, Outcome, DeliveryAfter, OnePayment
<1> QED
  BY <1>1, <1>2, <1>3, <1>4, <1>5, <1>6, <1>7, <1>8 DEF IInv

(* Claiming a decision: an accountant's, sent again, or the worker's. *)

LEMMA StepDecide ==
    ASSUME IInv, NEW a \in Actors, NEW r \in Requests, NEW d \in Decided, Decide(a, r, d)
    PROVE  IInv'
<1>1. TypeOK'
  BY DEF IInv, Actors, Row, Begin, Free, Rewritten, Decide, TypeOK, PendingIsClean
<1>2. CallShape'
  BY DEF IInv, Actors, Begin, Free, Rewritten, Decide, CallShape
<1>3. RowShape'
  BY DEF IInv, Actors, Row, Begin, Free, Rewritten, Decide, TypeOK, PendingIsClean,
      RowShape
<1>4. HeldIsSending'
  BY DEF IInv, Actors, Begin, Free, Rewritten, Holds, Decide, TypeOK, HeldIsSending
<1>5. OneSender'
  BY DEF IInv, Actors, Begin, Free, Rewritten, Holds, Decide, TypeOK, OneSender,
      PendingIsClean, HeldIsSending
<1>6. PendingIsClean'
  BY DEF IInv, Actors, Row, Begin, Free, Rewritten, Decide, TypeOK, PendingIsClean
<1>7. SaveIsFirst'
  <2>1. \A b \in Actors : call'[b] = call[b] \/ call'[b].at \in {"send", "read"}
    BY DecideDoes DEF IInv, DecideIs, Begins, OtherCalls
  <2>2. invoice' = invoice
    BY DEF Decide
  <2> QED
    BY <2>1, <2>2 DEF IInv, SaveIsFirst, At
<1>8. OnePayment'
  BY DEF IInv, Rewritten, Decide, OnePayment
<1> QED
  BY <1>1, <1>2, <1>3, <1>4, <1>5, <1>6, <1>7, <1>8 DEF IInv

LEMMA StepResend ==
    ASSUME IInv, NEW a \in Actors, NEW r \in Requests, Resend(a, r)
    PROVE IInv'
<1>1. TypeOK'
  BY DEF IInv, Actors, Row, Steps, Call, Begin, Free, Rewritten, Decided, TurnedDown,
      Resend, TypeOK
<1>2. CallShape'
  BY DEF IInv, Actors, Begin, Free, Rewritten, Decided, TurnedDown, Resend, CallShape
<1>3. RowShape'
  BY DEF IInv, Begin, Free, Rewritten, Decided, TurnedDown, Resend, RowShape
<1>4. HeldIsSending'
  BY DEF IInv, Actors, Begin, Free, Rewritten, Holds, Decided, TurnedDown, Resend,
      TypeOK, HeldIsSending
<1>5. OneSender'
  BY DEF IInv, Actors, Begin, Free, Rewritten, Holds, Decided, TurnedDown, Resend,
      TypeOK, OneSender, HeldIsSending
<1>6. PendingIsClean'
  BY DEF IInv, Begin, Free, Rewritten, Decided, TurnedDown, Resend, PendingIsClean
<1>7. SaveIsFirst'
  BY DEF IInv, Actors, Begin, Free, At, Rewritten, Decided, TurnedDown, Resend,
      SaveIsFirst
<1>8. OnePayment'
  BY DEF IInv, Rewritten, Resend, OnePayment
<1> QED
  BY <1>1, <1>2, <1>3, <1>4, <1>5, <1>6, <1>7, <1>8 DEF IInv

LEMMA StepFind == ASSUME IInv, Find PROVE IInv'
<1>1. TypeOK'
  BY DEF IInv, Actors, Free, Decided, Due, Find, TypeOK
<1>2. RowShape'
  BY DEF IInv, Free, Decided, Due, Find, RowShape
<1>3. HeldIsSending'
  BY DEF IInv, Actors, Free, Holds, Decided, Due, Find, HeldIsSending
<1>4. PendingIsClean'
  BY DEF IInv, Free, Decided, Due, Find, PendingIsClean
<1>5. CallShape' /\ OneSender' /\ SaveIsFirst' /\ OnePayment'
  BY DEF IInv, Actors, At, Holds, Find, OneSender, OnePayment, CallShape, SaveIsFirst
<1> QED
  BY <1>1, <1>2, <1>3, <1>4, <1>5 DEF IInv

LEMMA StepClaim == ASSUME IInv, NEW r \in Requests, Claim(r) PROVE IInv'
<1>1. TypeOK'
  BY DEF IInv, Actors, Row, Steps, Call, Begin, Free, Rewritten, Claim, StillToRecord,
      TypeOK
<1>2. CallShape'
  BY DEF IInv, Actors, Begin, Free, Rewritten, Claim, StillToRecord, CallShape
<1>3. RowShape'
  BY DEF IInv, Begin, Free, Rewritten, Claim, StillToRecord, RowShape
<1>4. HeldIsSending'
  BY DEF IInv, Actors, Begin, Free, Rewritten, Holds, Claim, StillToRecord, TypeOK,
      HeldIsSending
<1>5. OneSender'
  BY DEF IInv, Actors, Begin, Free, Rewritten, Holds, Claim, StillToRecord, TypeOK,
      OneSender, HeldIsSending
<1>6. PendingIsClean'
  BY DEF IInv, Begin, Free, Rewritten, Claim, StillToRecord, PendingIsClean
<1>7. SaveIsFirst'
  BY DEF IInv, Actors, Begin, Free, At, Rewritten, Claim, StillToRecord, SaveIsFirst
<1>8. OnePayment'
  BY DEF IInv, Rewritten, Claim, StillToRecord, OnePayment
<1> QED
  BY <1>1, <1>2, <1>3, <1>4, <1>5, <1>6, <1>7, <1>8 DEF IInv

(* Taking it back: reopened, or withdrawn by CS Portal. *)

LEMMA StepReopenRead ==
    ASSUME IInv, NEW a \in Actors, NEW r \in Requests, ReopenRead(a, r)
    PROVE IInv'
<1>1. TypeOK'
  BY DEF IInv, Actors, Row, Steps, Call, Begin, Free, Decided, TurnedDown, ReopenRead,
      TypeOK
<1>2. CallShape'
  BY DEF IInv, Actors, Begin, Free, Claimed, Decided, TurnedDown, ReopenRead,
      CallShape
<1>3. HeldIsSending'
  BY DEF IInv, Actors, Begin, Free, Claimed, Holds, Decided, TurnedDown, ReopenRead,
      HeldIsSending
<1>4. OneSender'
  BY DEF IInv, Actors, Begin, Free, Claimed, Holds, Decided, TurnedDown, ReopenRead,
      OneSender
<1>5. SaveIsFirst'
  BY DEF IInv, Actors, Begin, Free, At, Decided, TurnedDown, ReopenRead, SaveIsFirst
<1>6. RowShape' /\ PendingIsClean' /\ OnePayment'
  BY DEF IInv, ReopenRead, OnePayment, PendingIsClean, RowShape
<1> QED
  BY <1>1, <1>2, <1>3, <1>4, <1>5, <1>6 DEF IInv

LEMMA StepWithdrawRead == ASSUME IInv, NEW r \in Requests, WithdrawRead(r) PROVE IInv'
<1>1. TypeOK'
  BY DEF IInv, Actors, Row, Steps, Call, Begin, Free, WithdrawRead, TypeOK
<1>2. CallShape'
  BY DEF IInv, Actors, Statuses, Row, Begin, Free, Claimed, WithdrawRead, TypeOK,
      Kept, CallShape, RowShape
<1>3. HeldIsSending'
  BY DEF IInv, Actors, Begin, Free, Claimed, Holds, WithdrawRead, HeldIsSending
<1>4. OneSender'
  BY DEF IInv, Actors, Begin, Free, Claimed, Holds, WithdrawRead, OneSender
<1>5. SaveIsFirst'
  BY DEF IInv, Actors, Begin, Free, At, WithdrawRead, SaveIsFirst
<1>6. RowShape' /\ PendingIsClean' /\ OnePayment'
  BY DEF IInv, WithdrawRead, OnePayment, PendingIsClean, RowShape
<1> QED
  BY <1>1, <1>2, <1>3, <1>4, <1>5, <1>6 DEF IInv

LEMMA StepFindPayments == ASSUME IInv, NEW a \in Actors, FindPayments(a) PROVE IInv'
<1>1. TypeOK'
  <2>1. call[a] \in Call /\ call[a].req \in Requests
    BY FindPaymentsDoes DEF IInv, FindPaymentsIs, Busy
  <2>2. [call[a] EXCEPT !.at = "takeoff", !.held = HeldFor(call[a].req)] \in Call
    BY <2>1 DEF IInv, TypeOK, Call, Steps, HeldFor
  <2>3. call' \in [Actors -> Call \cup {Idle}]
    BY <2>2, FinishStays DEF IInv, TypeOK, FindPayments, Refuse
  <2>4. owed' \subseteq owed /\ overlooked' \subseteq overlooked \cup {call[a].req}
    BY DEF FindPayments, Refuse
  <2> QED
    BY <2>1, <2>3, <2>4 DEF IInv, TypeOK, FindPayments, Refuse
<1>2. CallShape'
  BY DEF IInv, Actors, Call, Idle, At, Finish, Claimed, Refuse, FindPayments, HeldFor,
      TypeOK, CallShape
<1>3. RowShape'
  BY DEF IInv, Finish, Refuse, FindPayments, HeldFor, RowShape
<1>4. HeldIsSending'
  BY DEF IInv, Actors, Call, Idle, Finish, Claimed, Holds, Refuse, FindPayments,
      HeldFor, TypeOK, HeldIsSending
<1>5. OneSender'
  BY DEF IInv, Actors, Call, Idle, Finish, Claimed, Holds, Refuse,
      FindPayments, HeldFor, TypeOK, OneSender
<1>6. SaveIsFirst'
  BY DEF IInv, Actors, Call, Idle, At, Finish, Refuse, FindPayments, HeldFor, TypeOK,
      SaveIsFirst
<1>7. PendingIsClean' /\ OnePayment'
  BY DEF IInv, Finish, Refuse, FindPayments, HeldFor, OnePayment, PendingIsClean
<1> QED
  BY <1>1, <1>2, <1>3, <1>4, <1>5, <1>6, <1>7 DEF IInv

LEMMA StepTakeOff == ASSUME IInv, NEW a \in Actors, TakeOff(a) PROVE IInv'
<1>1. TypeOK'
  <2>1. call[a].op \in {"reopen", "withdraw"} /\ call[a] \in Call
    BY DEF IInv, CallShape, TypeOK, TakeOff, At, Idle
  <2>2. [call[a] EXCEPT !.at = call[a].op] \in Call
    BY <2>1 DEF Call, Steps
  <2>3. call' \in [Actors -> Call \cup {Idle}]
    BY <2>2, FinishStays DEF IInv, TypeOK, TakeOff, Goto, Refuse
  <2>4. invoice' \in [Requests -> SUBSET PaymentIds]
    BY DEF IInv, TypeOK, TakeOff, Refuse
  <2>5. owed' \subseteq owed /\ overlooked' \subseteq overlooked
    BY DEF TakeOff, Refuse
  <2> QED
    BY <2>3, <2>4, <2>5 DEF IInv, TypeOK, TakeOff
<1>2. CallShape'
  BY DEF IInv, Actors, Call, Idle, At, Goto, Finish, Claimed, Refuse, TakeOff, TypeOK,
      CallShape
<1>3. RowShape'
  BY DEF IInv, Goto, Finish, Refuse, TakeOff, RowShape
<1>0. \A b \in Actors, r \in Requests : Holds(b, r)' => Holds(b, r)
  <2>1. call[a].op \in {"reopen", "withdraw"} /\ call[a] \in Call
    BY DEF IInv, CallShape, TypeOK, TakeOff, At, Idle
  <2>2. \/ call' = [call EXCEPT ![a].at = call[a].op]
        \/ call' = [call EXCEPT ![a] = Idle]
    BY DEF TakeOff, Goto, Refuse, Finish
  <2>3. ~(call'[a].at \in Claimed)
    BY <2>1, <2>2 DEF IInv, TypeOK, Claimed, Idle, Call
  <2> QED
    BY <2>2, <2>3 DEF IInv, TypeOK, Holds
<1>4. HeldIsSending'
  BY <1>0 DEF IInv, TakeOff, HeldIsSending
<1>5. OneSender'
  BY <1>0 DEF IInv, OneSender
<1>6. SaveIsFirst'
  BY DEF IInv, Actors, Call, Idle, At, Goto, Finish, Refuse, TakeOff, TypeOK,
      SaveIsFirst
<1>7. OnePayment'
  BY DEF IInv, Actors, Goto, Finish, Refuse, TakeOff, TypeOK, OnePayment
<1>8. PendingIsClean'
  BY DEF IInv, Goto, Finish, Refuse, TakeOff, PendingIsClean
<1> QED
  BY <1>1, <1>2, <1>3, <1>4, <1>5, <1>6, <1>7, <1>8 DEF IInv

LEMMA StepReopen == ASSUME IInv, NEW a \in Actors, Reopen(a) PROVE IInv'
<1>1. TypeOK'
  BY DEF IInv, Actors, Row, Finish, Rewritten, NotRewritten, Decided, TurnedDown,
      Reopen, TypeOK
<1>2. CallShape'
  BY DEF IInv, Actors, Finish, Rewritten, NotRewritten, Decided, TurnedDown, Reopen,
      CallShape
<1>3. RowShape'
  BY DEF IInv, Actors, Row, Finish, Rewritten, NotRewritten, Decided, TurnedDown,
      Reopen, TypeOK, RowShape
<1>4. HeldIsSending'
  BY DEF IInv, Actors, Idle, Finish, Rewritten, NotRewritten, Claimed, Holds, Decided,
      TurnedDown, Reopen, TypeOK, HeldIsSending
<1>5. OneSender'
  BY DEF IInv, Actors, Idle, Finish, Rewritten, NotRewritten, Claimed, Holds, Decided,
      TurnedDown, Reopen, OneSender
<1>6. PendingIsClean'
  BY DEF IInv, Actors, Row, Finish, Rewritten, NotRewritten, Decided, TurnedDown,
      Reopen, TypeOK, PendingIsClean
<1>7. SaveIsFirst'
  <2>1. \A b \in Actors : call'[b] = call[b] \/ call'[b] = Idle
    BY ReopenDoes DEF IInv, ReopenIs, Ends, OtherCalls
  <2>2. invoice' = invoice
    BY DEF Reopen
  <2> QED
    BY <2>1, <2>2 DEF IInv, SaveIsFirst, At, Idle
<1>8. OnePayment'
  BY DEF IInv, Finish, Rewritten, NotRewritten, Reopen, OnePayment
<1> QED
  BY <1>1, <1>2, <1>3, <1>4, <1>5, <1>6, <1>7, <1>8 DEF IInv

LEMMA StepWithdraw == ASSUME IInv, NEW a \in Actors, Withdraw(a) PROVE IInv'
<1>1. TypeOK'
  <2>1. call[a] \in Call /\ call[a].req \in Requests
    BY WithdrawDoes DEF IInv, WithdrawIs, Busy
  <2>2. [row[call[a].req] EXCEPT !.status = "deleted", !.previous = call[a].status] \in Row
    BY <2>1, RowFields, DeletedRow DEF IInv, Call
  <2>3. row' \in [Requests -> Row]
    BY <2>1, <2>2 DEF IInv, TypeOK, Withdraw
  <2>4. call' \in [Actors -> Call \cup {Idle}]
    BY FinishStays DEF IInv, Withdraw
  <2> QED
    BY <2>3, <2>4 DEF IInv, TypeOK, Withdraw, NotRewritten
<1>2. CallShape'
  BY DEF IInv, Actors, Finish, NotRewritten, Withdraw, CallShape
<1>3. RowShape'
  BY DEF IInv, Actors, Idle, At, Finish, NotRewritten, Withdraw, TypeOK, CallShape,
      RowShape
<1>4. HeldIsSending'
  BY DEF IInv, Actors, Idle, Finish, NotRewritten, Claimed, Holds, Withdraw, TypeOK,
      HeldIsSending
<1>5. OneSender'
  BY DEF IInv, Actors, Idle, Finish, NotRewritten, Claimed, Holds, Withdraw, TypeOK,
      OneSender
<1>6. PendingIsClean'
  BY DEF IInv, Actors, Finish, NotRewritten, Withdraw, TypeOK, PendingIsClean
<1>7. SaveIsFirst'
  BY DEF IInv, Actors, Idle, At, Finish, NotRewritten, Withdraw, SaveIsFirst
<1>8. OnePayment'
  BY DEF IInv, Finish, NotRewritten, Withdraw, OnePayment
<1> QED
  BY <1>1, <1>2, <1>3, <1>4, <1>5, <1>6, <1>7, <1>8 DEF IInv

(* Deleted and restored. *)

LEMMA StepDeleteRead ==
    ASSUME IInv, NEW a \in Actors, NEW r \in Requests, DeleteRead(a, r)
    PROVE IInv'
<1>1. TypeOK'
  BY DEF IInv, Actors, Row, Steps, Call, Begin, Free, Decided, DeleteRead, TypeOK
<1>2. CallShape'
  BY DEF IInv, Actors, Begin, Free, Claimed, Decided, DeleteRead, Kept, CallShape
<1>3. HeldIsSending'
  BY DEF IInv, Actors, Begin, Free, Claimed, Holds, Decided, DeleteRead, HeldIsSending
<1>4. OneSender'
  BY DEF IInv, Actors, Begin, Free, Claimed, Holds, Decided, DeleteRead, OneSender
<1>5. SaveIsFirst'
  BY DEF IInv, Actors, Begin, Free, At, Decided, DeleteRead, SaveIsFirst
<1>6. RowShape' /\ PendingIsClean' /\ OnePayment'
  BY DEF IInv, DeleteRead, OnePayment, PendingIsClean, RowShape
<1> QED
  BY <1>1, <1>2, <1>3, <1>4, <1>5, <1>6 DEF IInv

LEMMA StepDeleteCheck == ASSUME IInv, NEW a \in Actors, DeleteCheck(a) PROVE IInv'
<1>1. TypeOK'
  <2>1. call[a] \in Call
    BY DeleteCheckDoes DEF IInv, DeleteCheckIs, Busy
  <2>2. call' \in [Actors -> Call \cup {Idle}]
    BY <2>1, GotoStays, FinishStays DEF IInv, DeleteCheck, Steps
  <2> QED
    BY <2>2 DEF IInv, TypeOK, DeleteCheck
<1>2. CallShape'
  BY DEF IInv, Actors, Call, Idle, At, Goto, Finish, Claimed, DeleteCheck, TypeOK,
      CallShape
<1>3. HeldIsSending'
  BY DEF IInv, Actors, Call, Idle, Goto, Finish, Claimed, Holds, DeleteCheck, TypeOK,
      HeldIsSending
<1>4. OneSender'
  BY DEF IInv, Actors, Call, Idle, Goto, Finish, Claimed, Holds, DeleteCheck, TypeOK,
      OneSender
<1>5. SaveIsFirst'
  BY DEF IInv, Actors, Call, Idle, At, Goto, Finish, DeleteCheck, TypeOK, SaveIsFirst
<1>6. RowShape' /\ PendingIsClean' /\ OnePayment'
  BY DEF IInv, Goto, Finish, DeleteCheck, OnePayment, PendingIsClean, RowShape
<1> QED
  BY <1>1, <1>2, <1>3, <1>4, <1>5, <1>6 DEF IInv

LEMMA StepDelete == ASSUME IInv, NEW a \in Actors, Delete(a) PROVE IInv'
<1>1. TypeOK'
  <2>1. call[a] \in Call /\ call[a].req \in Requests
    BY DeleteDoes DEF IInv, DeleteIs, Busy
  <2>2. [row[call[a].req] EXCEPT !.status = "deleted", !.previous = call[a].status] \in Row
    BY <2>1, RowFields, DeletedRow DEF IInv, Call
  <2>3. row' \in [Requests -> Row]
    BY <2>1, <2>2 DEF IInv, TypeOK, Delete
  <2>4. call' \in [Actors -> Call \cup {Idle}]
    BY FinishStays DEF IInv, Delete
  <2> QED
    BY <2>3, <2>4 DEF IInv, TypeOK, Delete
<1>2. CallShape'
  BY DEF IInv, Actors, Finish, Delete, CallShape
<1>3. RowShape'
  BY DEF IInv, Actors, Idle, At, Finish, Delete, TypeOK, CallShape, RowShape
<1>4. HeldIsSending'
  BY DEF IInv, Actors, Idle, Finish, Claimed, Holds, Delete, TypeOK, HeldIsSending
<1>5. OneSender'
  BY DEF IInv, Actors, Idle, Finish, Claimed, Holds, Delete, OneSender
<1>6. PendingIsClean'
  BY DEF IInv, Actors, Finish, Delete, TypeOK, PendingIsClean
<1>7. SaveIsFirst'
  BY DEF IInv, Actors, Idle, At, Finish, Delete, TypeOK, SaveIsFirst
<1>8. OnePayment'
  BY DEF IInv, Finish, Delete, OnePayment
<1> QED
  BY <1>1, <1>2, <1>3, <1>4, <1>5, <1>6, <1>7, <1>8 DEF IInv

LEMMA StepRestoreRead ==
    ASSUME IInv, NEW a \in Actors, NEW r \in Requests, RestoreRead(a, r)
    PROVE IInv'
<1>1. TypeOK'
  BY DEF IInv, Actors, Row, Steps, Call, Begin, Free, RestoreRead, TypeOK
<1>2. CallShape'
  BY DEF IInv, Actors, Begin, Free, Claimed, RestoreRead, TypeOK, CallShape, RowShape
<1>3. HeldIsSending'
  BY DEF IInv, Actors, Begin, Free, Claimed, Holds, RestoreRead, HeldIsSending
<1>4. OneSender'
  BY DEF IInv, Actors, Begin, Free, Claimed, Holds, RestoreRead, OneSender
<1>5. SaveIsFirst'
  BY DEF IInv, Actors, Begin, Free, At, RestoreRead, SaveIsFirst
<1>6. RowShape' /\ PendingIsClean' /\ OnePayment'
  BY DEF IInv, RestoreRead, OnePayment, PendingIsClean, RowShape
<1> QED
  BY <1>1, <1>2, <1>3, <1>4, <1>5, <1>6 DEF IInv

LEMMA StepRestore == ASSUME IInv, NEW a \in Actors, Restore(a) PROVE IInv'
<1>1. TypeOK'
  <2>1. call[a] \in Call /\ call[a].req \in Requests
    BY RestoreDoes DEF IInv, RestoreIs, Busy
  <2>2. [row[call[a].req] EXCEPT !.status = call[a].status] \in Row
    BY <2>1, RowFields DEF IInv, Row, Call
  <2>3. row' \in [Requests -> Row]
    BY <2>1, <2>2 DEF IInv, TypeOK, Restore
  <2>4. call' \in [Actors -> Call \cup {Idle}]
    BY FinishStays DEF IInv, Restore
  <2> QED
    BY <2>3, <2>4 DEF IInv, TypeOK, Restore
<1>2. CallShape'
  BY DEF IInv, Actors, Finish, Restore, CallShape
<1>3. RowShape'
  BY DEF IInv, Actors, Idle, At, Finish, Restore, TypeOK, Kept, CallShape, RowShape
<1>4. HeldIsSending'
  BY DEF IInv, Actors, Idle, Finish, Claimed, Holds, Restore, HeldIsSending
<1>5. OneSender'
  BY DEF IInv, Actors, Idle, Finish, Claimed, Holds, Restore, OneSender
<1>6. PendingIsClean'
  BY DEF IInv, Actors, Idle, At, Finish, Restore, TypeOK, PendingIsClean, Kept,
      CallShape
<1>7. SaveIsFirst'
  BY DEF IInv, Actors, Idle, At, Finish, Restore, SaveIsFirst
<1>8. OnePayment'
  BY DEF IInv, Finish, Restore, OnePayment
<1> QED
  BY <1>1, <1>2, <1>3, <1>4, <1>5, <1>6, <1>7, <1>8 DEF IInv

(* The environment. *)

LEMMA StepIntake == ASSUME IInv, NEW r \in Requests, Intake(r) PROVE IInv'
<1>1. TypeOK'
  <2>1. [row[r] EXCEPT !.status = "pending"] \in Row
    BY RowFields DEF IInv, Row, Statuses
  <2>2. row' \in [Requests -> Row]
    BY <2>1 DEF IInv, TypeOK, Intake
  <2> QED
    BY <2>2 DEF IInv, TypeOK, Intake
<1>2. RowShape'
  BY DEF IInv, Intake, RowShape
<1>3. HeldIsSending'
  BY DEF IInv, Actors, Holds, Intake, HeldIsSending
<1>4. PendingIsClean'
  BY DEF IInv, Actors, Intake, TypeOK, PendingIsClean, RowShape
<1>5. CallShape' /\ OneSender' /\ SaveIsFirst' /\ OnePayment'
  BY DEF IInv, Actors, At, Holds, Intake, OneSender, OnePayment, CallShape,
      SaveIsFirst
<1> QED
  BY <1>1, <1>2, <1>3, <1>4, <1>5 DEF IInv

LEMMA StepPortalRejects == ASSUME IInv, NEW r \in Requests, PortalRejects(r) PROVE IInv'
<1>1. TypeOK'
  BY DEF IInv, Actors, PortalRejects, TypeOK
<1>2. RowShape'
  BY DEF IInv, PortalRejects, RowShape
<1>3. CallShape' /\ HeldIsSending' /\ OneSender' /\ PendingIsClean' /\ SaveIsFirst' /\ OnePayment'
  BY DEF IInv, Actors, At, Holds, PortalRejects, OneSender, OnePayment,
      PendingIsClean, CallShape, HeldIsSending, SaveIsFirst
<1> QED
  BY <1>1, <1>2, <1>3 DEF IInv

LEMMA StepVoidInvoice == ASSUME IInv, NEW r \in Requests, VoidInvoice(r) PROVE IInv'
<1>1. TypeOK'
  BY DEF IInv, VoidInvoice, TypeOK
<1>2. CallShape' /\ RowShape' /\ HeldIsSending' /\ OneSender' /\ PendingIsClean' /\ SaveIsFirst'
      /\ OnePayment'
  BY DEF IInv, At, Holds, VoidInvoice, OneSender, OnePayment, PendingIsClean, CallShape,
      RowShape, HeldIsSending, SaveIsFirst
<1> QED
  BY <1>1, <1>2 DEF IInv

LEMMA StepRestoreInvoice == ASSUME IInv, NEW r \in Requests, RestoreInvoice(r) PROVE IInv'
<1>1. TypeOK'
  BY DEF IInv, RestoreInvoice, TypeOK
<1>2. CallShape' /\ RowShape' /\ HeldIsSending' /\ OneSender' /\ PendingIsClean' /\ SaveIsFirst'
      /\ OnePayment'
  BY DEF IInv, At, Holds, RestoreInvoice, OneSender, OnePayment, PendingIsClean, CallShape,
      RowShape, HeldIsSending, SaveIsFirst
<1> QED
  BY <1>1, <1>2 DEF IInv

LEMMA StepFail == ASSUME IInv, NEW a \in Actors, Fail(a) PROVE IInv'
<1>1. TypeOK'
  BY BoundsAssumption DEF IInv, Actors, Finish, Fail, TypeOK
<1>2. CallShape'
  BY DEF IInv, Actors, Finish, Fail, CallShape
<1>3. RowShape'
  BY DEF IInv, Finish, Fail, RowShape
<1>4. HeldIsSending'
  BY DEF IInv, Actors, Idle, Finish, Claimed, Holds, Fail, HeldIsSending
<1>5. OneSender'
  BY DEF IInv, Actors, Idle, Finish, Claimed, Holds, Fail, OneSender
<1>6. PendingIsClean'
  BY DEF IInv, Finish, Fail, PendingIsClean
<1>7. SaveIsFirst'
  BY DEF IInv, Actors, Idle, At, Finish, Fail, SaveIsFirst
<1>8. OnePayment'
  BY DEF IInv, Finish, Fail, OnePayment
<1> QED
  BY <1>1, <1>2, <1>3, <1>4, <1>5, <1>6, <1>7, <1>8 DEF IInv

LEMMA StepAges == ASSUME IInv, NEW r \in Requests, Ages(r) PROVE IInv'
<1>1. TypeOK'
  BY DEF IInv, Actors, Ages, TypeOK
<1>2. HeldIsSending'
  BY DEF IInv, Actors, Holds, Ages, HeldIsSending
<1>3. CallShape' /\ RowShape' /\ OneSender' /\ PendingIsClean' /\ SaveIsFirst' /\ OnePayment'
  BY DEF IInv, Actors, At, Holds, Ages, OneSender, OnePayment, PendingIsClean,
      CallShape, RowShape, SaveIsFirst
<1> QED
  BY <1>1, <1>2, <1>3 DEF IInv

----------------------------------------------------------------------------
LEMMA StepContinue == ASSUME IInv, NEW a \in Actors, Continue(a) PROVE IInv'
BY StepReadInvoice, StepSavePayment, StepReadBack, StepRemember, StepPutBack,
   StepLoad, StepSendAnswered, StepSendLost, StepOutcome, StepFindPayments,
   StepTakeOff, StepReopen, StepWithdraw, StepDeleteCheck, StepDelete, StepRestore DEF Continue

LEMMA StepStart ==
    ASSUME IInv, NEW a \in Actors, NEW r \in Requests, Start(a, r) PROVE IInv'
BY StepDecide, StepResend, StepReopenRead, StepDeleteRead, StepRestoreRead DEF Start, Decided

LEMMA NextIInv == IInv /\ [Next]_vars => IInv'
<1> SUFFICES ASSUME IInv, [Next]_vars PROVE IInv'
  OBVIOUS
<1>1. CASE \E a \in Actors : Continue(a) \/ Fail(a)
  BY <1>1, StepContinue, StepFail
<1>2. CASE \E a \in Accountants, r \in Requests : Start(a, r)
  BY <1>2, StepStart DEF Actors
<1>3. CASE \E r \in Requests :
             Intake(r) \/ Claim(r) \/ WithdrawRead(r) \/ PortalRejects(r) \/ Ages(r)
  BY <1>3, StepIntake, StepClaim, StepWithdrawRead, StepPortalRejects, StepAges
<1>4. CASE Find
  BY <1>4, StepFind
<1>5. CASE UNCHANGED vars
  BY <1>5 DEF IInv, TypeOK, CallShape, RowShape, HeldIsSending, OneSender,
      PendingIsClean, SaveIsFirst, OnePayment, vars, Holds, At
<1>6. CASE \E r \in Requests : VoidInvoice(r) \/ RestoreInvoice(r)
  BY <1>6, StepVoidInvoice, StepRestoreInvoice
<1> QED
  BY <1>1, <1>2, <1>3, <1>4, <1>5, <1>6 DEF Next

LEMMA Invariance == Spec => []IInv
  BY InitIInv, NextIInv, PTL DEF Spec

----------------------------------------------------------------------------
(* The theorems. *)

\* Every variable keeps its type.
THEOREM TypeCorrect == Spec => []TypeOK
  BY Invariance, PTL DEF IInv

\* A decision is in one handler's hands at a time: a claim is a conditional write
\* on a value no other holder can have left there.
THEOREM NeverSentTwiceAtOnce == Spec => []OneSender
  BY Invariance, PTL DEF IInv

\* The payment of a request is on an invoice at most once, through any retries.
THEOREM RecordedOnce == Spec => []OnePayment
  BY Invariance, PTL DEF IInv

\* A request that waits for a decision has nothing in delivery.
THEOREM PendingHasNoDelivery == Spec => []PendingIsClean
  BY Invariance, PTL DEF IInv

----------------------------------------------------------------------------
(* One accountant at a time. *)

OneDesk == \A a, b \in Accountants : a = b

\* The decision on a request, deleted or not.
Standing(r) == IF row[r].status = "deleted" THEN row[r].previous ELSE row[r].status

\* Its payment is on no invoice, or was overlooked on a void one.
Off(r) == invoice[r] = {} \/ r \in overlooked

\* Where no payment can be: not decided, or a deposit, which has none here.
PaidFor(r) ==
    row[r].status \in {"absent", "pending"} \/ Kind[r] = "deposit" => Off(r)

\* What finance and CS Portal make of a request that CS Portal has not rejected.
Agreed(r) ==
    portal[r] # "withdrawn" =>
        /\ row[r].status \in Decided => row[r].delivery # "none"
        /\ row[r].status = "deleted" => row[r].delivery \in {"failed", "delivered"}
        /\ Standing(r) = "closed" => row[r].delivery = "failed"
        /\ Standing(r) \in Decided /\ row[r].delivery = "delivered" => portal[r] = Standing(r)
        /\ Standing(r) = "approved" /\ row[r].delivery \in {"failed", "delivered"} /\ Kind[r] # "deposit"
              => row[r].recorded # None
        /\ r \in found => row[r].status \in Decided

Settled(r) ==
    /\ PaidFor(r) /\ Agreed(r)
    /\ r \in owed => portal[r] = "withdrawn"
    /\ r \in found => row[r].delivery \in {"queued", "sending"}

\* Who does what.
Duty(a) ==
    /\ call[a].op = "withdraw" => a = Portal
    /\ call[a].op = "pass" => a = Worker
    /\ call[a].op \notin {"withdraw", "pass"} => a \in Accountants
    /\ call[a].at = "reopen" => call[a].op = "reopen"

\* A payment not taken by its invoice, or rejected with the request, is on none.
UnpaidBy(a, r) ==
    /\ call[a].at = "putback" => invoice[r] = {}
    /\ call[a].op = "reject" => call[a].at \in {"send", "outcome"} /\ Off(r)
    /\ call[a].at \in Claimed \ {"send", "outcome"} => Kind[r] # "deposit"

\* While the only accountant reopens a decision it stays turned down, and what
\* was found of its payment is all there is.  A withdrawal is of what CS Portal
\* has rejected.
TakenBack(a, r) ==
    /\ call[a].op = "reopen" =>
          /\ row[r].delivery = "failed"
          /\ call[a].at = "takeoff" => invoice[r] \subseteq call[a].held \/ r \in overlooked
          /\ call[a].at = "reopen" => Off(r)
    /\ call[a].op = "withdraw" => portal[r] = "withdrawn"

\* What a handler read of a request that CS Portal has not rejected still stands.
Stands(a, r) ==
    portal[r] # "withdrawn" =>
        /\ call[a].at \in Claimed => call[a].status = row[r].status /\ row[r].status \in Decided
        /\ call[a].at \in Claimed \ {"send", "outcome"} => call[a].status = "approved"
        /\ call[a].at = "read" /\ call[a].payment # None => row[r].recorded # None
        /\ call[a].at = "readback" => invoice[r] # {}
        /\ call[a].at = "remember" => call[a].payment # None
        /\ call[a].at \in {"load", "send", "outcome"} /\ call[a].status = "approved" /\ Kind[r] # "deposit"
              => row[r].recorded # None
        /\ call[a].at = "outcome" /\ call[a].answer = "ok" => portal[r] = call[a].status
        /\ call[a].op \in {"delete", "restore"} => row[r].delivery \in {"failed", "delivered"}
        /\ call[a].op = "delete" => row[r].status = call[a].status
        /\ call[a].op = "restore" => row[r].status = "deleted" /\ row[r].previous = call[a].status

AtWork(a, r) == Duty(a) /\ UnpaidBy(a, r) /\ TakenBack(a, r) /\ Stands(a, r)

DeskIInv ==
    /\ \A a \in Actors : call[a] # Idle => AtWork(a, call[a].req)
    /\ \A r \in Requests : Settled(r)

----------------------------------------------------------------------------
(* What a step on one request leaves of the others, and of other handlers. *)

\* Nothing of a handler's rests on a request's delivery or payment.
Quiet(b, r) ==
    call[b] # Idle /\ call[b].req = r =>
        /\ call[b].at \notin Claimed /\ call[b].op \notin {"reopen", "reject"}
        /\ portal[r] # "withdrawn" => call[b].op \notin {"delete", "restore"}

Overlooks(r) == r \in overlooked => r \in overlooked' \/ invoice'[r] = {}

Same(r) == /\ row'[r] = row[r] /\ invoice'[r] = invoice[r] /\ portal'[r] = portal[r]
           /\ Overlooks(r)

\* CS Portal has rejected it: a payment may go.
Soft(r) == /\ row'[r].delivery = row[r].delivery /\ invoice'[r] \subseteq invoice[r]
           /\ portal'[r] = "withdrawn" /\ Overlooks(r)

OnlyOn(r) ==
    /\ \A q \in Requests : q # r => Same(q)
    /\ portal[r] = "withdrawn" => portal'[r] = "withdrawn"

LEMMA OtherWork ==
    ASSUME NEW r, NEW b \in Actors, TypeOK, call[b] # Idle, AtWork(b, call[b].req),
           call'[b] = call[b], OnlyOn(r), Quiet(b, r) \/ Soft(r) \/ Same(r)
    PROVE  AtWork(b, call[b].req)'
<1> DEFINE q == call[b].req
<1>1. q \in Requests /\ call'[b].req = q
  BY DEF TypeOK, Call
<1>2. CASE Same(q)
  BY <1>1, <1>2 DEF AtWork, Duty, UnpaidBy, TakenBack, Stands, Same, Off, Overlooks
<1>3. CASE q = r /\ Quiet(b, r)
  BY <1>1, <1>3 DEF AtWork, Duty, UnpaidBy, TakenBack, Stands, Quiet, Claimed, OnlyOn, Off
<1>4. CASE q = r /\ Soft(r)
  BY <1>1, <1>4 DEF AtWork, Duty, UnpaidBy, TakenBack, Stands, Soft, Off, Overlooks
<1> QED
  BY <1>1, <1>2, <1>3, <1>4 DEF OnlyOn

LEMMA OtherRequest ==
    ASSUME NEW q \in Requests, Settled(q), Same(q), q \in found' => q \in found,
           q \in owed' => q \in owed
    PROVE  Settled(q)'
BY DEF Settled, PaidFor, Agreed, Standing, Same, Off, Overlooks

LEMMA DeskStep ==
    ASSUME TypeOK, DeskIInv, NEW r, OnlyOn(r),
           \A b \in Actors : \/ call'[b] = Idle
                             \/ call'[b] = call[b] /\ (Quiet(b, r) \/ Soft(r) \/ Same(r))
                             \/ AtWork(b, call[b].req)',
           r \in Requests => Settled(r)',
           found' \subseteq found \cup {r}, owed' \subseteq owed \cup {r}
    PROVE  DeskIInv'
<1>1. ASSUME NEW b \in Actors, call'[b] # Idle PROVE AtWork(b, call[b].req)'
  BY <1>1, OtherWork DEF DeskIInv
<1>2. ASSUME NEW q \in Requests PROVE Settled(q)'
  <2>1. CASE q = r
    BY <2>1
  <2>2. CASE q # r
    BY <2>2, OtherRequest DEF DeskIInv, OnlyOn
  <2> QED
    BY <2>1, <2>2
<1> QED
  BY <1>1, <1>2 DEF DeskIInv

\* The one who holds a decision: no other handler's work rests on it.
LEMMA Holder ==
    ASSUME IInv, DeskIInv, NEW a \in Actors, NEW r \in Requests, Busy(a, r), call[a].at \in Claimed
    PROVE  /\ row[r].delivery = "sending" /\ r \notin found /\ AtWork(a, r)
           /\ \A b \in Actors : b # a => Quiet(b, r)
<1>1. Holds(a, r)
  BY DEF Busy, Holds
<1>2. row[r].delivery = "sending" /\ r \notin found
  BY <1>1 DEF IInv, HeldIsSending
<1>3. ASSUME NEW b \in Actors, b # a, call[b] # Idle, call[b].req = r PROVE Quiet(b, r)
  <2>1. call[b].at \notin Claimed
    BY <1>1, <1>3 DEF IInv, OneSender, Holds
  <2>2. AtWork(b, r)
    BY <1>3 DEF DeskIInv
  <2> QED
    BY <1>2, <2>1, <2>2 DEF Quiet, AtWork, UnpaidBy, TakenBack, Stands, Claimed, Off
<1> QED
  BY <1>2, <1>3 DEF Busy, DeskIInv, Quiet

\* Nobody holds it.
LEMMA NotHeld ==
    ASSUME IInv, NEW r \in Requests, row[r].delivery # "sending" \/ r \in found
    PROVE  \A b \in Actors : ~Holds(b, r)
BY DEF IInv, HeldIsSending
----------------------------------------------------------------------------
(* What each action keeps, one accountant at a time. *)

\* A step that changes its own call only.
LEMMA OwnStep ==
    ASSUME TypeOK, DeskIInv, NEW a \in Actors, OtherCalls(a), UNCHANGED <<row, invoice, portal>>,
           overlooked \subseteq overlooked',
           call'[a] = Idle \/ AtWork(a, call[a].req)',
           found' \subseteq found, owed' \subseteq owed
    PROVE  DeskIInv'
<1>1. \A r : Same(r)
  BY DEF Same, Overlooks
<1>2. \A b \in Actors : \/ call'[b] = Idle
                        \/ call'[b] = call[b] /\ Same(Worker)
                        \/ AtWork(b, call[b].req)'
  BY <1>1 DEF OtherCalls
<1>3. \A r \in Requests : Settled(r)'
  BY <1>1, OtherRequest DEF DeskIInv
<1> QED
  BY <1>1, <1>2, <1>3, DeskStep DEF OnlyOn

\* A holder goes on, or ends, and changes the request it holds.
LEMMA HolderStep ==
    ASSUME IInv, DeskIInv, NEW a \in Actors, NEW r \in Requests, Busy(a, r), call[a].at \in Claimed,
           OtherCalls(a), OnlyOn(r), call'[a] = Idle \/ AtWork(a, call[a].req)', Settled(r)',
           found' \subseteq found \cup {r}, owed' \subseteq owed
    PROVE  DeskIInv'
<1>1. \A b \in Actors : b # a => Quiet(b, r)
  BY Holder
<1>2. \A b \in Actors : \/ call'[b] = Idle
                        \/ call'[b] = call[b] /\ Quiet(b, r)
                        \/ AtWork(b, call[b].req)'
  BY <1>1 DEF OtherCalls
<1> QED
  BY <1>2, DeskStep DEF IInv

LEMMA DeskReadInvoice == ASSUME IInv, DeskIInv, NEW a \in Actors, ReadInvoice(a) PROVE DeskIInv'
<1> DEFINE r == call[a].req
<1>1. ReadInvoiceIs(a, r)
  BY ReadInvoiceDoes DEF IInv
<1>2. AtWork(a, r) /\ r \in Requests /\ call[a].op \in {"approve", "reject", "resend", "pass"}
  BY <1>1 DEF DeskIInv, ReadInvoiceIs, Busy, IInv, CallShape, Claimed
<1>3. AtWork(a, call[a].req)'
  BY <1>1, <1>2
  DEF ReadInvoiceIs, Busy, Goes, AtWork, Duty, UnpaidBy, TakenBack, Stands, Claimed, Off
<1> QED
  BY <1>1, <1>3, OwnStep DEF ReadInvoiceIs, Goes, IInv

LEMMA DeskReadBack == ASSUME IInv, DeskIInv, NEW a \in Actors, ReadBack(a) PROVE DeskIInv'
<1> DEFINE r == call[a].req
<1>1. ReadBackIs(a, r)
  BY ReadBackDoes DEF IInv
<1>2. AtWork(a, r) /\ r \in Requests /\ call[a].op \in {"approve", "reject", "resend", "pass"}
  BY <1>1 DEF DeskIInv, ReadBackIs, Busy, IInv, CallShape, Claimed
<1>3. AtWork(a, call[a].req)'
  BY <1>1, <1>2 DEF ReadBackIs, Busy, Goes, AtWork, Duty, UnpaidBy, TakenBack, Stands, Claimed, Off
<1> QED
  BY <1>1, <1>3, OwnStep DEF ReadBackIs, Goes, IInv

LEMMA DeskLoad == ASSUME IInv, DeskIInv, NEW a \in Actors, Load(a) PROVE DeskIInv'
<1> DEFINE r == call[a].req
<1>1. LoadIs(a, r)
  BY LoadDoes DEF IInv
<1>2. AtWork(a, r) /\ r \in Requests /\ call[a].op \in {"approve", "reject", "resend", "pass"}
  BY <1>1 DEF DeskIInv, LoadIs, Busy, IInv, CallShape, Claimed
<1>3. AtWork(a, call[a].req)'
  BY <1>1, <1>2 DEF LoadIs, Busy, Goes, AtWork, Duty, UnpaidBy, TakenBack, Stands, Claimed, Off
<1> QED
  BY <1>1, <1>3, OwnStep DEF LoadIs, Goes, IInv

LEMMA DeskDeleteCheck == ASSUME IInv, DeskIInv, NEW a \in Actors, DeleteCheck(a) PROVE DeskIInv'
<1> DEFINE r == call[a].req
<1>1. DeleteCheckIs(a, r)
  BY DeleteCheckDoes DEF IInv
<1>2. AtWork(a, r) /\ r \in Requests /\ call[a].op = "delete"
  BY <1>1 DEF DeskIInv, DeleteCheckIs, Busy, IInv, CallShape
<1>3. call'[a] = Idle \/ AtWork(a, call[a].req)'
  BY <1>1, <1>2
  DEF DeleteCheckIs, Busy, Goes, Ends, AtWork, Duty, UnpaidBy, TakenBack, Stands, Claimed, Off
<1> QED
  BY <1>1, <1>3, OwnStep DEF DeleteCheckIs, Goes, Ends, IInv

LEMMA DeskFail == ASSUME IInv, DeskIInv, NEW a \in Actors, Fail(a) PROVE DeskIInv'
<1>1. FailIs(a)
  BY FailDoes DEF IInv
<1> QED
  BY <1>1, OwnStep DEF FailIs, Ends, IInv

LEMMA DeskFindPayments == ASSUME IInv, DeskIInv, NEW a \in Actors, FindPayments(a) PROVE DeskIInv'
<1> DEFINE r == call[a].req
<1>1. FindPaymentsIs(a, r)
  BY FindPaymentsDoes DEF IInv
<1>2. AtWork(a, r) /\ r \in Requests /\ call[a].op \in {"reopen", "withdraw"}
  BY <1>1 DEF DeskIInv, FindPaymentsIs, Busy, IInv, CallShape
<1>3. call'[a] = Idle \/ AtWork(a, call[a].req)'
  BY <1>1, <1>2
  DEF FindPaymentsIs, Busy, Goes, Ends, AtWork, Duty, UnpaidBy, TakenBack, Stands, Claimed, Off
<1> QED
  BY <1>1, <1>3, OwnStep DEF FindPaymentsIs, Goes, Ends, IInv

LEMMA DeskSavePayment ==
    ASSUME IInv, DeskIInv, NEW a \in Actors, NEW r \in Requests, r = call[a].req,
           SavePayment(a)
    PROVE  DeskIInv'
<1>1. SavePaymentIs(a, r)
  BY SavePaymentDoes DEF IInv
<1>2. Busy(a, r) /\ r \in Requests /\ call[a].at \in Claimed
  BY <1>1 DEF SavePaymentIs, Busy, Claimed
<1>3. AtWork(a, r) /\ row[r].delivery = "sending" /\ r \notin found
  BY <1>2, Holder
<1>4. call[a].op \in {"approve", "reject", "resend", "pass"}
  BY <1>2 DEF IInv, CallShape, Busy, Claimed
<1>5. AtWork(a, call[a].req)'
  BY <1>1, <1>3, <1>4
  DEF SavePaymentIs, Busy, Goes, AtWork, Duty, UnpaidBy, TakenBack, Stands, Claimed, Off
<1>6. row[r].status \notin {"absent", "pending"} /\ Kind[r] # "deposit"
  BY <1>1, <1>2, <1>3
  DEF IInv, RowShape, PendingIsClean, AtWork, UnpaidBy, SavePaymentIs, Claimed, Off
<1>7. Settled(r)'
  BY <1>1, <1>2, <1>6 DEF DeskIInv, Settled, PaidFor, Agreed, Standing, SavePaymentIs, Off
<1>8. OnlyOn(r) /\ OtherCalls(a)
  BY <1>1 DEF OnlyOn, Same, SavePaymentIs, Goes, Overlooks
<1> QED
  BY <1>1, <1>2, <1>5, <1>7, <1>8, HolderStep DEF SavePaymentIs

LEMMA DeskRemember ==
    ASSUME IInv, DeskIInv, NEW a \in Actors, NEW r \in Requests, r = call[a].req,
           Remember(a)
    PROVE  DeskIInv'
<1>1. TypeOK
  BY DEF IInv
<1>2. RememberIs(a, r)
  BY <1>1, RememberDoes
<1>3. Busy(a, r) /\ r \in Requests /\ call[a].at \in Claimed
  BY <1>2 DEF RememberIs, Busy, Claimed
<1>4. AtWork(a, r) /\ row[r].delivery = "sending" /\ r \notin found
  BY <1>3, Holder
<1>5. call[a].op \in {"approve", "reject", "resend", "pass"}
  BY <1>3 DEF IInv, CallShape, Busy
<1>6. AtWork(a, call[a].req)'
  BY <1>2, <1>4, <1>5
  DEF RememberIs, RowIs, Busy, Goes, AtWork, Duty, UnpaidBy, TakenBack, Stands, Claimed, Off
<1>7. Settled(r)'
  BY <1>2, <1>3, <1>4 DEF DeskIInv, Settled, PaidFor, Agreed, Standing, RememberIs, RowIs, Off
<1>8. OnlyOn(r) /\ OtherCalls(a)
  BY <1>2 DEF OnlyOn, Same, RememberIs, RowIs, OtherRows, Goes, Overlooks
<1> QED
  BY <1>2, <1>3, <1>6, <1>7, <1>8, HolderStep DEF RememberIs

LEMMA DeskPutBack ==
    ASSUME IInv, DeskIInv, NEW a \in Actors, NEW r \in Requests, r = call[a].req,
           PutBack(a)
    PROVE  DeskIInv'
<1>1. PutBackIs(a, r)
  BY PutBackDoes DEF IInv
<1>2. Busy(a, r) /\ r \in Requests /\ call[a].at \in Claimed
  BY <1>1 DEF PutBackIs, Busy, Claimed
<1>3. AtWork(a, r) /\ row[r].delivery = "sending" /\ r \notin found
  BY <1>2, Holder
<1>4. invoice[r] = {}
  BY <1>1, <1>3 DEF PutBackIs, AtWork, UnpaidBy, Off
<1>5. Settled(r)'
  BY <1>1, <1>2, <1>3, <1>4
  DEF DeskIInv, Settled, PaidFor, Agreed, Standing, PutBackIs, RowIs, Decided, Off
<1>6. OnlyOn(r) /\ OtherCalls(a) /\ call'[a] = Idle
  BY <1>1 DEF OnlyOn, Same, PutBackIs, RowIs, OtherRows, Ends, Overlooks
<1> QED
  BY <1>1, <1>2, <1>5, <1>6, HolderStep DEF PutBackIs

LEMMA DeskSend ==
    ASSUME IInv, DeskIInv, NEW a \in Actors, NEW r \in Requests, r = call[a].req,
           SendAnswered(a) \/ SendLost(a)
    PROVE  DeskIInv'
<1>1. SendIs(a, r)
  BY SendDoes DEF IInv
<1>2. Busy(a, r) /\ r \in Requests /\ call[a].at \in Claimed
  BY <1>1 DEF SendIs, Busy, Claimed
<1>3. AtWork(a, r) /\ row[r].delivery = "sending" /\ r \notin found
  BY <1>2, Holder
<1>4. call[a].op \in {"approve", "reject", "resend", "pass"}
  BY <1>2 DEF IInv, CallShape, Busy
<1>5. portal'[r] # "withdrawn" => portal[r] # "withdrawn"
  BY <1>1 DEF SendIs, DecisionFor
<1>6. portal'[r] # "withdrawn" => DecisionFor(call[a].status) = call[a].status
  BY <1>2, <1>3, <1>5 DEF DecisionFor, AtWork, Stands, Decided
<1>7. AtWork(a, call[a].req)'
  BY <1>1, <1>3, <1>4, <1>5, <1>6
  DEF SendIs, Busy, Goes, AtWork, Duty, UnpaidBy, TakenBack, Stands, Claimed, Off
<1>8. Settled(r)'
  BY <1>1, <1>2, <1>3, <1>5 DEF DeskIInv, Settled, PaidFor, Agreed, Standing, SendIs, Off
<1>9. OnlyOn(r) /\ OtherCalls(a)
  BY <1>1 DEF OnlyOn, Same, SendIs, Goes, Overlooks
<1> QED
  BY <1>1, <1>2, <1>7, <1>8, <1>9, HolderStep DEF SendIs

LEMMA DeskOutcome ==
    ASSUME IInv, DeskIInv, NEW a \in Actors, NEW r \in Requests, r = call[a].req,
           Outcome(a)
    PROVE  DeskIInv'
<1>1. TypeOK
  BY DEF IInv
<1>2. OutcomeIs(a, r)
  BY <1>1, OutcomeDoes
<1>3. Busy(a, r) /\ r \in Requests /\ call[a].at \in Claimed
  BY <1>2 DEF OutcomeIs, Busy, Claimed
<1>4. AtWork(a, r) /\ row[r].delivery = "sending" /\ r \notin found /\ Settled(r)
  BY <1>3, Holder DEF DeskIInv
<1>5. row[r].status \notin {"absent", "pending"}
  BY <1>3, <1>4 DEF IInv, RowShape, PendingIsClean
<1>6. /\ portal'[r] = portal[r] /\ invoice'[r] = invoice[r] /\ overlooked' = overlooked
      /\ found' \subseteq found /\ owed' \subseteq owed /\ r \notin found'
  BY <1>2 DEF OutcomeIs
<1>7. Settled(r)'
  <2>1. CASE /\ call[a].answer = "ok"
             /\ RowIs(r, row[r].status, "delivered", row[r].recorded, row[r].previous)
    BY <1>2, <1>4, <1>5, <1>6, <2>1
    DEF Settled, PaidFor, Agreed, Standing, RowIs, Decided, AtWork, Stands, OutcomeIs, Claimed, Off
  <2>2. CASE \E delivery \in {"failed", "queued"} :
                RowIs(r, row[r].status, delivery, row[r].recorded, row[r].previous)
    BY <1>2, <1>4, <1>5, <1>6, <2>2
    DEF Settled, PaidFor, Agreed, Standing, RowIs, Decided, AtWork, Stands, OutcomeIs, Claimed, Off
  <2>3. CASE RowIs(r, "closed", "failed", row[r].recorded, row[r].previous)
    BY <1>4, <1>6, <2>3 DEF Settled, PaidFor, Agreed, Standing, RowIs, Decided, Off
  <2>4. CASE /\ \/ call[a].op = "approve" /\ Kind[r] = "deposit"
                \/ call[a].op = "reject" /\ Kind[r] # "balance"
             /\ RowIs(r, "pending", "none", row[r].recorded, row[r].previous)
    BY <1>4, <1>6, <2>4
    DEF Settled, PaidFor, Agreed, Standing, RowIs, Decided, AtWork, UnpaidBy, Off
  <2> QED
    BY <1>2, <2>1, <2>2, <2>3, <2>4 DEF OutcomeIs
<1>8. OnlyOn(r) /\ OtherCalls(a) /\ call'[a] = Idle
  BY <1>2 DEF OnlyOn, Same, OutcomeIs, RowIs, OtherRows, Ends, Overlooks
<1> QED
  BY <1>3, <1>6, <1>7, <1>8, HolderStep

\* With one accountant, nobody's work rests on a request nobody holds.
LEMMA DeskQuiet ==
    ASSUME OneDesk, IInv, DeskIInv, NEW a \in Accountants, NEW r \in Requests,
           \A b \in Actors : ~Holds(b, r), NEW b \in Actors, b # a
    PROVE  Quiet(b, r)
<1> SUFFICES ASSUME call[b] # Idle, call[b].req = r PROVE Quiet(b, r)
  BY DEF Quiet
<1>1. AtWork(b, r) /\ call[b] \in Call
  BY DEF DeskIInv, IInv, TypeOK
<1>2. call[b].at \notin Claimed
  BY DEF Holds
<1>3. b \notin Accountants
  BY DEF OneDesk
<1>4. call[b].op \in {"withdraw", "pass"}
  BY <1>1, <1>3 DEF AtWork, Duty
<1> QED
  BY <1>2, <1>4 DEF Quiet

\* A request nobody holds, put aside, taken off or changed by the one accountant.
LEMMA OwnRequestStep ==
    ASSUME OneDesk, IInv, DeskIInv, NEW a \in Accountants, NEW r \in Requests,
           \/ \A b \in Actors : ~Holds(b, r)
           \/ Soft(r),
           OtherCalls(a), OnlyOn(r), call'[a] = Idle \/ AtWork(a, call[a].req)', Settled(r)',
           found' \subseteq found \cup {r}, owed' \subseteq owed
    PROVE  DeskIInv'
<1>1. a \in Actors
  BY DEF Actors
<1>2. \A b \in Actors : \/ call'[b] = Idle
                        \/ call'[b] = call[b] /\ (Quiet(b, r) \/ Soft(r))
                        \/ AtWork(b, call[b].req)'
  BY DeskQuiet DEF OtherCalls
<1> QED
  BY <1>1, <1>2, DeskStep DEF IInv

LEMMA DeskDecide ==
    ASSUME OneDesk, IInv, DeskIInv, NEW a \in Actors, NEW r \in Requests, NEW d \in Decided,
           Decide(a, r, d)
    PROVE  DeskIInv'
<1>1. DecideIs(a, r, d)
  BY DecideDoes DEF IInv
<1>2. row[r].delivery = "none" /\ Off(r) /\ r \notin found'
  BY <1>1 DEF DecideIs, IInv, PendingIsClean, DeskIInv, Settled, PaidFor, Off
<1>3. \A b \in Actors : ~Holds(b, r)
  BY <1>2, NotHeld
<1>4. OnlyOn(r) /\ OtherCalls(a) /\ found' \subseteq found /\ owed' \subseteq owed
  BY <1>1 DEF OnlyOn, Same, DecideIs, RowIs, OtherRows, Begins, Overlooks
<1>5. AtWork(a, call[a].req)'
  BY <1>1, <1>2
  DEF DecideIs, RowIs, Begins, AtWork, Duty, UnpaidBy, TakenBack, Stands, Claimed, Decided, Off
<1>6. Settled(r)'
  BY <1>1, <1>2 DEF DecideIs, RowIs, DeskIInv, Settled, PaidFor, Agreed, Standing, Decided, Off
<1> QED
  BY <1>1, <1>3, <1>4, <1>5, <1>6, OwnRequestStep DEF DecideIs

LEMMA DeskResend ==
    ASSUME OneDesk, IInv, DeskIInv, NEW a \in Actors, NEW r \in Requests, Resend(a, r)
    PROVE  DeskIInv'
<1>1. ResendIs(a, r)
  BY ResendDoes DEF IInv
<1>2. row[r].delivery = "failed" /\ row[r].status \in Decided /\ r \notin found' /\ Settled(r)
  BY <1>1 DEF ResendIs, TurnedDown, DeskIInv
<1>3. \A b \in Actors : ~Holds(b, r)
  BY <1>2, NotHeld
<1>4. OnlyOn(r) /\ OtherCalls(a) /\ found' \subseteq found /\ owed' \subseteq owed
  BY <1>1 DEF OnlyOn, Same, ResendIs, RowIs, OtherRows, Begins, Overlooks
<1>5. AtWork(a, call[a].req)'
  BY <1>1, <1>2
  DEF ResendIs, RowIs, Begins, AtWork, Duty, UnpaidBy, TakenBack, Stands, Claimed, Decided,
      Settled, Agreed, Standing, Off
<1>6. Settled(r)'
  BY <1>1, <1>2 DEF ResendIs, RowIs, Settled, PaidFor, Agreed, Standing, Decided, Off
<1> QED
  BY <1>1, <1>3, <1>4, <1>5, <1>6, OwnRequestStep DEF ResendIs

LEMMA DeskClaim == ASSUME IInv, DeskIInv, NEW r \in Requests, Claim(r) PROVE DeskIInv'
<1>1. ClaimIs(r)
  BY ClaimDoes DEF IInv
<1>2. Settled(r) /\ row[r].delivery \in {"queued", "sending"} /\ r \notin found'
  BY <1>1 DEF ClaimIs, DeskIInv, Settled
<1>3. \A b \in Actors : ~Holds(b, r)
  BY <1>1, NotHeld DEF ClaimIs
<1>4. ASSUME NEW b \in Actors PROVE Quiet(b, r)
  <2>1. call[b] # Idle /\ call[b].req = r => AtWork(b, r) /\ call[b].at \notin Claimed
    BY <1>3 DEF DeskIInv, Holds
  <2> QED
    BY <1>2, <2>1 DEF Quiet, AtWork, UnpaidBy, TakenBack, Stands, Claimed, Off
<1>5. OnlyOn(r) /\ OtherCalls(Worker) /\ found' \subseteq found /\ owed' \subseteq owed
  BY <1>1 DEF OnlyOn, Same, ClaimIs, RowIs, OtherRows, Begins, Overlooks
<1>6. row'[r].status = row[r].status /\ row'[r].recorded = row[r].recorded /\ portal'[r] = portal[r]
  BY <1>1 DEF ClaimIs, RowIs
<1>7. AtWork(Worker, call[Worker].req)'
  BY <1>1, <1>2, <1>6
  DEF ClaimIs, StillToRecord, Begins, AtWork, Duty, UnpaidBy, TakenBack, Stands, Claimed, Decided,
      Settled, Agreed, Off
<1>8. Settled(r)'
  BY <1>1, <1>2 DEF ClaimIs, RowIs, Settled, PaidFor, Agreed, Standing, Decided, Off
<1>9. \A b \in Actors : \/ call'[b] = Idle
                        \/ call'[b] = call[b] /\ Quiet(b, r)
                        \/ AtWork(b, call[b].req)'
  BY <1>4, <1>5, <1>7 DEF OtherCalls
<1> QED
  BY <1>5, <1>8, <1>9, DeskStep DEF IInv

LEMMA DeskFind == ASSUME IInv, DeskIInv, Find PROVE DeskIInv'
<1>1. FindIs
  BY FindDoes
<1>2. \A r \in Requests : Settled(r)'
  BY <1>1 DEF FindIs, DeskIInv, Settled, PaidFor, Agreed, Standing, Off
<1>3. \A b \in Actors : call[b] # Idle => AtWork(b, call[b].req)'
  BY <1>1 DEF FindIs, DeskIInv, AtWork, Duty, UnpaidBy, TakenBack, Stands, Off
<1> QED
  BY <1>1, <1>2, <1>3 DEF FindIs, DeskIInv

LEMMA DeskReopenRead ==
    ASSUME IInv, DeskIInv, NEW a \in Actors, NEW r \in Requests, ReopenRead(a, r) PROVE DeskIInv'
<1>1. a \in Accountants /\ TurnedDown(r) /\ ReadsIs(a, "reopen", "find", r, row[r].status)
  BY ReopenReadDoes DEF IInv
<1>2. AtWork(a, call[a].req)'
  BY <1>1
  DEF ReadsIs, Begins, TurnedDown, AtWork, Duty, UnpaidBy, TakenBack, Stands, Claimed, Off
<1> QED
  BY <1>1, <1>2, OwnStep DEF ReadsIs, Begins, IInv

LEMMA DeskWithdrawRead ==
    ASSUME IInv, DeskIInv, NEW r \in Requests, WithdrawRead(r) PROVE DeskIInv'
<1>1. r \in owed /\ ReadsIs(Portal, "withdraw", "find", r, row[r].status)
  BY WithdrawReadDoes DEF IInv
<1>2. portal[r] = "withdrawn"
  BY <1>1 DEF DeskIInv, Settled
<1>3. AtWork(Portal, call[Portal].req)'
  BY <1>1, <1>2 DEF ReadsIs, Begins, AtWork, Duty, UnpaidBy, TakenBack, Stands, Claimed, Off
<1> QED
  BY <1>1, <1>3, OwnStep DEF ReadsIs, Begins, IInv

LEMMA DeskDeleteRead ==
    ASSUME IInv, DeskIInv, NEW a \in Actors, NEW r \in Requests, DeleteRead(a, r) PROVE DeskIInv'
<1>1. /\ a \in Accountants /\ ReadsIs(a, "delete", "check", r, row[r].status)
      /\ row[r].status \in Decided \cup {"closed"}
      /\ row[r].delivery \in {"none", "failed", "delivered"}
  BY DeleteReadDoes DEF IInv
<1>2. portal[r] # "withdrawn" => row[r].delivery \in {"failed", "delivered"}
  BY <1>1 DEF DeskIInv, Settled, Agreed, Standing
<1>3. AtWork(a, call[a].req)'
  BY <1>1, <1>2 DEF ReadsIs, Begins, AtWork, Duty, UnpaidBy, TakenBack, Stands, Claimed, Off
<1> QED
  BY <1>1, <1>3, OwnStep DEF ReadsIs, Begins, IInv

LEMMA DeskRestoreRead ==
    ASSUME IInv, DeskIInv, NEW a \in Actors, NEW r \in Requests, RestoreRead(a, r) PROVE DeskIInv'
<1>1. /\ a \in Accountants /\ row[r].status = "deleted"
      /\ ReadsIs(a, "restore", "restore", r, row[r].previous)
  BY RestoreReadDoes DEF IInv
<1>2. portal[r] # "withdrawn" => row[r].delivery \in {"failed", "delivered"}
  BY <1>1 DEF DeskIInv, Settled, Agreed
<1>3. AtWork(a, call[a].req)'
  BY <1>1, <1>2 DEF ReadsIs, Begins, AtWork, Duty, UnpaidBy, TakenBack, Stands, Claimed, Off
<1> QED
  BY <1>1, <1>3, OwnStep DEF ReadsIs, Begins, IInv

LEMMA DeskTakeOff ==
    ASSUME OneDesk, IInv, DeskIInv, NEW a \in Actors, NEW r \in Requests, r = call[a].req, TakeOff(a)
    PROVE  DeskIInv'
<1>1. TakeOffIs(a, r)
  BY TakeOffDoes DEF IInv
<1>2. AtWork(a, r) /\ Settled(r) /\ call[a].op \in {"reopen", "withdraw"}
  BY <1>1 DEF DeskIInv, TakeOffIs, Busy, IInv, CallShape
<1>3. OnlyOn(r) /\ OtherCalls(a) /\ found' \subseteq found
  BY <1>1 DEF OnlyOn, Same, TakeOffIs, Goes, Ends, Overlooks
<1>4. call'[a] = Idle \/ AtWork(a, call[a].req)'
  BY <1>1, <1>2
  DEF TakeOffIs, Busy, Goes, Ends, AtWork, Duty, UnpaidBy, TakenBack, Stands, Claimed, Off
<1>5. Settled(r)'
  BY <1>1, <1>2, <1>3 DEF TakeOffIs, Settled, PaidFor, Agreed, Standing, Off
<1>6. CASE call[a].op = "reopen"
  <2>1. a \in Accountants /\ row[r].delivery = "failed"
    BY <1>2, <1>6 DEF AtWork, Duty, TakenBack, Off
  <2> QED
    BY <1>1, <1>3, <1>4, <1>5, <2>1, NotHeld, OwnRequestStep DEF TakeOffIs
<1>7. CASE call[a].op = "withdraw"
  <2>1. Soft(r)
    BY <1>1, <1>2, <1>7 DEF Soft, TakeOffIs, AtWork, TakenBack, Off, Overlooks
  <2>2. \A b \in Actors : \/ call'[b] = Idle
                          \/ call'[b] = call[b] /\ Soft(r)
                          \/ AtWork(b, call[b].req)'
    BY <1>3, <1>4, <2>1 DEF OtherCalls
  <2> QED
    BY <1>1, <1>3, <1>5, <2>2, DeskStep DEF TakeOffIs, IInv
<1> QED
  BY <1>2, <1>6, <1>7

LEMMA DeskReopen ==
    ASSUME OneDesk, IInv, DeskIInv, NEW a \in Actors, NEW r \in Requests, r = call[a].req, Reopen(a)
    PROVE  DeskIInv'
<1>1. ReopenIs(a, r)
  BY ReopenDoes DEF IInv
<1>2. AtWork(a, r) /\ Settled(r)
  BY <1>1 DEF DeskIInv, ReopenIs, Busy
<1>3. a \in Accountants /\ row[r].delivery = "failed" /\ Off(r)
  BY <1>1, <1>2 DEF AtWork, Duty, TakenBack, ReopenIs, Off
<1>4. OnlyOn(r) /\ OtherCalls(a) /\ call'[a] = Idle /\ found' \subseteq found
  BY <1>1 DEF OnlyOn, Same, ReopenIs, RowIs, OtherRows, Ends, Overlooks
<1>5. Settled(r)'
  BY <1>1, <1>2, <1>3 DEF ReopenIs, RowIs, Settled, PaidFor, Agreed, Standing, Decided, Off
<1> QED
  BY <1>1, <1>3, <1>4, <1>5, NotHeld, OwnRequestStep DEF ReopenIs

LEMMA DeskWithdraw ==
    ASSUME IInv, DeskIInv, NEW a \in Actors, NEW r \in Requests, r = call[a].req, Withdraw(a)
    PROVE  DeskIInv'
<1>1. WithdrawIs(a, r)
  BY WithdrawDoes DEF IInv
<1>2. call[a].op = "withdraw" /\ AtWork(a, r) /\ Settled(r)
  BY <1>1 DEF DeskIInv, WithdrawIs, Busy, IInv, CallShape
<1>3. portal[r] = "withdrawn" /\ Soft(r)
  BY <1>1, <1>2 DEF AtWork, TakenBack, WithdrawIs, RowIs, Soft, Off, Overlooks
<1>4. OnlyOn(r) /\ OtherCalls(a) /\ call'[a] = Idle
  BY <1>1 DEF OnlyOn, Same, WithdrawIs, RowIs, OtherRows, Ends, Overlooks
<1>5. Settled(r)'
  BY <1>1, <1>2, <1>3 DEF WithdrawIs, RowIs, Settled, PaidFor, Agreed, Off
<1>6. \A b \in Actors : \/ call'[b] = Idle
                        \/ call'[b] = call[b] /\ Soft(r)
                        \/ AtWork(b, call[b].req)'
  BY <1>3, <1>4 DEF OtherCalls
<1> QED
  BY <1>1, <1>4, <1>5, <1>6, DeskStep DEF WithdrawIs, IInv

\* Deleted or restored: nobody holds it, or CS Portal has rejected it.
LEMMA Settling ==
    ASSUME IInv, NEW a \in Actors, NEW r \in Requests, r = call[a].req, call[a] # Idle, AtWork(a, r),
           call[a].op \in {"delete", "restore"}, UNCHANGED <<invoice, portal, overlooked>>,
           row'[r].delivery = row[r].delivery
    PROVE  (\A b \in Actors : ~Holds(b, r)) \/ Soft(r)
BY NotHeld DEF AtWork, Stands, Soft, Overlooks

LEMMA DeskDelete ==
    ASSUME OneDesk, IInv, DeskIInv, NEW a \in Actors, NEW r \in Requests, r = call[a].req, Delete(a)
    PROVE  DeskIInv'
<1>1. TypeOK
  BY DEF IInv
<1>2. DeleteIs(a, r)
  BY <1>1, DeleteDoes
<1>3. call[a].op = "delete" /\ call[a] # Idle /\ AtWork(a, r) /\ Settled(r)
  BY <1>2 DEF DeskIInv, DeleteIs, Busy, IInv, CallShape
<1>4. call[a].status \in Kept /\ a \in Accountants
  BY <1>3 DEF IInv, CallShape, AtWork, Duty
<1>5. OnlyOn(r) /\ OtherCalls(a) /\ call'[a] = Idle /\ row'[r].delivery = row[r].delivery
  BY <1>2 DEF OnlyOn, Same, DeleteIs, RowIs, OtherRows, Ends, Overlooks
<1>6. Settled(r)'
  BY <1>2, <1>3, <1>4
  DEF DeleteIs, RowIs, Settled, PaidFor, Agreed, Standing, Decided, Kept, AtWork, Stands, Off
<1>7. (\A b \in Actors : ~Holds(b, r)) \/ Soft(r)
  BY <1>2, <1>3, <1>5, Settling DEF DeleteIs
<1> QED
  BY <1>2, <1>4, <1>5, <1>6, <1>7, OwnRequestStep DEF DeleteIs

LEMMA DeskRestore ==
    ASSUME OneDesk, IInv, DeskIInv, NEW a \in Actors, NEW r \in Requests, r = call[a].req, Restore(a)
    PROVE  DeskIInv'
<1>1. TypeOK
  BY DEF IInv
<1>2. RestoreIs(a, r)
  BY <1>1, RestoreDoes
<1>3. call[a].op = "restore" /\ call[a] # Idle /\ AtWork(a, r) /\ Settled(r)
  BY <1>2 DEF DeskIInv, RestoreIs, Busy, IInv, CallShape
<1>4. call[a].status \in Kept /\ a \in Accountants
  BY <1>3 DEF IInv, CallShape, AtWork, Duty
<1>5. OnlyOn(r) /\ OtherCalls(a) /\ call'[a] = Idle /\ row'[r].delivery = row[r].delivery
  BY <1>2 DEF OnlyOn, Same, RestoreIs, RowIs, OtherRows, Ends, Overlooks
<1>6. Settled(r)'
  BY <1>2, <1>3, <1>4
  DEF RestoreIs, RowIs, Settled, PaidFor, Agreed, Standing, Decided, Kept, AtWork, Stands, Off
<1>7. (\A b \in Actors : ~Holds(b, r)) \/ Soft(r)
  BY <1>2, <1>3, <1>5, Settling DEF RestoreIs
<1> QED
  BY <1>2, <1>4, <1>5, <1>6, <1>7, OwnRequestStep DEF RestoreIs

LEMMA DeskIntake == ASSUME IInv, DeskIInv, NEW r \in Requests, Intake(r) PROVE DeskIInv'
<1>1. IntakeIs(r)
  BY IntakeDoes DEF IInv
<1>2. row[r].delivery = "none" /\ r \notin found /\ Settled(r)
  BY <1>1 DEF IntakeIs, IInv, RowShape, DeskIInv
<1>3. ASSUME NEW b \in Actors PROVE Quiet(b, r)
  <2>1. call[b] # Idle /\ call[b].req = r => AtWork(b, r) /\ call[b].at \notin Claimed
    BY <1>2, NotHeld DEF DeskIInv, Holds
  <2> QED
    BY <1>2, <2>1 DEF Quiet, AtWork, UnpaidBy, TakenBack, Stands, Claimed, Off
<1>4. OnlyOn(r)
  BY <1>1 DEF OnlyOn, Same, IntakeIs, RowIs, OtherRows, Overlooks
<1>5. Settled(r)'
  BY <1>1, <1>2 DEF IntakeIs, RowIs, Settled, PaidFor, Agreed, Standing, Decided, Off
<1> QED
  BY <1>1, <1>3, <1>4, <1>5, DeskStep DEF IntakeIs, IInv

LEMMA DeskPortalRejects ==
    ASSUME IInv, DeskIInv, NEW r \in Requests, PortalRejects(r) PROVE DeskIInv'
<1>1. PortalRejectsIs(r)
  BY PortalRejectsDoes DEF IInv
<1>2. Soft(r) /\ OnlyOn(r)
  BY <1>1 DEF PortalRejectsIs, Soft, OnlyOn, Same, Overlooks
<1>3. Settled(r)'
  BY <1>1 DEF PortalRejectsIs, DeskIInv, Settled, PaidFor, Agreed, Off
<1> QED
  BY <1>1, <1>2, <1>3, DeskStep DEF PortalRejectsIs, IInv

\* What only the age of a claim, or an invoice's being void, changes.
LEMMA DeskAround ==
    ASSUME IInv, DeskIInv, NEW r \in Requests, Ages(r) \/ VoidInvoice(r) \/ RestoreInvoice(r)
    PROVE  DeskIInv'
<1>1. OtherCalls(Worker) /\ call'[Worker] = call[Worker] /\ Worker \in Actors
      /\ UNCHANGED <<row, invoice, portal, owed, call, found, overlooked>>
  BY DEF Ages, VoidInvoice, RestoreInvoice, OtherCalls, Actors
<1>2. \A b \in Actors : call'[b] = call[b] /\ Same(r)
  BY <1>1 DEF Same, Overlooks
<1>3. OnlyOn(r) /\ Settled(r)'
  BY <1>1 DEF OnlyOn, Same, DeskIInv, Settled, PaidFor, Agreed, Standing, Off, Overlooks
<1> QED
  BY <1>1, <1>2, <1>3, DeskStep DEF IInv

LEMMA InReq ==
    ASSUME TypeOK, NEW a \in Actors, call[a].at \in Steps PROVE call[a].req \in Requests
BY BusyAt DEF Busy

LEMMA DeskContinue ==
    ASSUME OneDesk, IInv, DeskIInv, NEW a \in Actors, Continue(a) PROVE DeskIInv'
<1>1. CASE SavePayment(a) \/ Remember(a) \/ PutBack(a)
  <2>1. call[a].req \in Requests
    BY <1>1, InReq DEF SavePayment, Remember, PutBack, At, Steps, IInv
  <2> QED
    BY <1>1, <2>1, DeskSavePayment, DeskRemember, DeskPutBack
<1>2. CASE SendAnswered(a) \/ SendLost(a) \/ Outcome(a)
  <2>1. call[a].req \in Requests
    BY <1>2, InReq DEF SendAnswered, SendLost, SendWith, Outcome, At, Steps, IInv
  <2> QED
    BY <1>2, <2>1, DeskSend, DeskOutcome
<1>3. CASE TakeOff(a) \/ Reopen(a) \/ Withdraw(a)
  <2>1. call[a].req \in Requests
    BY <1>3, InReq DEF TakeOff, Reopen, Withdraw, At, Steps, IInv
  <2> QED
    BY <1>3, <2>1, DeskTakeOff, DeskReopen, DeskWithdraw
<1>4. CASE Delete(a) \/ Restore(a)
  <2>1. call[a].req \in Requests
    BY <1>4, InReq DEF Delete, Restore, At, Steps, IInv
  <2> QED
    BY <1>4, <2>1, DeskDelete, DeskRestore
<1> QED
  BY <1>1, <1>2, <1>3, <1>4, DeskReadInvoice, DeskReadBack, DeskLoad, DeskFindPayments,
     DeskDeleteCheck DEF Continue

LEMMA DeskStart ==
    ASSUME OneDesk, IInv, DeskIInv, NEW a \in Actors, NEW r \in Requests, Start(a, r)
    PROVE  DeskIInv'
BY DeskDecide, DeskResend, DeskReopenRead, DeskDeleteRead, DeskRestoreRead DEF Start, Decided

LEMMA NextDesk == ASSUME OneDesk PROVE IInv /\ DeskIInv /\ [Next]_vars => DeskIInv'
<1> SUFFICES ASSUME IInv, DeskIInv, [Next]_vars PROVE DeskIInv'
  OBVIOUS
<1>1. CASE \E a \in Actors : Continue(a) \/ Fail(a)
  BY <1>1, DeskContinue, DeskFail
<1>2. CASE \E a \in Accountants, r \in Requests : Start(a, r)
  BY <1>2, DeskStart DEF Actors
<1>3. CASE \E r \in Requests :
             Intake(r) \/ Claim(r) \/ WithdrawRead(r) \/ PortalRejects(r)
  BY <1>3, DeskIntake, DeskClaim, DeskWithdrawRead, DeskPortalRejects
<1>4. CASE Find
  BY <1>4, DeskFind
<1>5. CASE UNCHANGED vars
  BY <1>5 DEF vars, DeskIInv, AtWork, Duty, UnpaidBy, TakenBack, Stands, Settled, PaidFor, Agreed,
      Standing, Off
<1>6. CASE \E r \in Requests : Ages(r) \/ VoidInvoice(r) \/ RestoreInvoice(r)
  BY <1>6, DeskAround
<1> QED
  BY <1>1, <1>2, <1>3, <1>4, <1>5, <1>6 DEF Next

LEMMA InitDesk == Init => DeskIInv
BY DEF Init, DeskIInv, Settled, PaidFor, Agreed, Standing, Decided, Off

LEMMA DeskInvariance == ASSUME OneDesk PROVE Spec => []DeskIInv
BY InitDesk, NextDesk, Invariance, PTL DEF Spec

\* CS Portal comes to count an approval only by the call of one that sends it.
Recorded == \A r \in Requests : Heard(r) => row[r].recorded # None

LEMMA SendRecorded ==
    ASSUME IInv, DeskIInv, NEW a \in Actors, SendAnswered(a) \/ SendLost(a) PROVE Recorded
<1> DEFINE r == call[a].req
<1>1. SendIs(a, r)
  BY SendDoes DEF IInv
<1>2. AtWork(a, r) /\ call[a].status \in Statuses
  BY <1>1 DEF DeskIInv, SendIs, Busy, Call
<1>3. ASSUME Heard(r) PROVE row[r].recorded # None
  <2>1. portal[r] = "waiting" /\ DecisionFor(call[a].status) = "approved"
    BY <1>1, <1>3 DEF SendIs, Heard
  <2> QED
    BY <1>1, <1>2, <1>3, <2>1 DEF AtWork, Stands, SendIs, Heard, DecisionFor
<1>4. ASSUME NEW q \in Requests, q # r PROVE ~Heard(q)
  BY <1>1, <1>4 DEF SendIs, Heard
<1> QED
  BY <1>3, <1>4 DEF Recorded

LEMMA QuietRecorded == ASSUME portal' = portal PROVE Recorded
BY DEF Recorded, Heard

LEMMA ContinueRecorded ==
    ASSUME IInv, DeskIInv, NEW a \in Actors, Continue(a) PROVE Recorded
<1>1. CASE SendAnswered(a) \/ SendLost(a)
  BY <1>1, SendRecorded
<1>2. CASE ReadInvoice(a) \/ SavePayment(a) \/ ReadBack(a) \/ Remember(a) \/ PutBack(a) \/ Load(a)
  <2>1. portal' = portal
    BY <1>2 DEF ReadInvoice, SavePayment, ReadBack, Remember, PutBack, Load
  <2> QED
    BY <2>1, QuietRecorded
<1>3. CASE Outcome(a)
  <2>1. portal' = portal
    BY <1>3 DEF Outcome
  <2> QED
    BY <2>1, QuietRecorded
<1>4. CASE FindPayments(a) \/ TakeOff(a) \/ Reopen(a) \/ Withdraw(a) \/ DeleteCheck(a)
           \/ Delete(a) \/ Restore(a)
  <2>1. portal' = portal
    BY <1>4 DEF FindPayments, TakeOff, Reopen, Withdraw, DeleteCheck, Delete, Restore
  <2> QED
    BY <2>1, QuietRecorded
<1> QED
  BY <1>1, <1>2, <1>3, <1>4 DEF Continue

LEMMA NextRecorded == ASSUME IInv, DeskIInv, Next PROVE Recorded
<1>1. CASE \E a \in Actors : Continue(a)
  BY <1>1, ContinueRecorded
<1>2. CASE \E a \in Actors : Fail(a)
  <2>1. portal' = portal
    BY <1>2 DEF Fail
  <2> QED
    BY <2>1, QuietRecorded
<1>3. CASE \E a \in Accountants, r \in Requests : Start(a, r)
  <2>1. portal' = portal
    BY <1>3 DEF Start, Decide, Resend, ReopenRead, DeleteRead, RestoreRead
  <2> QED
    BY <2>1, QuietRecorded
<1>4. CASE \E r \in Requests : \/ Intake(r) \/ Claim(r) \/ WithdrawRead(r) \/ Ages(r)
                               \/ VoidInvoice(r) \/ RestoreInvoice(r)
  <2>1. portal' = portal
    BY <1>4 DEF Intake, Claim, WithdrawRead, Ages, VoidInvoice, RestoreInvoice
  <2> QED
    BY <2>1, QuietRecorded
<1>5. CASE \E r \in Requests : PortalRejects(r)
  <2>1. PICK r \in Requests : PortalRejects(r)
    BY <1>5
  <2>2. PortalRejectsIs(r)
    BY <2>1, PortalRejectsDoes DEF IInv
  <2> QED
    BY <2>2 DEF PortalRejectsIs, Recorded, Heard
<1>6. CASE Find
  <2>1. portal' = portal
    BY <1>6 DEF Find
  <2> QED
    BY <2>1, QuietRecorded
<1> QED
  BY <1>1, <1>2, <1>3, <1>4, <1>5, <1>6 DEF Next

----------------------------------------------------------------------------
\* With one accountant at a time a request that waits for a decision has no
\* payment on an invoice: put back, refused or reopened, the money is off it
\* (recordAndDecide, reopenTetraDeposit), unless the reopen looked for it while
\* the invoice was void (takeOffRecordedPayments does not see it there).
THEOREM NothingPaidYet == ASSUME OneDesk PROVE Spec => []PendingHasNoPayment
<1>1. DeskIInv => PendingHasNoPayment
  BY DEF DeskIInv, Settled, PaidFor, PendingHasNoPayment, Off
<1> QED
  BY <1>1, DeskInvariance, PTL

\* With one accountant at a time what finance shows as delivered is what CS
\* Portal has, through lost answers, deaths, deletions and restores, unless CS
\* Portal has rejected it since (deliverDecision, restoreTetraDeposit).
THEOREM DeliveredIsTaken == ASSUME OneDesk PROVE Spec => []DeliveredAgrees
<1>1. DeskIInv => DeliveredAgrees
  BY DEF DeskIInv, Settled, Agreed, Standing, Decided, DeliveredAgrees
<1> QED
  BY <1>1, DeskInvariance, PTL

\* With one accountant at a time, and until CS Portal rejects the request, a
\* decision is somewhere in its delivery, and a deleted request's has ended
\* (deleteTetraDeposit's condition).
THEOREM DecisionStaysSomewhere == ASSUME OneDesk PROVE Spec => []NoDecisionLost
<1>1. DeskIInv => NoDecisionLost
  BY DEF DeskIInv, Settled, Agreed, NoDecisionLost
<1> QED
  BY <1>1, DeskInvariance, PTL

\* With one accountant at a time CS Portal hears of an approval only once the
\* request remembers its payment, whoever sends it and whoever died before
\* (the order of decideTetraDeposit; the worker's own recording).
THEOREM RecordedBeforeHeard == ASSUME OneDesk PROVE Spec => HeardAfterRecorded
<1>1. IInv /\ DeskIInv /\ [Next]_vars => [Recorded]_vars
  <2>1. IInv /\ DeskIInv /\ Next => Recorded
    BY NextRecorded
  <2> QED
    BY <2>1
<1>2. Recorded <=> \A r \in Requests : Heard(r) => row[r].recorded # None
  BY DEF Recorded
<1> QED
  BY <1>1, <1>2, Invariance, DeskInvariance, PTL DEF Spec, HeardAfterRecorded
=============================================================================
