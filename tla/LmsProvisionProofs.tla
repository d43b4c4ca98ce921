------------------------- MODULE LmsProvisionProofs -------------------------
(***************************************************************************)
(* What LmsProvision guarantees for any number of invoices and callers, of *)
(* changes of what is paid and of deaths: the types, that the other course *)
(* is told as much as the first, that a Forex student is not passed over,  *)
(* and that news is let go of only when the LMS has it or refuses it.      *)
(*                                                                         *)
(* All rest on one invariant.  A row is made once (QueuedOnce), so the row *)
(* a pass works on is the one it found; and of that row the pass alone     *)
(* writes most fields, so what it read of them still stands (JobAgrees).   *)
(***************************************************************************)
EXTENDS LmsProvision, TLAPS

\* A call that is to make the invoice's row.
Creating(c, i) == call[c] # Idle /\ call[c].inv = i /\ call[c].at \in {"exists", "create"}

Queued(i) == invoice[i].state # "draft" /\ \A c \in Callers : ~Creating(c, i)

\* An invoice's row is made once at most.
QueuedOnce ==
    \A i \in Invoices :
        /\ row[i].status # "none" \/ Working(i) => Queued(i)
        /\ invoice[i].state = "draft" => \A c \in Callers : ~Creating(c, i)
        /\ \A c, d \in Callers : Creating(c, i) /\ Creating(d, i) => c = d

\* There is no news for a row not made, and the other course follows the first.
Shaped(r) == /\ r.status = "none" => r.pending = Unset
             /\ r.other = "sent" => r.status = "sent"

RowShape == \A i \in Invoices : Shaped(row[i])

\* The other course was told as much, or more news or a refusal stands between.
Following(r) ==
    r.other = "sent" => \/ r.pending # Unset \/ r.refused \/ r.otherError
                        \/ r.otherSent >= r.sent

Follows == \A i \in Invoices : Following(row[i])

\* What the worker knows of the row it works on, from one await to the next.
JobAgrees ==
    job # Idle =>
        LET r == row[job.inv] IN
        /\ job.at \in {"provision", "save"} => r.status \in {"pending", "none"} /\ r.other # "sent"
        /\ job.at \notin {"provision", "save"} => r.status = "sent"
        /\ job.at \in {"reread", "raise"} => r.other # "sent"
        /\ job.at = "raise" => job.latest \in Ranks
        /\ job.at = "other" => job.row.sent = r.sent
        /\ job.at \in {"access", "tellOther"} =>
              job.row.other = r.other /\ job.row.otherSent = r.otherSent
        /\ job.at \in {"access", "tellOther", "clear", "refuse"} =>
              job.row.pending \in Ranks /\ r.pending \in Ranks
        /\ job.at \in {"tellOther", "clear"} => lms[job.inv].first >= job.row.pending
        /\ job.at = "clear" => \/ r.other # "sent" \/ r.otherError
                               \/ r.otherSent >= job.row.pending

Unskipping(i) == job # Idle /\ job.inv = i /\ job.at = "unskip"

Unskips ==
    "other" \in Forex /\ faults = 0 =>
        \A i \in Invoices :
            row[i].other = "sent" /\ row[i].commission = "skipped" => Unskipping(i)

IInv == TypeOK /\ QueuedOnce /\ RowShape /\ Follows /\ JobAgrees /\ Unskips

LEMMA InitIInv == Init => IInv
<1> SUFFICES ASSUME Init PROVE IInv
  OBVIOUS
<1>1. NoRow \in Row
  BY DEF NoRow, Row, Told, Unset
<1>2. TypeOK
  BY <1>1, BoundsAssumption DEF Init, TypeOK, Told, Unset
<1>3. QueuedOnce /\ RowShape /\ Follows /\ JobAgrees /\ Unskips
  BY DEF Init, QueuedOnce, Queued, Creating, Working, RowShape, Shaped, Follows, Following,
         JobAgrees, Unskips, NoRow, Idle, Unset
<1> QED
  BY <1>2, <1>3 DEF IInv

----------------------------------------------------------------------------
(* How a row, a call and the job change. *)

OtherRows(i) == \A j \in Invoices : j # i => row'[j] = row[j]

LEMMA RowSet ==
    ASSUME TypeOK, NEW i \in Invoices, NEW new \in Row, row' = [row EXCEPT ![i] = new]
    PROVE  row' \in [Invoices -> Row] /\ row'[i] = new /\ OtherRows(i)
BY DEF TypeOK, OtherRows

LEMMA CallSet ==
    ASSUME TypeOK, NEW c \in Callers, NEW new \in Call \cup {Idle},
           call' = [call EXCEPT ![c] = new]
    PROVE  /\ call' \in [Callers -> Call \cup {Idle}] /\ call'[c] = new
           /\ \A d \in Callers : d # c => call'[d] = call[d]
BY DEF TypeOK

LEMMA JobTyped ==
    ASSUME TypeOK, job # Idle
    PROVE  job \in Job /\ job.inv \in Invoices /\ job.row \in Row /\ row[job.inv] \in Row
BY DEF TypeOK, Job

Steps == {"provision", "save", "reread", "raise", "other", "unskip", "access",
          "tellOther", "clear", "refuse", "student"}

\* The job goes on to another step.
On(step) == /\ job' \in Job /\ job' # Idle /\ job'.at = step /\ job'.inv = job.inv
            /\ job'.row = job.row

LEMMA GoStep == ASSUME TypeOK, job # Idle, NEW step \in Steps, Go(step) PROVE On(step)
<1>1. job \in Job
  BY JobTyped
<1> QED
  BY <1>1 DEF Go, On, Job, Idle, Steps

\* What a step of the worker has to leave: of the row it works on, and of itself.
LEMMA WorkerStep ==
    ASSUME IInv, job # Idle, UNCHANGED <<invoice, call>>,
           row' \in [Invoices -> Row], OtherRows(job.inv),
           lms' \in [Invoices -> [first : Told, other : Told]],
           faults' \in 0..MaxFaults, faults' = 0 => faults = 0,
           job' \in Job \cup {Idle}, job' # Idle => job'.inv = job.inv,
           Shaped(row'[job.inv]), Following(row'[job.inv]), JobAgrees',
           \/ faults' # 0 \/ "other" \notin Forex
           \/ row'[job.inv].other # "sent" \/ row'[job.inv].commission # "skipped"
           \/ job' # Idle /\ job'.at = "unskip"
    PROVE  IInv'
<1>1. job.inv \in Invoices
  BY JobTyped DEF IInv
<1>2. TypeOK'
  BY DEF IInv, TypeOK
<1>3. QueuedOnce'
  BY DEF IInv, QueuedOnce, Queued, Creating, Working, OtherRows
<1>4. RowShape' /\ Follows'
  BY DEF IInv, RowShape, Follows, OtherRows
<1>5. Unskips'
  <2> SUFFICES ASSUME "other" \in Forex, faults' = 0, NEW i \in Invoices,
                      row'[i].other = "sent", row'[i].commission = "skipped"
               PROVE  Unskipping(i)'
    BY DEF Unskips
  <2>1. i = job.inv
    BY DEF IInv, Unskips, Unskipping, OtherRows
  <2> QED
    BY <2>1 DEF Unskipping
<1> QED
  BY <1>2, <1>3, <1>4, <1>5 DEF IInv

----------------------------------------------------------------------------
(* The calls nobody awaits, and what people do. *)

\* What may become of a row between two steps of the worker.
Meanwhile(i) ==
    LET r == row[i]
        s == row'[i] IN
    \/ s = r
    \/ r.status # "sent" /\ s = NoRow
    \/ /\ r.status = "none" /\ ~Working(i)
       /\ s.status \in {"pending", "unmapped"} /\ s.other # "sent"
    \/ /\ r.status # "none"
       /\ s.status = r.status /\ s.sent = r.sent /\ s.other = r.other /\ s.otherSent = r.otherSent
       /\ s.otherError = r.otherError /\ s.commission = r.commission
       /\ s.pending \in Ranks \/ (s.pending = r.pending /\ s.refused = r.refused)

LEMMA MeanwhileStep ==
    ASSUME IInv, TypeOK', QueuedOnce', UNCHANGED <<lms, job>>, faults' = 0 => faults = 0,
           \A i \in Invoices : Meanwhile(i)
    PROVE  IInv'
<1>1. RowShape' /\ Follows'
  <2> SUFFICES ASSUME NEW i \in Invoices PROVE Shaped(row'[i]) /\ Following(row'[i])
    BY DEF RowShape, Follows
  <2>1. Shaped(row[i]) /\ Following(row[i]) /\ Meanwhile(i)
    BY DEF IInv, RowShape, Follows
  <2> QED
    BY <2>1 DEF Meanwhile, Shaped, Following, NoRow, Ranks, Unset
<1>2. JobAgrees'
  <2> SUFFICES ASSUME job # Idle PROVE JobAgrees'
    BY DEF JobAgrees
  <2>1. job.inv \in Invoices /\ Meanwhile(job.inv) /\ Working(job.inv)
    BY JobTyped DEF IInv, Working
  <2>2. UNCHANGED lms /\ UNCHANGED job /\ JobAgrees
    BY DEF IInv
  <2> QED
    BY <2>1, <2>2 DEF JobAgrees, Meanwhile, NoRow
<1>3. Unskips'
  <2> SUFFICES ASSUME "other" \in Forex, faults' = 0, NEW i \in Invoices,
                      row'[i].other = "sent", row'[i].commission = "skipped"
               PROVE  Unskipping(i)'
    BY DEF Unskips
  <2>1. row[i].other = "sent" /\ row[i].commission = "skipped"
    BY DEF Meanwhile, NoRow
  <2>2. Unskipping(i)
    BY <2>1 DEF IInv, Unskips
  <2> QED
    BY <2>2 DEF Unskipping
<1> QED
  BY <1>1, <1>2, <1>3 DEF IInv

\* A call starts, or goes on, about an invoice; it makes a row only if the
\* invoice was a draft or the call was already to make it.
LEMMA CallGoes ==
    ASSUME TypeOK, QueuedOnce, NEW c \in Callers, NEW new \in Call \cup {Idle},
           call' = [call EXCEPT ![c] = new], UNCHANGED job,
           \A i \in Invoices :
              /\ invoice'[i].state = "draft" => invoice[i].state = "draft"
              /\ row'[i].status # "none" => row[i].status # "none" \/ Creating(c, i),
           \A i \in Invoices :
              new # Idle /\ new.inv = i /\ new.at \in {"exists", "create"} =>
                 \/ Creating(c, i) /\ row'[i].status = "none"
                 \/ invoice[i].state = "draft" /\ invoice'[i].state # "draft" /\ row'[i].status = "none",
           \A i \in Invoices : row[i].status = "none" /\ row'[i].status # "none" =>  new = Idle
    PROVE  QueuedOnce' /\ call' \in [Callers -> Call \cup {Idle}]
<1>1. /\ call' \in [Callers -> Call \cup {Idle}] /\ call'[c] = new
      /\ \A d \in Callers : d # c => call'[d] = call[d]
  BY CallSet
<1>2. ASSUME NEW i \in Invoices
      PROVE  /\ row'[i].status # "none" \/ Working(i)' => Queued(i)'
             /\ invoice'[i].state = "draft" => \A d \in Callers : ~Creating(d, i)'
             /\ \A d, e \in Callers : Creating(d, i)' /\ Creating(e, i)' => d = e
  <2>1. \A d \in Callers : d # c => (Creating(d, i)' <=> Creating(d, i))
    BY <1>1 DEF Creating
  <2>2. Creating(c, i)' => \/ Creating(c, i) /\ row'[i].status = "none"
                           \/ /\ invoice[i].state = "draft" /\ invoice'[i].state # "draft"
                              /\ row'[i].status = "none"
    BY <1>1, <1>2 DEF Creating
  <2>3. Working(i)' <=> Working(i)
    BY DEF Working
  <2>4. row[i].status # "none" \/ Working(i) => Queued(i)
    BY <1>2 DEF QueuedOnce
  <2>5. invoice[i].state = "draft" => \A d \in Callers : ~Creating(d, i)
    BY <1>2 DEF QueuedOnce
  <2>6. \A d, e \in Callers : Creating(d, i) /\ Creating(e, i) => d = e
    BY <1>2 DEF QueuedOnce
  <2>7. invoice'[i].state = "draft" => invoice[i].state = "draft"
    BY <1>2
  <2>8. row'[i].status # "none" => row[i].status # "none" \/ (Creating(c, i) /\ ~Creating(c, i)')
    BY <1>1, <1>2 DEF Creating
  <2>9. invoice'[i].state = "draft" => \A d \in Callers : ~Creating(d, i)'
    BY <2>1, <2>2, <2>5, <2>7
  <2>10. \A d, e \in Callers : Creating(d, i)' /\ Creating(e, i)' => d = e
    BY <2>1, <2>2, <2>5, <2>6
  <2>11. ASSUME Working(i) PROVE Queued(i)'
    BY <2>1, <2>2, <2>4, <2>7, <2>11 DEF Queued
  <2>12. ASSUME row'[i].status # "none" PROVE Queued(i)'
    BY <2>1, <2>2, <2>4, <2>5, <2>6, <2>7, <2>8, <2>12 DEF Queued
  <2> QED
    BY <2>3, <2>9, <2>10, <2>11, <2>12
<1> QED
  BY <1>1, <1>2 DEF QueuedOnce

LEMMA StartCall ==
    ASSUME TypeOK, NEW c \in Callers, NEW i \in Invoices, NEW rank \in Ranks,
           NEW at \in {"exists", "read", "stop"}, Start(c, at, i, rank)
    PROVE  \E new \in Call : /\ new # Idle /\ new.at = at /\ new.inv = i
                             /\ call' = [call EXCEPT ![c] = new]
<1> DEFINE new == [at |-> at, inv |-> i, rank |-> rank, sent |-> FALSE]
<1>1. new \in Call /\ new # Idle /\ new.at = at /\ new.inv = i
  BY DEF Call, Idle
<1>2. call' = [call EXCEPT ![c] = new]
  BY DEF Start
<1> HIDE DEF new
<1> QED
  BY <1>1, <1>2

LEMMA InvoiceSet ==
    ASSUME TypeOK, NEW i \in Invoices, NEW new,
           invoice' = [invoice EXCEPT ![i] = new],
           new \in [state : {"draft", "approved", "gone"}, paid : Ranks, changes : 0..MaxChanges]
    PROVE  /\ invoice' \in [Invoices -> [state : {"draft", "approved", "gone"}, paid : Ranks,
                                         changes : 0..MaxChanges]]
           /\ invoice'[i] = new /\ \A j \in Invoices : j # i => invoice'[j] = invoice[j]
BY DEF TypeOK

LEMMA ApproveKeeps ==
    ASSUME IInv, NEW c \in Callers, NEW i \in Invoices, Approve(c, i) PROVE IInv'
<1> DEFINE new == [invoice[i] EXCEPT !.state = "approved"]
<1>1. invoice[i] \in [state : {"draft", "approved", "gone"}, paid : Ranks, changes : 0..MaxChanges]
  BY DEF IInv, TypeOK
<1>2. new \in [state : {"draft", "approved", "gone"}, paid : Ranks, changes : 0..MaxChanges]
      /\ new.state = "approved"
  BY <1>1
<1>3. invoice' = [invoice EXCEPT ![i] = new]
  BY DEF Approve
<1> HIDE DEF new
<1>4. /\ invoice' \in [Invoices -> [state : {"draft", "approved", "gone"}, paid : Ranks,
                                    changes : 0..MaxChanges]]
      /\ invoice'[i].state = "approved" /\ \A j \in Invoices : j # i => invoice'[j] = invoice[j]
  BY <1>2, <1>3, InvoiceSet DEF IInv
<1>5. PICK started \in Call : /\ started # Idle /\ started.at = "exists" /\ started.inv = i
                              /\ call' = [call EXCEPT ![c] = started]
  BY <1>1, StartCall DEF Approve, IInv
<1>6. invoice[i].state = "draft" /\ UNCHANGED <<row, lms, job, faults>>
  BY DEF Approve
<1>7. row[i].status = "none"
  BY <1>6 DEF IInv, QueuedOnce, Queued
<1>8. QueuedOnce' /\ call' \in [Callers -> Call \cup {Idle}]
  BY <1>4, <1>5, <1>6, <1>7, CallGoes DEF IInv
<1>9. TypeOK'
  BY <1>4, <1>6, <1>8 DEF IInv, TypeOK
<1> QED
  BY <1>6, <1>8, <1>9, MeanwhileStep DEF Meanwhile

LEMMA RepaidLeaves ==
    ASSUME TypeOK, NEW i \in Invoices, NEW rank \in Ranks, Repaid(i, rank)
    PROVE  /\ invoice' \in [Invoices -> [state : {"draft", "approved", "gone"}, paid : Ranks,
                                         changes : 0..MaxChanges]]
           /\ \A j \in Invoices : invoice'[j].state = invoice[j].state
<1> DEFINE new == [invoice[i] EXCEPT !.paid = rank, !.changes = @ + 1]
<1>1. invoice[i] \in [state : {"draft", "approved", "gone"}, paid : Ranks, changes : 0..MaxChanges]
      /\ invoice[i].changes < MaxChanges
  BY DEF TypeOK, Repaid
<1>2. new \in [state : {"draft", "approved", "gone"}, paid : Ranks, changes : 0..MaxChanges]
      /\ new.state = invoice[i].state
  <2>1. invoice[i].changes + 1 \in 0..MaxChanges
    BY <1>1, BoundsAssumption
  <2> QED
    BY <1>1, <2>1
<1>3. invoice' = [invoice EXCEPT ![i] = new]
  BY <1>1 DEF Repaid, TypeOK
<1> HIDE DEF new
<1> QED
  BY <1>2, <1>3, InvoiceSet

LEMMA PayKeeps ==
    ASSUME IInv, NEW c \in Callers, NEW i \in Invoices, NEW rank \in Ranks, Pay(c, i, rank)
    PROVE  IInv'
<1>1. /\ invoice' \in [Invoices -> [state : {"draft", "approved", "gone"}, paid : Ranks,
                                    changes : 0..MaxChanges]]
      /\ \A j \in Invoices : invoice'[j].state = invoice[j].state
  BY RepaidLeaves DEF Pay, IInv
<1>2. PICK started \in Call : /\ started # Idle /\ started.at = "read" /\ started.inv = i
                              /\ call' = [call EXCEPT ![c] = started]
  BY StartCall DEF Pay, IInv
<1>3. UNCHANGED <<row, lms, job, faults>>
  BY DEF Pay
<1>4. QueuedOnce' /\ call' \in [Callers -> Call \cup {Idle}]
  BY <1>1, <1>2, <1>3, CallGoes DEF IInv
<1>5. TypeOK'
  BY <1>1, <1>3, <1>4 DEF IInv, TypeOK
<1> QED
  BY <1>3, <1>4, <1>5, MeanwhileStep DEF Meanwhile

LEMMA ChangeKeeps ==
    ASSUME IInv, NEW i \in Invoices, NEW rank \in Ranks, ChangeUntold(i, rank) PROVE IInv'
<1>1. /\ invoice' \in [Invoices -> [state : {"draft", "approved", "gone"}, paid : Ranks,
                                    changes : 0..MaxChanges]]
      /\ \A j \in Invoices : invoice'[j].state = invoice[j].state
  BY RepaidLeaves DEF ChangeUntold, IInv
<1>2. UNCHANGED <<row, lms, call, job, faults>>
  BY DEF ChangeUntold
<1>3. TypeOK' /\ QueuedOnce'
  BY <1>1, <1>2 DEF IInv, TypeOK, QueuedOnce, Queued, Creating, Working
<1> QED
  BY <1>2, <1>3, MeanwhileStep DEF Meanwhile

LEMMA DeleteKeeps ==
    ASSUME IInv, NEW c \in Callers, NEW i \in Invoices, DeleteInvoice(c, i) PROVE IInv'
<1> DEFINE new == [invoice[i] EXCEPT !.state = "gone"]
<1>1. invoice[i] \in [state : {"draft", "approved", "gone"}, paid : Ranks, changes : 0..MaxChanges]
  BY DEF IInv, TypeOK
<1>2. new \in [state : {"draft", "approved", "gone"}, paid : Ranks, changes : 0..MaxChanges]
      /\ new.state = "gone"
  BY <1>1
<1>3. invoice' = [invoice EXCEPT ![i] = new]
  BY DEF DeleteInvoice
<1> HIDE DEF new
<1>4. /\ invoice' \in [Invoices -> [state : {"draft", "approved", "gone"}, paid : Ranks,
                                    changes : 0..MaxChanges]]
      /\ invoice'[i].state = "gone" /\ \A j \in Invoices : j # i => invoice'[j] = invoice[j]
  BY <1>2, <1>3, InvoiceSet DEF IInv
<1>5. PICK started \in Call : /\ started # Idle /\ started.at = "stop" /\ started.inv = i
                              /\ call' = [call EXCEPT ![c] = started]
  BY <1>1, StartCall DEF DeleteInvoice, IInv
<1>6. UNCHANGED <<row, lms, job, faults>>
  BY DEF DeleteInvoice
<1>7. QueuedOnce' /\ call' \in [Callers -> Call \cup {Idle}]
  BY <1>4, <1>5, <1>6, CallGoes DEF IInv
<1>8. TypeOK'
  BY <1>4, <1>6, <1>7 DEF IInv, TypeOK
<1> QED
  BY <1>6, <1>7, <1>8, MeanwhileStep DEF Meanwhile

\* A call that goes on is about an invoice, whose row it finds.
LEMMA CallTyped ==
    ASSUME TypeOK, NEW c \in Callers, call[c] # Idle
    PROVE  call[c] \in Call /\ call[c].inv \in Invoices /\ row[call[c].inv] \in Row
BY DEF TypeOK, Call

LEMMA NoRowTyped == NoRow \in Row
BY DEF NoRow, Row, Told, Unset

\* A call ends, having done with its row what may be done meanwhile.
LEMMA CallEnds ==
    ASSUME IInv, NEW c \in Callers, call[c] # Idle, call' = [call EXCEPT ![c] = Idle],
           UNCHANGED <<invoice, lms, job, faults>>, NEW new \in Row,
           row' = [row EXCEPT ![call[c].inv] = new],
           new.status # "none" => row[call[c].inv].status # "none" \/ Creating(c, call[c].inv),
           Meanwhile(call[c].inv)
    PROVE  IInv'
<1>1. call[c].inv \in Invoices
  BY CallTyped DEF IInv
<1>2. row' \in [Invoices -> Row] /\ row'[call[c].inv] = new /\ OtherRows(call[c].inv)
  BY <1>1, RowSet DEF IInv
<1>3. \A i \in Invoices : row'[i].status # "none" => row[i].status # "none" \/ Creating(c, i)
  BY <1>2 DEF OtherRows
<1>4. QueuedOnce' /\ call' \in [Callers -> Call \cup {Idle}]
  BY <1>3, CallGoes DEF IInv
<1>5. TypeOK'
  BY <1>2, <1>4 DEF IInv, TypeOK
<1>6. \A i \in Invoices : Meanwhile(i)
  BY <1>2 DEF OtherRows, Meanwhile
<1> QED
  BY <1>4, <1>5, <1>6, MeanwhileStep

LEMMA StopKeeps == ASSUME IInv, NEW c \in Callers, Stop(c) PROVE IInv'
<1> DEFINE i == call[c].inv
           new == IF row[i].status = "sent" THEN row[i] ELSE NoRow
<1>1. call[c] # Idle
  BY DEF Stop, Idle
<1>2. i \in Invoices /\ new \in Row
  BY <1>1, CallTyped, NoRowTyped DEF IInv
<1>3. row' = [row EXCEPT ![i] = new]
  BY DEF Stop
<1>4. row'[i] = new
  BY <1>2, <1>3 DEF IInv, TypeOK
<1>5. Meanwhile(i)
  BY <1>4 DEF Meanwhile
<1>6. new.status # "none" => row[i].status # "none"
  BY DEF NoRow
<1> QED
  BY <1>1, <1>2, <1>3, <1>5, <1>6, CallEnds DEF Stop

LEMMA CreateKeeps == ASSUME IInv, NEW c \in Callers, Create(c) PROVE IInv'
<1> DEFINE i == call[c].inv
<1>1. call[c] # Idle /\ Creating(c, i)
  BY DEF Create, Idle, Creating
<1>2. i \in Invoices /\ call[c] \in Call /\ call[c].rank \in Told
  BY <1>1, CallTyped DEF IInv, Call, Told
<1>3. row[i].status = "none" /\ ~Working(i)
  BY <1>1, <1>2 DEF IInv, QueuedOnce, Queued
<1>4. PICK new : /\ row' = [row EXCEPT ![i] = new]
                 /\ \/ new = [NoRow EXCEPT !.status = "unmapped"]
                    \/ \E o \in {"none", "pending"} :
                         new = [NoRow EXCEPT !.status = "pending", !.payload = call[c].rank, !.other = o]
  BY DEF Create
<1>5. new \in Row /\ new.status \in {"pending", "unmapped"} /\ new.other # "sent"
  BY <1>2, <1>4 DEF NoRow, Row, Told, Unset
<1>6. row'[i] = new
  BY <1>2, <1>4 DEF IInv, TypeOK
<1>7. Meanwhile(i)
  BY <1>3, <1>5, <1>6 DEF Meanwhile
<1> QED
  BY <1>1, <1>4, <1>5, <1>7, CallEnds DEF Create

LEMMA SyncWriteKeeps == ASSUME IInv, NEW c \in Callers, SyncWrite(c) PROVE IInv'
<1> DEFINE i == call[c].inv
           r == row[i]
           new == IF r.status = "none" THEN r
                  ELSE IF call[c].sent THEN [r EXCEPT !.pending = call[c].rank, !.refused = FALSE]
                  ELSE [r EXCEPT !.payload = call[c].rank]
<1>1. call[c] # Idle
  BY DEF SyncWrite, Idle
<1>2. i \in Invoices /\ r \in Row /\ call[c].rank \in Ranks
  BY <1>1, CallTyped DEF IInv, Call
<1>3. new \in Row
  BY <1>2 DEF Row, Told
<1>4. row' = [row EXCEPT ![i] = new]
  BY DEF SyncWrite
<1>5. row'[i] = new
  BY <1>2, <1>4 DEF IInv, TypeOK
<1>6. Meanwhile(i)
  <2>1. CASE r.status = "none"
    BY <1>5, <2>1 DEF Meanwhile
  <2>2. CASE r.status # "none" /\ call[c].sent
    BY <1>2, <1>5, <2>2 DEF Meanwhile, Row
  <2>3. CASE r.status # "none" /\ ~call[c].sent
    BY <1>2, <1>5, <2>3 DEF Meanwhile, Row
  <2> QED
    BY <2>1, <2>2, <2>3
<1>7. new.status # "none" => r.status # "none"
  OBVIOUS
<1> HIDE DEF new
<1> QED
  BY <1>1, <1>3, <1>4, <1>6, <1>7, CallEnds DEF SyncWrite

\* A call goes on without a word to the row.
LEMMA CallOn ==
    ASSUME IInv, NEW c \in Callers, NEW new \in Call \cup {Idle}, call[c] # Idle,
           call' = [call EXCEPT ![c] = new], UNCHANGED <<invoice, row, lms, job>>,
           faults' \in 0..MaxFaults, faults' = 0 => faults = 0,
           new # Idle => /\ new.inv = call[c].inv
                         /\ new.at \in {"exists", "create"} => Creating(c, call[c].inv)
    PROVE  IInv'
<1>1. \A i \in Invoices : new # Idle /\ new.inv = i /\ new.at \in {"exists", "create"} =>
         Creating(c, i) /\ row'[i].status = "none"
  BY DEF IInv, QueuedOnce, Queued
<1>2. QueuedOnce' /\ call' \in [Callers -> Call \cup {Idle}]
  BY <1>1, CallGoes DEF IInv
<1>3. TypeOK'
  BY <1>2 DEF IInv, TypeOK
<1> QED
  BY <1>2, <1>3, MeanwhileStep DEF Meanwhile

LEMMA ExistsKeeps == ASSUME IInv, NEW c \in Callers, Exists(c) PROVE IInv'
<1> DEFINE new == IF row[call[c].inv].status = "none" THEN [call[c] EXCEPT !.at = "create"] ELSE Idle
<1>1. call[c] # Idle /\ Creating(c, call[c].inv)
  BY DEF Exists, Idle, Creating
<1>2. call[c] \in Call
  BY <1>1, CallTyped DEF IInv
<1>3. new \in Call \cup {Idle} /\ (new # Idle => new.inv = call[c].inv)
  BY <1>2 DEF Call
<1>4. call' = [call EXCEPT ![c] = new] /\ UNCHANGED <<invoice, row, lms, job, faults>>
      /\ faults \in 0..MaxFaults
  BY DEF Exists, IInv, TypeOK
<1> HIDE DEF new
<1> QED
  BY <1>1, <1>3, <1>4, CallOn

LEMMA SyncReadKeeps == ASSUME IInv, NEW c \in Callers, SyncRead(c) PROVE IInv'
<1> DEFINE r == row[call[c].inv]
           new == IF r.status = "none" \/ call[c].rank <= Known(r) THEN Idle
                  ELSE [call[c] EXCEPT !.at = "write", !.sent = (r.status = "sent")]
<1>1. call[c] # Idle
  BY DEF SyncRead, Idle
<1>2. call[c] \in Call
  BY <1>1, CallTyped DEF IInv
<1>3. new \in Call \cup {Idle} /\ (new # Idle => new.inv = call[c].inv /\ new.at = "write")
  BY <1>2 DEF Call
<1>4. call' = [call EXCEPT ![c] = new] /\ UNCHANGED <<invoice, row, lms, job, faults>>
      /\ faults \in 0..MaxFaults
  BY DEF SyncRead, IInv, TypeOK
<1> HIDE DEF new
<1> QED
  BY <1>1, <1>3, <1>4, CallOn

----------------------------------------------------------------------------
(* The worker. *)

\* A row due is found: not one yet to be made.
LEMMA FindKeeps ==
    ASSUME IInv, NEW i \in Invoices, NEW stage \in {"provision", "other", "access", "student"},
           Find(i, stage)
    PROVE  IInv'
<1>1. row[i] \in Row /\ Shaped(row[i]) /\ UNCHANGED <<invoice, row, lms, call, faults>>
  BY DEF IInv, TypeOK, RowShape, Find
<1>2. job = Idle /\ stage \in DueStages(row[i])
      /\ job' = [at |-> stage, inv |-> i, row |-> row[i], answer |-> "none", latest |-> Unset]
  BY DEF Find
<1>3. /\ stage = "provision" => row[i].status = "pending" /\ row[i].other # "sent"
      /\ stage # "provision" => row[i].status = "sent"
      /\ stage = "access" => row[i].pending \in Ranks
  BY <1>1, <1>2 DEF DueStages, Shaped, Row, Told
<1>4. /\ job' \in Job /\ job' # Idle /\ job'.at = stage /\ job'.inv = i
      /\ job'.row = row[i]
  BY <1>1, <1>2 DEF Job, Idle, Told
<1>5. TypeOK'
  BY <1>1, <1>4 DEF IInv, TypeOK
<1>6. QueuedOnce'
  BY <1>1, <1>3, <1>4 DEF IInv, QueuedOnce, Queued, Creating, Working
<1>7. RowShape' /\ Follows'
  BY <1>1 DEF IInv, RowShape, Follows
<1>8. JobAgrees'
  BY <1>1, <1>3, <1>4 DEF JobAgrees
<1>9. Unskips'
  BY <1>1, <1>2 DEF IInv, Unskips, Unskipping
<1> QED
  BY <1>5, <1>6, <1>7, <1>8, <1>9 DEF IInv

\* The row the worker is at.
LEMMA HereIs ==
    ASSUME IInv, job # Idle
    PROVE  /\ job \in Job /\ job.inv \in Invoices /\ job.row \in Row
           /\ row[job.inv] \in Row /\ Shaped(row[job.inv]) /\ Following(row[job.inv])
           /\ lms[job.inv] \in [first : Told, other : Told]
BY JobTyped DEF IInv, RowShape, Follows, TypeOK

\* What the LMS has open only grows.
LmsGrows == /\ lms' \in [Invoices -> [first : Told, other : Told]]
            /\ \A i \in Invoices : lms'[i].first >= lms[i].first

LEMMA OpensStep ==
    ASSUME IInv, job # Idle, NEW course \in {"first", "other"}, NEW rank \in Told,
           Opens(course, rank)
    PROVE  /\ LmsGrows
           /\ course = "first" => lms'[job.inv].first >= rank
<1> DEFINE old == lms[job.inv]
           new == [old EXCEPT ![course] = Higher(@, rank)]
<1>1. job.inv \in Invoices /\ old \in [first : Told, other : Told]
  BY HereIs
<1>2. lms' = [lms EXCEPT ![job.inv] = new]
  BY DEF Opens, I
<1>3. /\ Higher(old.first, rank) \in Told /\ Higher(old.other, rank) \in Told
      /\ Higher(old.first, rank) >= old.first /\ Higher(old.first, rank) >= rank
  BY <1>1 DEF Higher, Told, Ranks, Unset
<1>4. CASE course = "first"
  <2>1. new \in [first : Told, other : Told] /\ new.first >= old.first /\ new.first >= rank
    BY <1>1, <1>3, <1>4
  <2> HIDE DEF new
  <2>2. \A i \in Invoices : lms[i].first \in Told
    BY DEF IInv, TypeOK
  <2> QED
    BY <1>1, <1>2, <2>1, <2>2 DEF IInv, TypeOK, LmsGrows, Told, Ranks, Unset
<1>5. CASE course = "other"
  <2>1. new \in [first : Told, other : Told] /\ new.first = old.first
    BY <1>1, <1>3, <1>5
  <2> HIDE DEF new
  <2>2. \A i \in Invoices : lms[i].first \in Told
    BY DEF IInv, TypeOK
  <2> QED
    BY <1>1, <1>2, <1>5, <2>1, <2>2 DEF IInv, TypeOK, LmsGrows, Told, Ranks, Unset
<1> QED
  BY <1>4, <1>5

LEMMA LmsStays == ASSUME IInv, UNCHANGED lms PROVE LmsGrows
<1>1. \A i \in Invoices : lms[i].first \in Told
  BY DEF IInv, TypeOK
<1> QED
  BY <1>1 DEF IInv, TypeOK, LmsGrows, Told, Ranks, Unset

LEMMA ArrivesStep ==
    ASSUME IInv, job # Idle, NEW course \in {"first", "other"}, NEW rank \in Told,
           Arrives(course, rank)
    PROVE  LmsGrows
BY OpensStep, LmsStays DEF Arrives

\* A step that leaves the row as it is, but for where the worker is.
LEMMA RowStays ==
    ASSUME IInv, job # Idle, UNCHANGED <<invoice, row, call>>, LmsGrows,
           faults' \in 0..MaxFaults, faults' = 0 => faults = 0,
           job' \in Job \cup {Idle}, job' # Idle => job'.inv = job.inv, JobAgrees',
           job.at = "unskip" => faults' # 0 \/ (job' # Idle /\ job'.at = "unskip")
    PROVE  IInv'
<1>1. row' \in [Invoices -> Row] /\ OtherRows(job.inv)
  BY DEF IInv, TypeOK, OtherRows
<1>2. job.inv \in Invoices /\ Shaped(row[job.inv]) /\ Following(row[job.inv])
  BY HereIs
<1>3. \/ faults # 0 \/ "other" \notin Forex
      \/ row[job.inv].other # "sent" \/ row[job.inv].commission # "skipped"
      \/ job.at = "unskip"
  BY <1>2 DEF IInv, Unskips, Unskipping
<1>4. \/ faults' # 0 \/ "other" \notin Forex
      \/ row'[job.inv].other # "sent" \/ row'[job.inv].commission # "skipped"
      \/ job' # Idle /\ job'.at = "unskip"
  BY <1>3
<1> QED
  BY <1>1, <1>2, <1>4, WorkerStep DEF LmsGrows

LEMMA ProvisionCallKeeps == ASSUME IInv, ProvisionCall PROVE IInv'
<1>1. job # Idle /\ job.at = "provision" /\ UNCHANGED <<invoice, row, call, faults>>
  BY DEF ProvisionCall, At
<1>2. job \in Job /\ job.row \in Row /\ job.row.payload \in Told
  BY <1>1, HereIs DEF Row
<1>3. PICK answer \in {"ok", "refused", "lost"} :
        /\ job' = [job EXCEPT !.at = "save", !.answer = answer]
        /\ \/ answer # "refused" /\ Arrives("first", job.row.payload)
           \/ answer # "ok" /\ UNCHANGED lms
  BY DEF ProvisionCall
<1>4. LmsGrows
  BY <1>1, <1>2, <1>3, ArrivesStep, LmsStays
<1>5. job' \in Job /\ job' # Idle /\ job'.at = "save" /\ job'.inv = job.inv
  BY <1>2, <1>3 DEF Job, Idle
<1>6. JobAgrees'
  BY <1>1, <1>5 DEF IInv, JobAgrees
<1>7. faults \in 0..MaxFaults
  BY DEF IInv, TypeOK
<1> QED
  BY <1>1, <1>4, <1>5, <1>6, <1>7, RowStays

LEMMA IdleAgrees == ASSUME job' = Idle PROVE JobAgrees' /\ job' \in Job \cup {Idle}
BY DEF JobAgrees

\* The row becomes `new`, and nothing else of what is kept.
LEMMA RowBecomes ==
    ASSUME IInv, job # Idle, UNCHANGED <<invoice, call>>, LmsGrows,
           NEW new \in Row, row' = [row EXCEPT ![job.inv] = new], Shaped(new), Following(new),
           faults' \in 0..MaxFaults, faults' = 0 => faults = 0,
           job' \in Job \cup {Idle}, job' # Idle => job'.inv = job.inv, JobAgrees',
           \/ faults' # 0 \/ "other" \notin Forex \/ new.other # "sent" \/ new.commission # "skipped"
           \/ job' # Idle /\ job'.at = "unskip"
    PROVE  IInv'
<1>1. row' \in [Invoices -> Row] /\ row'[job.inv] = new /\ OtherRows(job.inv)
  BY HereIs, RowSet DEF IInv
<1> QED
  BY <1>1, WorkerStep DEF LmsGrows

LEMMA ProvisionSaveKeeps == ASSUME IInv, ProvisionSave PROVE IInv'
<1> DEFINE r == row[job.inv]
<1>1. job # Idle /\ job.at = "save" /\ UNCHANGED <<invoice, lms, call, faults>>
  BY DEF ProvisionSave, At
<1>2. job \in Job /\ job.row \in Row /\ r \in Row /\ r.other # "sent"
      /\ r.status \in {"pending", "none"} /\ faults \in 0..MaxFaults /\ LmsGrows
  BY <1>1, HereIs, LmsStays DEF IInv, JobAgrees, TypeOK
<1>3. CASE r.status = "none"
  <2>1. job' = Idle /\ UNCHANGED row
    BY <1>3 DEF ProvisionSave, Done, I
  <2> QED
    BY <1>1, <1>2, <2>1, IdleAgrees, RowStays
<1>4. CASE r.status # "none" /\ job.answer = "ok"
  <2> DEFINE new == [r EXCEPT !.status = "sent", !.sent = job.row.payload,
                              !.commission = CommissionOf(job.row)]
  <2>1. CommissionOf(job.row) \in {"none", "pending", "sent", "failed", "skipped"}
        /\ job.row.payload \in Told
    BY <1>2 DEF CommissionOf, Row
  <2>2. row' = [row EXCEPT ![job.inv] = new] /\ Go("reread")
    BY <1>4, <1>1, HereIs DEF ProvisionSave, I, IInv, TypeOK
  <2>3. new \in Row /\ new.other # "sent" /\ new.status = "sent"
    BY <1>2, <2>1 DEF Row
  <2>4. On("reread")
    BY <1>1, <2>2, GoStep DEF IInv, Steps
  <2> HIDE DEF new
  <2>5. row'[job.inv] = new
    BY <1>1, <2>2, <2>3, HereIs, RowSet DEF IInv
  <2>6. JobAgrees'
    BY <2>3, <2>4, <2>5 DEF On, JobAgrees
  <2> QED
    BY <1>1, <1>2, <2>2, <2>3, <2>4, <2>6, RowBecomes DEF Shaped, Following, On
<1>5. CASE r.status # "none" /\ job.answer # "ok"
  <2> DEFINE new == [r EXCEPT !.status = IF job.answer = "refused" THEN "failed" ELSE "pending"]
  <2>1. row' = [row EXCEPT ![job.inv] = new] /\ job' = Idle
    BY <1>5, <1>1, HereIs DEF ProvisionSave, I, IInv, TypeOK, Done
  <2>2. new \in Row /\ new.other # "sent" /\ new.status # "none"
    BY <1>2 DEF Row
  <2> HIDE DEF new
  <2> QED
    BY <1>1, <1>2, <2>1, <2>2, IdleAgrees, RowBecomes DEF Shaped, Following
<1> QED
  BY <1>3, <1>4, <1>5

LEMMA RereadKeeps == ASSUME IInv, Reread PROVE IInv'
<1>1. job # Idle /\ job.at = "reread" /\ UNCHANGED <<invoice, row, lms, call, faults>>
  BY DEF Reread, At
<1>2. job \in Job /\ job.row \in Row /\ row[job.inv] \in Row
      /\ faults \in 0..MaxFaults /\ LmsGrows
  BY <1>1, HereIs, LmsStays DEF IInv, TypeOK
<1>3. CASE row[job.inv].payload > job.row.payload
  <2>1. job' = [job EXCEPT !.at = "raise", !.latest = row[job.inv].payload]
    BY <1>3 DEF Reread, I
  <2>2. row[job.inv].payload \in Ranks
    BY <1>2, <1>3 DEF Row, Told, Unset, Ranks
  <2>3. job' \in Job /\ job' # Idle /\ job'.at = "raise" /\ job'.inv = job.inv /\ job'.latest \in Ranks
    BY <1>2, <2>1, <2>2 DEF Job, Idle, Told
  <2>4. JobAgrees'
    BY <1>1, <2>3 DEF IInv, JobAgrees
  <2> QED
    BY <1>1, <1>2, <2>3, <2>4, RowStays
<1>4. CASE ~(row[job.inv].payload > job.row.payload)
  <2>1. job' = Idle
    BY <1>4 DEF Reread, I
  <2> QED
    BY <1>1, <1>2, <2>1, IdleAgrees, RowStays
<1> QED
  BY <1>3, <1>4

LEMMA RaiseKeeps == ASSUME IInv, Raise PROVE IInv'
<1> DEFINE r == row[job.inv]
           new == [r EXCEPT !.pending = job.latest]
<1>1. job # Idle /\ job.at = "raise" /\ UNCHANGED <<invoice, lms, call, faults>> /\ job' = Idle
  BY DEF Raise, At, Done
<1>2. job \in Job /\ r \in Row /\ r.status = "sent" /\ job.latest \in Ranks /\ r.other # "sent"
      /\ faults \in 0..MaxFaults /\ LmsGrows
  BY <1>1, HereIs, LmsStays DEF IInv, JobAgrees, TypeOK
<1>3. row' = [row EXCEPT ![job.inv] = new]
  BY DEF Raise, I
<1>4. new \in Row /\ new.status = "sent" /\ new.other # "sent"
  BY <1>2 DEF Row, Told
<1> HIDE DEF new
<1> QED
  BY <1>1, <1>2, <1>3, <1>4, IdleAgrees, RowBecomes DEF Shaped, Following

LEMMA MostPaidTyped ==
    ASSUME NEW r \in Row PROVE MostPaid(r) \in Told /\ MostPaid(r) >= r.sent
BY DEF MostPaid, Higher, Row, Told, Ranks, Unset

LEMMA ProvisionOtherKeeps == ASSUME IInv, ProvisionOther PROVE IInv'
<1> DEFINE r == row[job.inv]
           most == MostPaid(job.row)
<1>1. job # Idle /\ job.at = "other" /\ UNCHANGED <<invoice, call, faults>>
  BY DEF ProvisionOther, At
<1>2. job \in Job /\ job.row \in Row /\ r \in Row /\ r.status = "sent" /\ job.row.sent = r.sent
      /\ Following(r) /\ faults \in 0..MaxFaults
  BY <1>1, HereIs DEF IInv, JobAgrees, TypeOK
<1>3. most \in Told /\ most >= r.sent
  BY <1>2, MostPaidTyped
<1> HIDE DEF most
<1>4. CASE /\ Arrives("other", most)
           /\ row' = [row EXCEPT ![job.inv].other = "sent", ![job.inv].otherSent = most,
                                 ![job.inv].otherError = FALSE]
           /\ IF "other" \in Forex THEN Go("unskip") ELSE Done
  <2> DEFINE new == [r EXCEPT !.other = "sent", !.otherSent = most, !.otherError = FALSE]
  <2>1. row' = [row EXCEPT ![job.inv] = new]
    BY <1>1, <1>4, HereIs DEF IInv, TypeOK
  <2>2. new \in Row /\ new.status = "sent" /\ new.otherSent = most /\ new.sent = r.sent
    BY <1>2, <1>3 DEF Row
  <2> HIDE DEF new
  <2>3. Shaped(new) /\ Following(new) /\ LmsGrows
    BY <1>1, <1>3, <1>4, <2>2, ArrivesStep DEF Shaped, Following
  <2>4. row'[job.inv] = new
    BY <1>1, <2>1, <2>2, HereIs, RowSet DEF IInv
  <2>5. CASE "other" \in Forex
    <3>1. On("unskip")
      BY <1>1, <1>4, <2>5, GoStep DEF IInv, Steps
    <3>2. JobAgrees'
      BY <2>2, <2>4, <3>1 DEF On, JobAgrees
    <3> QED
      BY <1>1, <1>2, <2>1, <2>2, <2>3, <3>1, <3>2, RowBecomes DEF On
  <2>6. CASE "other" \notin Forex
    <3>1. job' = Idle
      BY <1>4, <2>6 DEF Done
    <3> QED
      BY <1>1, <1>2, <2>1, <2>2, <2>3, <2>6, <3>1, IdleAgrees, RowBecomes
  <2> QED
    BY <2>5, <2>6
<1>5. CASE /\ row' = [row EXCEPT ![job.inv].other = "failed", ![job.inv].otherError = TRUE]
           /\ Done /\ UNCHANGED lms
  <2> DEFINE new == [r EXCEPT !.other = "failed", !.otherError = TRUE]
  <2>1. row' = [row EXCEPT ![job.inv] = new] /\ job' = Idle /\ LmsGrows
    BY <1>1, <1>5, HereIs, LmsStays DEF IInv, TypeOK, Done
  <2>2. new \in Row /\ new.status = "sent" /\ new.other # "sent"
    BY <1>2 DEF Row
  <2> HIDE DEF new
  <2> QED
    BY <1>1, <1>2, <2>1, <2>2, IdleAgrees, RowBecomes DEF Shaped, Following
<1>6. CASE /\ Arrives("other", most) \/ UNCHANGED lms
           /\ row' = [row EXCEPT ![job.inv].otherError = TRUE]
           /\ Done
  <2> DEFINE new == [r EXCEPT !.otherError = TRUE]
  <2>1. row' = [row EXCEPT ![job.inv] = new] /\ job' = Idle /\ LmsGrows
    BY <1>1, <1>3, <1>6, HereIs, LmsStays, ArrivesStep DEF IInv, TypeOK, Done
  <2>2. /\ new \in Row /\ new.status = "sent" /\ new.otherError
        /\ new.other = r.other /\ new.commission = r.commission
    BY <1>2 DEF Row
  <2> HIDE DEF new
  <2>3. \/ faults # 0 \/ "other" \notin Forex \/ r.other # "sent" \/ r.commission # "skipped"
    BY <1>1, HereIs DEF IInv, Unskips, Unskipping
  <2> QED
    BY <1>1, <1>2, <2>1, <2>2, <2>3, IdleAgrees, RowBecomes DEF Shaped, Following
<1> QED
  BY <1>4, <1>5, <1>6 DEF ProvisionOther, I, most

LEMMA UnskipKeeps == ASSUME IInv, Unskip PROVE IInv'
<1> DEFINE r == row[job.inv]
           new == [r EXCEPT !.commission = IF @ = "skipped" THEN "pending" ELSE @]
<1>1. job # Idle /\ job.at = "unskip" /\ UNCHANGED <<invoice, lms, call, faults>> /\ job' = Idle
  BY DEF Unskip, At, Done
<1>2. r \in Row /\ r.status = "sent" /\ Following(r) /\ faults \in 0..MaxFaults /\ LmsGrows
  BY <1>1, HereIs, LmsStays DEF IInv, JobAgrees, TypeOK
<1>3. row' = [row EXCEPT ![job.inv] = new]
  BY <1>1, HereIs DEF Unskip, I, IInv, TypeOK
<1>4. new \in Row /\ new.commission # "skipped"
  BY <1>2 DEF Row
<1>5. Shaped(new) /\ Following(new)
  BY <1>2 DEF Shaped, Following, Row
<1> HIDE DEF new
<1> QED
  BY <1>1, <1>2, <1>3, <1>4, <1>5, IdleAgrees, RowBecomes

\* While the worker has news to send, the row holds some.
LEMMA NewsIs ==
    ASSUME IInv, job # Idle, job.at \in {"access", "tellOther", "clear", "refuse"}
    PROVE  /\ job \in Job /\ job.row \in Row /\ row[job.inv] \in Row
           /\ row[job.inv].status = "sent" /\ row[job.inv].pending \in Ranks
           /\ News = job.row.pending /\ News \in Ranks /\ News \in Told
           /\ Shaped(row[job.inv]) /\ Following(row[job.inv])
           /\ faults \in 0..MaxFaults
           /\ \/ faults # 0 \/ "other" \notin Forex
              \/ row[job.inv].other # "sent" \/ row[job.inv].commission # "skipped"
<1>1. /\ job \in Job /\ job.row \in Row /\ row[job.inv] \in Row /\ job.inv \in Invoices
      /\ Shaped(row[job.inv]) /\ Following(row[job.inv])
  BY HereIs
<1>2. JobAgrees /\ Unskips /\ faults \in 0..MaxFaults
  BY DEF IInv, TypeOK
<1> QED
  BY <1>1, <1>2 DEF JobAgrees, Unskips, Unskipping, News, Told

LEMMA AccessCallKeeps == ASSUME IInv, AccessCall PROVE IInv'
<1> DEFINE r == row[job.inv]
           next == IF job.row.other = "sent" /\ job.row.otherSent < News THEN "tellOther" ELSE "clear"
<1>1. job # Idle /\ job.at = "access" /\ UNCHANGED <<invoice, row, call, faults>>
  BY DEF AccessCall, At
<1>2. /\ job \in Job /\ job.row \in Row /\ r \in Row /\ r.status = "sent" /\ r.pending \in Ranks
      /\ News = job.row.pending /\ News \in Ranks /\ News \in Told /\ faults \in 0..MaxFaults
      /\ job.row.other = r.other /\ job.row.otherSent = r.otherSent
  BY <1>1, NewsIs DEF IInv, JobAgrees
<1>3. CASE Opens("first", News) /\ Go(next)
  <2>1. LmsGrows /\ lms'[job.inv].first >= News
    BY <1>1, <1>2, <1>3, OpensStep
  <2>2. On(next) /\ next \in {"tellOther", "clear"}
    BY <1>1, <1>3, GoStep DEF IInv, Steps
  <2>3. next = "clear" => r.other # "sent" \/ r.otherSent >= News
    BY <1>2 DEF Row, Told, Ranks, Unset
  <2> HIDE DEF next
  <2>4. JobAgrees'
    BY <1>1, <1>2, <2>1, <2>2, <2>3 DEF On, JobAgrees
  <2> QED
    BY <1>1, <1>2, <2>1, <2>2, <2>4, RowStays DEF On
<1>4. CASE Go("refuse") /\ UNCHANGED lms
  <2>1. On("refuse") /\ LmsGrows
    BY <1>1, <1>4, GoStep, LmsStays DEF IInv, Steps
  <2>2. JobAgrees'
    BY <1>1, <1>2, <2>1 DEF On, JobAgrees
  <2> QED
    BY <1>1, <1>2, <2>1, <2>2, RowStays DEF On
<1>5. CASE Done /\ (Opens("first", News) \/ UNCHANGED lms)
  BY <1>1, <1>2, <1>5, OpensStep, LmsStays, IdleAgrees, RowStays DEF Done
<1> QED
  BY <1>3, <1>4, <1>5 DEF AccessCall

LEMMA TellOtherKeeps == ASSUME IInv, TellOther PROVE IInv'
<1> DEFINE r == row[job.inv]
<1>1. job # Idle /\ job.at = "tellOther" /\ UNCHANGED <<invoice, call, faults>>
  BY DEF TellOther, At
<1>2. /\ job \in Job /\ r \in Row /\ r.status = "sent" /\ r.pending \in Ranks
      /\ News = job.row.pending /\ News \in Ranks /\ News \in Told /\ faults \in 0..MaxFaults
      /\ \/ faults # 0 \/ "other" \notin Forex \/ r.other # "sent" \/ r.commission # "skipped"
  BY <1>1, NewsIs
<1>3. lms[job.inv].first >= News /\ lms[job.inv].first \in Told /\ job.inv \in Invoices
  BY <1>1, <1>2, HereIs DEF IInv, JobAgrees
<1>4. LmsGrows => lms'[job.inv].first >= News
  BY <1>2, <1>3 DEF LmsGrows, Told, Ranks, Unset
<1>5. CASE /\ Opens("other", News)
           /\ row' = [row EXCEPT ![job.inv].otherSent = News, ![job.inv].otherError = FALSE]
           /\ Go("clear")
  <2> DEFINE new == [r EXCEPT !.otherSent = News, !.otherError = FALSE]
  <2>1. row' = [row EXCEPT ![job.inv] = new] /\ LmsGrows /\ On("clear")
    BY <1>1, <1>2, <1>3, <1>5, OpensStep, GoStep DEF IInv, TypeOK, Steps
  <2>2. /\ new \in Row /\ new.status = "sent" /\ new.pending = r.pending /\ new.otherSent = News
        /\ new.other = r.other /\ new.commission = r.commission
    BY <1>2 DEF Row
  <2> HIDE DEF new
  <2>3. row'[job.inv] = new
    BY <1>3, <2>1, <2>2, RowSet DEF IInv
  <2>4. JobAgrees'
    <3>1. News >= News
      BY <1>2 DEF Ranks
    <3> QED
      BY <1>2, <1>4, <2>1, <2>2, <2>3, <3>1 DEF On, JobAgrees
  <2>5. Shaped(new) /\ Following(new)
    BY <1>2, <2>2 DEF Shaped, Following, Ranks, Unset
  <2> QED
    BY <1>1, <1>2, <2>1, <2>2, <2>4, <2>5, RowBecomes DEF On
<1>6. CASE /\ row' = [row EXCEPT ![job.inv].otherError = TRUE]
           /\ Go("clear") /\ UNCHANGED lms
  <2> DEFINE new == [r EXCEPT !.otherError = TRUE]
  <2>1. row' = [row EXCEPT ![job.inv] = new] /\ LmsGrows /\ On("clear")
    BY <1>1, <1>2, <1>3, <1>6, LmsStays, GoStep DEF IInv, TypeOK, Steps
  <2>2. /\ new \in Row /\ new.status = "sent" /\ new.pending = r.pending /\ new.otherError
        /\ new.other = r.other /\ new.commission = r.commission
    BY <1>2 DEF Row
  <2> HIDE DEF new
  <2>3. row'[job.inv] = new
    BY <1>3, <2>1, <2>2, RowSet DEF IInv
  <2>4. JobAgrees'
    BY <1>2, <1>4, <2>1, <2>2, <2>3 DEF On, JobAgrees
  <2>5. Shaped(new) /\ Following(new)
    BY <2>2 DEF Shaped, Following
  <2> QED
    BY <1>1, <1>2, <2>1, <2>2, <2>4, <2>5, RowBecomes DEF On
<1>7. CASE Done /\ UNCHANGED row /\ (Opens("other", News) \/ UNCHANGED lms)
  BY <1>1, <1>2, <1>7, OpensStep, LmsStays, IdleAgrees, RowStays DEF Done
<1> QED
  BY <1>5, <1>6, <1>7 DEF TellOther, I

LEMMA ClearKeeps == ASSUME IInv, Clear PROVE IInv'
<1> DEFINE r == row[job.inv]
           new == [r EXCEPT !.sent = News, !.pending = Unset, !.refused = FALSE]
<1>1. job # Idle /\ job.at = "clear" /\ UNCHANGED <<invoice, lms, call, faults>> /\ job' = Idle
  BY DEF Clear, At, Done
<1>2. /\ r \in Row /\ r.status = "sent" /\ News \in Told /\ faults \in 0..MaxFaults /\ LmsGrows
      /\ \/ faults # 0 \/ "other" \notin Forex \/ r.other # "sent" \/ r.commission # "skipped"
      /\ r.other # "sent" \/ r.otherError \/ r.otherSent >= News
  BY <1>1, NewsIs, LmsStays DEF IInv, JobAgrees
<1>3. row' = [row EXCEPT ![job.inv] = IF r.pending # News THEN r ELSE new]
  BY DEF Clear, I
<1>4. CASE r.pending # News
  <2>1. UNCHANGED row
    BY <1>1, <1>3, <1>4, HereIs DEF IInv, TypeOK
  <2> QED
    BY <1>1, <1>2, <2>1, IdleAgrees, RowStays
<1>5. CASE r.pending = News
  <2>1. /\ new \in Row /\ new.status = "sent" /\ new.sent = News /\ new.otherSent = r.otherSent
        /\ new.other = r.other /\ new.commission = r.commission /\ new.otherError = r.otherError
    BY <1>2 DEF Row, Told
  <2>2. row' = [row EXCEPT ![job.inv] = new]
    BY <1>3, <1>5
  <2> HIDE DEF new
  <2>3. Shaped(new) /\ Following(new)
    BY <1>2, <2>1 DEF Shaped, Following
  <2> QED
    BY <1>1, <1>2, <2>1, <2>2, <2>3, IdleAgrees, RowBecomes
<1> QED
  BY <1>4, <1>5

LEMMA RefuseKeeps == ASSUME IInv, Refuse PROVE IInv'
<1> DEFINE r == row[job.inv]
           new == [r EXCEPT !.pending = Unset, !.refused = TRUE]
<1>1. job # Idle /\ job.at = "refuse" /\ UNCHANGED <<invoice, lms, call, faults>> /\ job' = Idle
  BY DEF Refuse, At, Done
<1>2. /\ r \in Row /\ r.status = "sent" /\ faults \in 0..MaxFaults /\ LmsGrows
      /\ \/ faults # 0 \/ "other" \notin Forex \/ r.other # "sent" \/ r.commission # "skipped"
  BY <1>1, NewsIs, LmsStays
<1>3. row' = [row EXCEPT ![job.inv] = IF r.pending # News THEN r ELSE new]
  BY DEF Refuse, I
<1>4. CASE r.pending # News
  <2>1. UNCHANGED row
    BY <1>1, <1>3, <1>4, HereIs DEF IInv, TypeOK
  <2> QED
    BY <1>1, <1>2, <2>1, IdleAgrees, RowStays
<1>5. CASE r.pending = News
  <2>1. /\ new \in Row /\ new.status = "sent" /\ new.refused
        /\ new.other = r.other /\ new.commission = r.commission
    BY <1>2 DEF Row, Told
  <2>2. row' = [row EXCEPT ![job.inv] = new]
    BY <1>3, <1>5
  <2> HIDE DEF new
  <2>3. Shaped(new) /\ Following(new)
    BY <2>1 DEF Shaped, Following
  <2> QED
    BY <1>1, <1>2, <2>1, <2>2, <2>3, IdleAgrees, RowBecomes
<1> QED
  BY <1>4, <1>5

LEMMA SendStudentKeeps == ASSUME IInv, SendStudent PROVE IInv'
<1> DEFINE r == row[job.inv]
<1>1. job # Idle /\ job.at = "student" /\ UNCHANGED <<invoice, lms, call, faults>> /\ job' = Idle
  BY DEF SendStudent, At, Done
<1>2. r \in Row /\ Shaped(r) /\ Following(r) /\ faults \in 0..MaxFaults /\ LmsGrows
      /\ \/ faults # 0 \/ "other" \notin Forex \/ r.other # "sent" \/ r.commission # "skipped"
  BY <1>1, HereIs, LmsStays DEF IInv, Unskips, Unskipping, TypeOK
<1>3. PICK state \in {"sent", "failed", "pending"} :
         row' = [row EXCEPT ![job.inv].commission = IF @ = "pending" THEN state ELSE @]
  BY DEF SendStudent, I
<1> DEFINE new == [r EXCEPT !.commission = IF @ = "pending" THEN state ELSE @]
<1>4. row' = [row EXCEPT ![job.inv] = new]
  BY <1>1, <1>3, HereIs DEF IInv, TypeOK
<1>5. /\ new \in Row /\ new.other = r.other /\ (new.commission = "skipped" => r.commission = "skipped")
  BY <1>2 DEF Row
<1>6. Shaped(new) /\ Following(new)
  BY <1>2 DEF Shaped, Following, Row
<1> HIDE DEF new
<1> QED
  BY <1>1, <1>2, <1>4, <1>5, <1>6, IdleAgrees, RowBecomes

----------------------------------------------------------------------------
(* What goes wrong, and all of it together. *)

LEMMA FaultStep ==
    ASSUME IInv, NEW x, Fault(x) PROVE faults' \in 0..MaxFaults /\ faults' # 0
BY BoundsAssumption DEF Fault, IInv, TypeOK

LEMMA DieKeeps == ASSUME IInv, NEW x \in Callers \cup {Worker}, Die(x) PROVE IInv'
<1>1. faults' \in 0..MaxFaults /\ faults' # 0 /\ UNCHANGED <<invoice, row, lms>>
  BY FaultStep DEF Die
<1>2. CASE x = Worker
  <2>1. job # Idle /\ job' = Idle /\ UNCHANGED call
    BY <1>2 DEF Die, Done
  <2> QED
    BY <1>1, <2>1, LmsStays, IdleAgrees, RowStays
<1>3. CASE x # Worker
  <2>1. x \in Callers /\ call[x] # Idle /\ call' = [call EXCEPT ![x] = Idle] /\ UNCHANGED job
    BY <1>3 DEF Die
  <2> QED
    BY <1>1, <2>1, CallOn
<1> QED
  BY <1>2, <1>3

LEMMA ThrowsKeeps == ASSUME IInv, Throws PROVE IInv'
<1> DEFINE r == row[job.inv]
<1>1. /\ faults' \in 0..MaxFaults /\ faults' # 0 /\ UNCHANGED <<invoice, lms, call>>
      /\ job # Idle /\ job' = Idle
  BY FaultStep DEF Throws, Done, At
<1>2. r \in Row /\ LmsGrows
  BY <1>1, HereIs, LmsStays
<1>3. CASE /\ At("reread") \/ At("raise")
           /\ row' = [row EXCEPT ![job.inv].status = "pending"]
  <2> DEFINE new == [r EXCEPT !.status = "pending"]
  <2>1. row' = [row EXCEPT ![job.inv] = new]
    BY <1>3
  <2>2. new \in Row /\ new.status = "pending" /\ new.other # "sent"
    BY <1>1, <1>2, <1>3 DEF Row, IInv, JobAgrees, At
  <2> HIDE DEF new
  <2> QED
    BY <1>1, <1>2, <2>1, <2>2, IdleAgrees, RowBecomes DEF Shaped, Following
<1>4. CASE /\ At("unskip")
           /\ row' = [row EXCEPT ![job.inv].other = "pending", ![job.inv].otherError = TRUE]
  <2> DEFINE new == [r EXCEPT !.other = "pending", !.otherError = TRUE]
  <2>1. row' = [row EXCEPT ![job.inv] = new]
    BY <1>1, <1>4, HereIs DEF IInv, TypeOK
  <2>2. new \in Row /\ new.status = "sent" /\ new.other # "sent"
    BY <1>1, <1>2, <1>4 DEF Row, IInv, JobAgrees, At
  <2> HIDE DEF new
  <2> QED
    BY <1>1, <1>2, <2>1, <2>2, IdleAgrees, RowBecomes DEF Shaped, Following
<1> QED
  BY <1>3, <1>4 DEF Throws, I

LEMMA ContinueKeeps == ASSUME IInv, NEW c \in Callers, Continue(c) PROVE IInv'
BY StopKeeps, ExistsKeeps, CreateKeeps, SyncReadKeeps, SyncWriteKeeps DEF Continue

LEMMA WorkKeeps == ASSUME IInv, Work PROVE IInv'
BY ProvisionCallKeeps, ProvisionSaveKeeps, RereadKeeps, RaiseKeeps, ProvisionOtherKeeps,
   UnskipKeeps, AccessCallKeeps, TellOtherKeeps, ClearKeeps, RefuseKeeps, SendStudentKeeps
   DEF Work

LEMMA NextIInv == IInv /\ [Next]_vars => IInv'
<1> SUFFICES ASSUME IInv, [Next]_vars PROVE IInv'
  OBVIOUS
<1>1. CASE Next
  BY <1>1, ApproveKeeps, DeleteKeeps, PayKeeps, ChangeKeeps, ContinueKeeps, FindKeeps, WorkKeeps,
     DieKeeps, ThrowsKeeps DEF Next
<1>2. CASE UNCHANGED vars
  BY <1>2 DEF vars, IInv, TypeOK, QueuedOnce, Queued, Creating, Working, RowShape, Follows,
              JobAgrees, Unskips, Unskipping
<1> QED
  BY <1>1, <1>2

LEMMA Invariance == Spec => []IInv
BY InitIInv, NextIInv, PTL DEF Spec

----------------------------------------------------------------------------
(* What lets go of news. *)

LetsGo(i) == row[i].pending # Unset /\ row'[i].pending = Unset /\ row'[i].status # "none"

LEMMA CallLetsNoneGo ==
    ASSUME IInv, NEW c \in Callers, Continue(c), NEW i \in Invoices PROVE ~LetsGo(i)
<1>1. row \in [Invoices -> Row] /\ Shaped(row[i])
  BY DEF IInv, TypeOK, RowShape
<1>2. CASE Stop(c)
  BY <1>1, <1>2 DEF Stop, LetsGo, NoRow
<1>3. CASE Exists(c) \/ SyncRead(c)
  BY <1>3 DEF Exists, SyncRead, LetsGo
<1>4. CASE Create(c)
  <2>1. Creating(c, call[c].inv)
    BY <1>4 DEF Create, Creating, Idle
  <2>2. call[c].inv = i => row[i].pending = Unset
    BY <1>1, <2>1 DEF IInv, QueuedOnce, Queued, Shaped
  <2>3. call[c].inv # i => row'[i] = row[i]
    BY <1>1, <1>4 DEF Create
  <2> QED
    BY <2>2, <2>3 DEF LetsGo
<1>5. CASE SyncWrite(c)
  <2>1. call[c].rank \in Ranks
    BY <1>5, CallTyped DEF SyncWrite, Idle, IInv, Call
  <2>2. call[c].inv # i => row'[i] = row[i]
    BY <1>1, <1>5 DEF SyncWrite
  <2>3. CASE call[c].inv = i
    BY <1>1, <1>5, <2>1, <2>3 DEF SyncWrite, LetsGo, Row, Ranks, Unset
  <2> QED
    BY <2>2, <2>3 DEF LetsGo
<1> QED
  BY <1>2, <1>3, <1>4, <1>5 DEF Continue

LEMMA WorkLetsGo ==
    ASSUME IInv, Work, NEW i \in Invoices, LetsGo(i)
    PROVE  \/ lms[i].first >= row[i].pending
           \/ At("refuse") /\ News = row[i].pending
<1>1. row \in [Invoices -> Row]
  BY DEF IInv, TypeOK
<1>2. CASE ProvisionCall \/ Reread \/ AccessCall
  BY <1>2 DEF ProvisionCall, Reread, AccessCall, LetsGo
<1>3. CASE ProvisionSave
  BY <1>1, <1>3 DEF ProvisionSave, LetsGo, Row
<1>4. CASE ProvisionOther
  BY <1>1, <1>4 DEF ProvisionOther, LetsGo, Row
<1>5. CASE Unskip \/ SendStudent
  BY <1>1, <1>5 DEF Unskip, SendStudent, LetsGo, Row
<1>6. CASE TellOther
  BY <1>1, <1>6 DEF TellOther, LetsGo, Row
<1>7. CASE Raise
  <2>1. job.latest \in Ranks
    BY <1>7 DEF Raise, At, IInv, JobAgrees
  <2> QED
    BY <1>1, <1>7, <2>1 DEF Raise, LetsGo, Row, Ranks, Unset
<1>8. CASE Clear
  <2>1. i = I /\ row[i].pending = News
    BY <1>1, <1>8 DEF Clear, LetsGo
  <2>2. lms[I].first >= News
    BY <1>8 DEF Clear, At, IInv, JobAgrees, I, News
  <2> QED
    BY <2>1, <2>2
<1>9. CASE Refuse
  <2>1. i = I /\ row[i].pending = News
    BY <1>1, <1>9 DEF Refuse, LetsGo
  <2> QED
    BY <1>9, <2>1 DEF Refuse
<1> QED
  BY <1>2, <1>3, <1>4, <1>5, <1>6, <1>7, <1>8, <1>9 DEF Work

ClearedHere ==
    \A i \in Invoices :
        LetsGo(i) => \/ lms[i].first >= row[i].pending
                     \/ At("refuse") /\ News = row[i].pending

LEMMA NextLetsGo == IInv /\ [Next]_vars => ClearedHere
<1> SUFFICES ASSUME IInv, [Next]_vars, NEW i \in Invoices, LetsGo(i)
             PROVE  \/ lms[i].first >= row[i].pending
                    \/ At("refuse") /\ News = row[i].pending
  BY DEF ClearedHere
<1>1. row' # row
  BY DEF LetsGo
<1>2. ASSUME NEW c \in Callers PROVE ~Continue(c)
  BY <1>2, CallLetsNoneGo
<1>3. ASSUME Throws PROVE FALSE
  <2>1. row \in [Invoices -> Row]
    BY DEF IInv, TypeOK
  <2> QED
    BY <1>3, <2>1 DEF Throws, LetsGo, Row
<1>4. Work
  BY <1>1, <1>2, <1>3 DEF Next, vars, Approve, DeleteInvoice, Pay, ChangeUntold, Find, Die
<1> QED
  BY <1>4, WorkLetsGo

----------------------------------------------------------------------------
(* The theorems. *)

\* Every variable keeps its type.
THEOREM TypeCorrect == Spec => []TypeOK
BY Invariance, PTL DEF IInv

\* Once no news waits and none was refused, the other course has been told of as
\* much of the fee as the first, whichever went first, the news or the course.
THEOREM OtherCourseFollows == Spec => []OtherFollows
<1>1. IInv => OtherFollows
  BY DEF IInv, Follows, Following, OtherFollows
<1> QED
  BY <1>1, Invariance, PTL

\* As long as nothing dies, a student with a Forex course in the LMS is not left
\* passed over by CS Portal.
THEOREM ForexStudentGoes == Spec => []ForexGoes
<1>1. IInv => ForexGoes
  BY DEF IInv, Unskips, Unskipping, ForexGoes, Working
<1> QED
  BY <1>1, Invariance, PTL

\* News is let go of only when the LMS has that much of the course open, or has
\* refused that very news for good.
THEOREM NewsIsSent == Spec => ClearedIsOpen
<1>1. IInv /\ [Next]_vars => [ClearedHere]_vars
  BY NextLetsGo
<1>2. ClearedHere <=> \A i \in Invoices :
         row[i].pending # Unset /\ row'[i].pending = Unset /\ row'[i].status # "none" =>
             \/ lms[i].first >= row[i].pending
             \/ At("refuse") /\ News = row[i].pending
  BY DEF ClearedHere, LetsGo
<1> QED
  BY <1>1, <1>2, Invariance, PTL DEF Spec, ClearedIsOpen
=============================================================================
