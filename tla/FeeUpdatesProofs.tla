-------------------------- MODULE FeeUpdatesProofs ---------------------------
(***************************************************************************)
(* What FeeUpdates guarantees for every set of invoices and calls: a row   *)
(* that says delivered is in CS Portal, and, of an invoice no two calls    *)
(* were about at once, the row holds the money as it is.                   *)
(***************************************************************************)
EXTENDS FeeUpdates, TLAPS

(* The inductive invariant. *)

About(q, i) == call[q] # Idle /\ call[q].inv = i

Writes(q) == call[q] # Idle /\ call[q].at = "write"

\* Nothing is queued, stamped or sent of an invoice whose student was not sent.
AfterStudent ==
    /\ \A i \in Invoices : row[i].state # "none" => i \in student
    /\ \A q \in Queuers : call[q] # Idle /\ call[q].at # "saved" => call[q].inv \in student
    /\ worker # Idle => row[worker.inv].state # "none"

\* A stamp is later than none, and not later than the clock.
StampsGiven ==
    /\ \A i \in Invoices : /\ row[i].stamp <= clock /\ portal[i].stamp <= clock
                           /\ row[i].state # "none" => row[i].stamp > 0
    /\ \A q \in Queuers : Writes(q) => call[q].stamp > 0 /\ call[q].stamp <= clock
    /\ worker # Idle => worker.stamp > 0 /\ worker.stamp <= clock

\* A stamp about to be written is nobody else's.
StampsUnused ==
    \A q \in Queuers : Writes(q) =>
        /\ \A i \in Invoices : call[q].stamp # row[i].stamp /\ call[q].stamp # portal[i].stamp
        /\ worker # Idle => call[q].stamp # worker.stamp
        /\ \A p \in Queuers : Writes(p) /\ p # q => call[p].stamp # call[q].stamp

\* One picture for a stamp, wherever it is.
OnePicture ==
    /\ \A i \in Invoices :
         row[i].state # "none" /\ portal[i].stamp = row[i].stamp => portal[i].picture = row[i].picture
    /\ worker # Idle =>
         /\ row[worker.inv].stamp = worker.stamp => row[worker.inv].picture = worker.picture
         /\ portal[worker.inv].stamp = worker.stamp => portal[worker.inv].picture = worker.picture

\* CS Portal said yes to the worker's picture, or to a newer one before it.
AnsweredIsThere ==
    worker # Idle /\ worker.at = "outcome" /\ worker.answer = "ok" =>
        portal[worker.inv].stamp >= worker.stamp

\* Two calls about an invoice are noticed.
OneCall ==
    \A p, q \in Queuers : \A i \in Invoices \ raced : About(p, i) /\ About(q, i) => p = q

\* The one call holds the money as it is, or is to read it, or will find the
\* invoice gone and nothing queued.
CallIsCurrent ==
    \A q \in Queuers : \A i \in Invoices \ raced : About(q, i) =>
        IF call[q].at \in {"saved", "invoice"} /\ ~call[q].deleted
        THEN money[i].gone => row[i].state = "none"
        ELSE call[q].picture = money[i].version

\* With no call to wait for, the row does.
RowIsCurrent ==
    \A i \in student \ raced :
        (\A q \in Queuers : ~About(q, i)) => row[i].picture = money[i].version \/ NeverTold(i)

\* What the deletion passes is what it left.
DeletedIsCurrent ==
    \A q \in Queuers : \A i \in Invoices \ raced :
        About(q, i) /\ call[q].deleted => call[q].picture = money[i].version

IInv == /\ TypeOK
        /\ AfterStudent /\ StampsGiven /\ StampsUnused
        /\ OnePicture /\ AnsweredIsThere /\ DeliveredIsThere
        /\ OneCall /\ DeletedIsCurrent /\ CallIsCurrent /\ RowIsCurrent

----------------------------------------------------------------------------
(* What the parts of a step do to the records they change. *)

LEMMA CallIsTyped == ASSUME TypeOK, NEW q \in Queuers, call[q] # Idle PROVE call[q] \in Call
BY DEF TypeOK

LEMMA PassIsTyped == ASSUME TypeOK, worker # Idle PROVE worker \in Pass
BY DEF TypeOK

\* A call begins.
Queued(q, i, deleted, version) ==
    /\ call' \in [Queuers -> Call \cup {Idle}] /\ raced' \subseteq Invoices
    /\ call[q] = Idle /\ call'[q] # Idle
    /\ call'[q].at = "saved" /\ call'[q].inv = i
    /\ call'[q].deleted = deleted /\ call'[q].picture = version
    /\ \A p \in Queuers : p # q => call'[p] = call[p]
    /\ raced \subseteq raced'
    /\ \A p \in Queuers : About(p, i) => i \in raced'

LEMMA QueueStep ==
    ASSUME TypeOK, NEW q \in Queuers, NEW i \in Invoices, NEW deleted \in BOOLEAN,
           NEW version \in Pictures, Queue(q, i, deleted, version)
    PROVE  Queued(q, i, deleted, version)
<1> DEFINE new == [at |-> "saved", inv |-> i, deleted |-> deleted, picture |-> version,
                   stamp |-> 0]
<1>1. new \in Call /\ new # Idle
  BY DEF Call, Stamps, Idle
<1>2. call' = [call EXCEPT ![q] = new] /\ call[q] = Idle
  BY DEF Queue
<1>3. call' \in [Queuers -> Call \cup {Idle}] /\ call'[q] = new
  BY <1>1, <1>2 DEF TypeOK
<1>4. \A p \in Queuers : p # q => call'[p] = call[p]
  BY <1>2 DEF TypeOK
<1>5. raced' = raced \cup {call[p].inv : p \in {p \in Queuers : call[p] # Idle /\ call[p].inv = i}}
  BY DEF Queue
<1>6. raced' \subseteq Invoices
  BY <1>5 DEF TypeOK
<1>7. \A p \in Queuers : About(p, i) => i \in raced'
  BY <1>5 DEF About
<1> QED
  BY <1>1, <1>2, <1>3, <1>4, <1>5, <1>6, <1>7 DEF Queued

Stamped(q) ==
    /\ call'[q] \in Call /\ call'[q] # Idle
    /\ call[q] # Idle /\ call[q].at = "stamp"
    /\ call'[q].at = "write" /\ call'[q].stamp = clock + 1
    /\ call'[q].inv = call[q].inv /\ call'[q].deleted = call[q].deleted
    /\ call'[q].picture = call[q].picture
    /\ \A p \in Queuers : p # q => call'[p] = call[p]

LEMMA StampStep ==
    ASSUME TypeOK, NEW q \in Queuers, Stamp(q)
    PROVE  Stamped(q)
<1>1. call[q].at = "stamp" /\ call[q] # Idle
  BY DEF Stamp, Idle
<1>2. call[q] \in Call
  BY <1>1, CallIsTyped
<1>3. call' = [call EXCEPT ![q] = [call[q] EXCEPT !.at = "write", !.stamp = clock + 1]]
  BY DEF Stamp, TypeOK
<1>4. clock + 1 \in Stamps
  BY DEF TypeOK, Stamps
<1>5. call'[q] = [call[q] EXCEPT !.at = "write", !.stamp = clock + 1]
  BY <1>3 DEF TypeOK
<1>6. \A p \in Queuers : p # q => call'[p] = call[p]
  BY <1>3 DEF TypeOK
<1> QED
  BY <1>1, <1>2, <1>4, <1>5, <1>6 DEF Call, Idle, Stamped

\* CS Portal keeps what it has, or takes the worker's picture where that is newer.
Kept(i) == portal'[i] = portal[i]
Taken(i) == /\ portal[i].known /\ worker.stamp > portal[i].stamp
            /\ portal'[i].stamp = worker.stamp /\ portal'[i].picture = worker.picture

Sent ==
    /\ worker # Idle /\ worker \in Pass /\ worker' # Idle /\ worker' \in Pass
    /\ worker'.at = "outcome" /\ worker'.inv = worker.inv
    /\ worker'.picture = worker.picture /\ worker'.stamp = worker.stamp
    /\ \A i \in Invoices : i # worker.inv => Kept(i)
    /\ Kept(worker.inv) \/ Taken(worker.inv)
    /\ worker'.answer = "ok" => portal'[worker.inv].stamp >= worker.stamp
    /\ portal' \in [Invoices -> [known : BOOLEAN, picture : Pictures, stamp : Stamps]]

LEMMA SendStep ==
    ASSUME TypeOK, Send
    PROVE  Sent
<1> DEFINE i == worker.inv
           Portals == [known : BOOLEAN, picture : Pictures, stamp : Stamps]
           newer == [portal[i] EXCEPT !.picture = worker.picture, !.stamp = worker.stamp]
<1>1. worker \in Pass /\ worker # Idle
  BY PassIsTyped DEF Send
<1>2. i \in Invoices /\ portal[i] \in Portals /\ portal \in [Invoices -> Portals]
  BY <1>1 DEF TypeOK, Pass
<1>3. newer \in Portals /\ newer.stamp = worker.stamp /\ newer.picture = worker.picture
      /\ newer.known = portal[i].known
  BY <1>1, <1>2 DEF Pass
<1>4. PICK answer \in {"ok", "unknown", "refused", "lost"} :
        /\ worker' = [worker EXCEPT !.at = "outcome", !.answer = answer]
        /\ portal' \in {portal, [portal EXCEPT ![i] = PortalTakes(portal[i])[1]]}
        /\ answer = "ok" => /\ portal' = [portal EXCEPT ![i] = PortalTakes(portal[i])[1]]
                            /\ PortalTakes(portal[i])[2] = "ok"
  BY <1>1 DEF Send, PortalTakes
<1>5. worker' \in Pass /\ worker' # Idle /\ worker'.at = "outcome" /\ worker'.inv = i
      /\ worker'.picture = worker.picture /\ worker'.stamp = worker.stamp
      /\ worker'.answer = answer
  BY <1>1, <1>4 DEF Pass, Idle
<1>6. PortalTakes(portal[i])[1] = IF portal[i].known /\ worker.stamp > portal[i].stamp
                                  THEN newer ELSE portal[i]
  BY DEF PortalTakes
<1>7. PortalTakes(portal[i])[2] = "ok" => portal[i].known
  BY DEF PortalTakes
<1> HIDE DEF newer, Portals
<1>8. portal' = portal \/ portal' = [portal EXCEPT ![i] = IF portal[i].known /\ worker.stamp > portal[i].stamp
                                                        THEN newer ELSE portal[i]]
  BY <1>4, <1>6
<1>9. \A j \in Invoices : j # i => portal'[j] = portal[j]
  BY <1>2, <1>8
<1>10. \/ portal'[i] = portal[i]
       \/ portal'[i] = newer /\ portal[i].known /\ worker.stamp > portal[i].stamp
  BY <1>2, <1>8
<1>11. portal' \in [Invoices -> Portals]
  BY <1>2, <1>3, <1>8
<1>12. ASSUME answer = "ok" PROVE portal'[i].stamp >= worker.stamp
  <2>1. portal'[i] = IF portal[i].known /\ worker.stamp > portal[i].stamp
                     THEN newer ELSE portal[i]
    BY <1>2, <1>4, <1>6, <1>12
  <2>2. portal[i].known /\ worker.stamp \in Nat /\ portal[i].stamp \in Nat
    BY <1>1, <1>2, <1>4, <1>7, <1>12 DEF Pass, Stamps, Portals
  <2> QED
    BY <1>3, <2>1, <2>2
<1> QED
  BY <1>1, <1>3, <1>5, <1>9, <1>10, <1>11, <1>12 DEF Kept, Taken, Portals, Sent

Claimed(c) ==
    \/ /\ worker = Idle /\ worker' # Idle /\ worker' \in Pass
       /\ worker'.at = "send" /\ worker'.inv = c[1] /\ c[1] \in Invoices
       /\ worker'.picture = row[c[1]].picture /\ worker'.stamp = row[c[1]].stamp
       /\ row[c[1]].state \in {"pending", "sending"}
       /\ row'[c[1]].state = "sending" /\ row' \in [Invoices -> Row]
       /\ row'[c[1]].picture = row[c[1]].picture /\ row'[c[1]].stamp = row[c[1]].stamp
       /\ \A i \in Invoices : i # c[1] => row'[i] = row[i]
       /\ stuck' = stuck \ {c[1]}
    \/ UNCHANGED <<row, stuck, worker>>

LEMMA ClaimStep ==
    ASSUME TypeOK, NEW c \in found, Claim(c)
    PROVE  Claimed(c)
<1> DEFINE i == c[1]
<1>1. i \in Invoices /\ c[2] \in {"pending", "sending"}
  BY DEF TypeOK
<1>2. row[i] \in Row
  BY <1>1 DEF TypeOK
<1>3. CASE row[i].state = c[2] /\ row[i].stamp = c[3]
  <2>1. row' = [row EXCEPT ![i] = [row[i] EXCEPT !.state = "sending"]] /\ stuck' = stuck \ {i}
    BY <1>3 DEF Claim, TypeOK
  <2>2. worker = Idle
        /\ worker' = [at |-> "send", inv |-> i, picture |-> row[i].picture,
                      stamp |-> row[i].stamp, answer |-> "none"]
    BY <1>3 DEF Claim
  <2>3. worker' \in Pass /\ worker' # Idle
    BY <1>1, <1>2, <2>2 DEF Pass, Row, Idle
  <2>4. row' \in [Invoices -> Row] /\ row'[i] = [row[i] EXCEPT !.state = "sending"]
        /\ \A j \in Invoices : j # i => row'[j] = row[j]
    BY <1>1, <1>2, <2>1 DEF TypeOK, Row
  <2> QED
    BY <1>1, <1>2, <1>3, <2>1, <2>2, <2>3, <2>4 DEF Row, Claimed
<1>4. CASE ~(row[i].state = c[2] /\ row[i].stamp = c[3])
  BY <1>4 DEF Claim, Claimed
<1> QED
  BY <1>3, <1>4 DEF Claimed

Settled ==
    /\ worker # Idle /\ worker \in Pass /\ worker.at = "outcome" /\ worker' = Idle
    /\ \A i \in Invoices : i # worker.inv => row'[i] = row[i]
    /\ \/ row' = row
       \/ /\ row[worker.inv].stamp = worker.stamp
          /\ row'[worker.inv].stamp = worker.stamp
          /\ row'[worker.inv].picture = row[worker.inv].picture
          /\ row'[worker.inv].state # "none"
          /\ row'[worker.inv].state = "delivered" => worker.answer = "ok"
    /\ row' \in [Invoices -> Row]

LEMMA OutcomeStep ==
    ASSUME TypeOK, Outcome
    PROVE  Settled
<1> DEFINE i == worker.inv
           new == StateAfter(worker.answer)
<1>1. worker \in Pass /\ worker # Idle /\ worker.at = "outcome" /\ worker' = Idle
  BY PassIsTyped DEF Outcome
<1>2. i \in Invoices /\ row[i] \in Row
  BY <1>1 DEF TypeOK, Pass
<1>3. /\ new \in {"delivered", "stopped", "failed", "pending"}
      /\ new = "delivered" => worker.answer = "ok"
  BY DEF StateAfter
<1> HIDE DEF new
<1>4. CASE row[i].stamp = worker.stamp
  <2>1. row' = [row EXCEPT ![i] = [row[i] EXCEPT !.state = new]]
    BY <1>4 DEF Outcome, TypeOK, new
  <2>2. row'[i] = [row[i] EXCEPT !.state = new]
        /\ \A j \in Invoices : j # i => row'[j] = row[j]
    BY <1>2, <2>1 DEF TypeOK
  <2>3. row'[i] \in Row /\ row'[i].state = new
        /\ row'[i].stamp = row[i].stamp /\ row'[i].picture = row[i].picture
    BY <1>2, <1>3, <2>2 DEF Row
  <2>4. row' \in [Invoices -> Row]
    BY <1>2, <2>1, <2>2, <2>3 DEF TypeOK
  <2> QED
    BY <1>1, <1>3, <1>4, <2>2, <2>3, <2>4 DEF Settled
<1>5. CASE row[i].stamp # worker.stamp
  BY <1>1, <1>5 DEF Outcome, TypeOK, Settled
<1> QED
  BY <1>4, <1>5 DEF Settled

\* A call goes on after a read, or is over.
Provisioned(q) ==
    /\ call[q] \in Call /\ call[q] # Idle /\ call[q].at = "saved"
    /\ \A p \in Queuers : p # q => call'[p] = call[p]
    /\ IF call[q].inv \in student
       THEN /\ call'[q] \in Call /\ call'[q] # Idle /\ call'[q].at = "invoice"
            /\ call'[q].inv = call[q].inv /\ call'[q].deleted = call[q].deleted
            /\ call'[q].picture = call[q].picture
       ELSE call'[q] = Idle

LEMMA ReadProvisionStep ==
    ASSUME TypeOK, NEW q \in Queuers, ReadProvision(q)
    PROVE  Provisioned(q)
<1>1. call[q].at = "saved" /\ call[q] # Idle
  BY DEF ReadProvision, Idle
<1>2. call[q] \in Call
  BY <1>1, CallIsTyped
<1>3. call'[q] = IF call[q].inv \in student THEN [call[q] EXCEPT !.at = "invoice"] ELSE Idle
  BY DEF ReadProvision, TypeOK
<1>4. \A p \in Queuers : p # q => call'[p] = call[p]
  BY DEF ReadProvision, TypeOK
<1>5. CASE call[q].inv \in student
  BY <1>1, <1>2, <1>3, <1>4, <1>5 DEF Call, Idle, Provisioned
<1>6. CASE call[q].inv \notin student
  BY <1>1, <1>2, <1>3, <1>4, <1>6 DEF Provisioned
<1> QED
  BY <1>5, <1>6

MoneyRead(q) ==
    /\ call[q] \in Call /\ call[q] # Idle /\ call[q].at = "invoice"
    /\ \A p \in Queuers : p # q => call'[p] = call[p]
    /\ \/ call'[q] = Idle /\ ~call[q].deleted /\ money[call[q].inv].gone
       \/ /\ call'[q] \in Call /\ call'[q] # Idle /\ call'[q].at = "stamp"
          /\ call'[q].inv = call[q].inv /\ call'[q].deleted = call[q].deleted
          /\ \/ call[q].deleted /\ call'[q].picture = call[q].picture
             \/ ~call[q].deleted /\ call'[q].picture = money[call[q].inv].version

LEMMA ReadMoneyStep ==
    ASSUME TypeOK, NEW q \in Queuers, ReadMoney(q)
    PROVE  MoneyRead(q)
<1> DEFINE version == money[call[q].inv].version
<1>1. call[q].at = "invoice" /\ call[q] # Idle
  BY DEF ReadMoney, Idle
<1>2. call[q] \in Call /\ call[q].inv \in Invoices
  BY <1>1, CallIsTyped DEF Call
<1>3. version \in Pictures
  BY <1>2 DEF TypeOK
<1>4. \A p \in Queuers : p # q => call'[p] = call[p]
  BY DEF ReadMoney, TypeOK
<1>5. CASE call[q].deleted
  <2>1. call'[q] = [call[q] EXCEPT !.at = "stamp"]
    BY <1>5 DEF ReadMoney, TypeOK
  <2> QED
    BY <1>1, <1>2, <1>4, <1>5, <2>1 DEF Call, Idle, MoneyRead
<1>6. CASE ~call[q].deleted /\ money[call[q].inv].gone
  <2>1. call'[q] = Idle
    BY <1>6 DEF ReadMoney, TypeOK
  <2> QED
    BY <1>1, <1>2, <1>4, <1>6, <2>1 DEF MoneyRead
<1>7. CASE ~call[q].deleted /\ ~money[call[q].inv].gone
  <2>1. call'[q] = [call[q] EXCEPT !.at = "stamp", !.picture = version]
    BY <1>7 DEF ReadMoney, TypeOK
  <2> QED
    BY <1>1, <1>2, <1>3, <1>4, <1>7, <2>1 DEF Call, Idle, MoneyRead
<1> QED
  BY <1>5, <1>6, <1>7

----------------------------------------------------------------------------
(* Initially, and step by step: one lemma per action, one step per conjunct *)
(* the action can disturb, and one for those whose variables it leaves.     *)

LEMMA InitIInv == Init => IInv
<1> SUFFICES ASSUME Init PROVE IInv
  OBVIOUS
<1>1. TypeOK
  BY BoundsAssumption DEF Init, TypeOK, Row, Pictures, Stamps
<1>2. worker = Idle /\ \A q \in Queuers : call[q] = Idle
  BY DEF Init
<1>3. AfterStudent /\ StampsGiven /\ StampsUnused /\ OnePicture /\ AnsweredIsThere
  BY <1>2 DEF Init, AfterStudent, StampsGiven, StampsUnused, OnePicture,
      AnsweredIsThere, Writes
<1>4. DeliveredIsThere /\ OneCall /\ CallIsCurrent /\ RowIsCurrent /\ DeletedIsCurrent
  BY <1>2 DEF Init, DeliveredIsThere, OneCall, CallIsCurrent, RowIsCurrent,
      DeletedIsCurrent, About
<1> QED
  BY <1>1, <1>3, <1>4 DEF IInv

LEMMA StepChange ==
    ASSUME IInv, NEW q \in Queuers, NEW i \in Invoices, Change(q, i) PROVE IInv'
<1>1. Queued(q, i, FALSE, 0)
  <2>1. Queue(q, i, FALSE, 0)
    BY DEF Change
  <2>2. 0 \in Pictures
    BY BoundsAssumption DEF IInv, TypeOK, Pictures, Change
  <2> QED
    BY <2>1, <2>2, QueueStep DEF IInv
<1>2. TypeOK'
  <2>1. call' \in [Queuers -> Call \cup {Idle}] /\ raced' \subseteq Invoices
    BY <1>1 DEF Queued
  <2> QED
    BY <2>1, BoundsAssumption DEF IInv, TypeOK, Pictures, Stamps, Change
<1>3. AfterStudent'
  BY DEF IInv, Queue, Change, AfterStudent
<1>4. StampsGiven'
  BY DEF IInv, Writes, Queue, Change, StampsGiven
<1>5. StampsUnused'
  BY DEF IInv, Writes, Queue, Change, StampsUnused
<1>6. OneCall'
  BY <1>1 DEF IInv, About, OneCall, Queued
<1>7. CallIsCurrent'
  BY <1>1 DEF IInv, About, Change, CallIsCurrent, Queued
<1>8. RowIsCurrent'
  <2> SUFFICES ASSUME NEW j \in student \ raced', \A p \in Queuers : ~About(p, j)'
               PROVE  row[j].picture = money'[j].version \/ (money'[j].gone /\ row[j].state = "none")
    BY DEF RowIsCurrent, NeverTold, Change
  <2>1. j # i /\ j \notin raced /\ j \in Invoices
    BY <1>1 DEF Queued, About, IInv, TypeOK
  <2>2. money'[j] = money[j]
    BY <2>1 DEF IInv, TypeOK, Change
  <2>3. \A p \in Queuers : ~About(p, j)
    BY <1>1, <2>1 DEF Queued, About
  <2> QED
    BY <2>1, <2>2, <2>3 DEF IInv, RowIsCurrent, NeverTold
<1>9. DeletedIsCurrent'
  BY <1>1 DEF IInv, About, Change, DeletedIsCurrent, Queued
<1>10. OnePicture' /\ AnsweredIsThere' /\ DeliveredIsThere'
  BY DEF IInv, Change, OnePicture, AnsweredIsThere, DeliveredIsThere
<1> QED
  BY <1>2, <1>3, <1>4, <1>5, <1>6, <1>7, <1>8, <1>9, <1>10 DEF IInv


LEMMA StepDeleteInvoice ==
    ASSUME IInv, NEW q \in Queuers, NEW i \in Invoices, DeleteInvoice(q, i) PROVE IInv'
<1>1. Queued(q, i, TRUE, money[i].version + 1)
  <2>1. Queue(q, i, TRUE, money[i].version + 1)
    BY DEF DeleteInvoice
  <2>2. money[i].version + 1 \in Pictures
    BY BoundsAssumption DEF IInv, TypeOK, Pictures, DeleteInvoice
  <2> QED
    BY <2>1, <2>2, QueueStep DEF IInv
<1>2. TypeOK'
  <2>1. call' \in [Queuers -> Call \cup {Idle}] /\ raced' \subseteq Invoices
    BY <1>1 DEF Queued
  <2> QED
    BY <2>1, BoundsAssumption DEF IInv, TypeOK, Pictures, DeleteInvoice
<1>3. AfterStudent'
  BY DEF IInv, Queue, DeleteInvoice, AfterStudent
<1>4. StampsGiven'
  BY DEF IInv, Writes, Queue, DeleteInvoice, StampsGiven
<1>5. StampsUnused'
  BY DEF IInv, Writes, Queue, DeleteInvoice, StampsUnused
<1>6. OneCall'
  BY <1>1 DEF IInv, About, OneCall, Queued
<1>7. CallIsCurrent'
  BY <1>1 DEF IInv, TypeOK, AfterStudent, About, DeleteInvoice, CallIsCurrent, Queued
<1>8. RowIsCurrent'
  BY <1>1 DEF IInv, About, NeverTold, DeleteInvoice, RowIsCurrent, Queued
<1>9. DeletedIsCurrent'
  BY <1>1 DEF IInv, TypeOK, About, DeleteInvoice, DeletedIsCurrent, Queued
<1>10. OnePicture' /\ AnsweredIsThere' /\ DeliveredIsThere'
  BY DEF IInv, DeleteInvoice, OnePicture, AnsweredIsThere, DeliveredIsThere
<1> QED
  BY <1>2, <1>3, <1>4, <1>5, <1>6, <1>7, <1>8, <1>9, <1>10 DEF IInv


LEMMA StepSendStudent ==
    ASSUME IInv, NEW q \in Queuers, NEW i \in Invoices, SendStudent(q, i) PROVE IInv'
<1>1. Queued(q, i, FALSE, 0)
  <2>1. Queue(q, i, FALSE, 0)
    BY DEF SendStudent
  <2>2. 0 \in Pictures
    BY BoundsAssumption DEF IInv, TypeOK, Pictures, SendStudent
  <2> QED
    BY <2>1, <2>2, QueueStep DEF IInv
<1>2. TypeOK'
  <2>1. call' \in [Queuers -> Call \cup {Idle}] /\ raced' \subseteq Invoices
    BY <1>1 DEF Queued
  <2> QED
    BY <2>1, BoundsAssumption DEF IInv, TypeOK, Pictures, Stamps, SendStudent
<1>3. AfterStudent'
  BY DEF IInv, Queue, SendStudent, AfterStudent
<1>4. StampsGiven'
  BY DEF IInv, TypeOK, Writes, Stamps, Queue, SendStudent, StampsGiven
<1>5. StampsUnused'
  BY DEF IInv, StampsGiven, Writes, Queue, SendStudent, StampsUnused
<1>6. OnePicture'
  BY DEF IInv, StampsGiven, SendStudent, OnePicture
<1>7. AnsweredIsThere'
  BY DEF IInv, AfterStudent, SendStudent, AnsweredIsThere
<1>8. DeliveredIsThere'
  BY DEF IInv, AfterStudent, SendStudent, DeliveredIsThere
<1>9. OneCall'
  BY <1>1 DEF IInv, About, OneCall, Queued
<1>10. CallIsCurrent'
  BY <1>1 DEF IInv, AfterStudent, About, SendStudent, CallIsCurrent, Queued
<1>11. RowIsCurrent'
  BY <1>1 DEF IInv, About, NeverTold, SendStudent, RowIsCurrent, Queued
<1>12. DeletedIsCurrent'
  BY <1>1 DEF IInv, About, SendStudent, DeletedIsCurrent, Queued
<1> QED
  BY <1>2, <1>3, <1>4, <1>5, <1>6, <1>7, <1>8, <1>9, <1>10, <1>11, <1>12 DEF IInv


LEMMA StepReadProvision == ASSUME IInv, NEW q \in Queuers, ReadProvision(q) PROVE IInv'
<1>1. Provisioned(q)
  BY ReadProvisionStep DEF IInv
<1>2. TypeOK'
  <2>1. call' \in [Queuers -> Call \cup {Idle}]
    BY <1>1 DEF Provisioned, IInv, TypeOK, ReadProvision
  <2> QED
    BY <2>1 DEF IInv, TypeOK, ReadProvision
<1>3. AfterStudent'
  BY <1>1 DEF IInv, ReadProvision, AfterStudent
<1>4. StampsGiven'
  BY <1>1 DEF IInv, Writes, ReadProvision, StampsGiven
<1>5. StampsUnused'
  BY <1>1 DEF IInv, Writes, ReadProvision, StampsUnused
<1>6. OneCall'
  BY <1>1 DEF IInv, About, ReadProvision, OneCall, Provisioned
<1>7. CallIsCurrent'
  BY <1>1 DEF IInv, About, ReadProvision, CallIsCurrent, Provisioned
<1>8. RowIsCurrent'
  <2>1. \A p \in Queuers, i \in student : About(p, i) => About(p, i)'
    BY <1>1 DEF Provisioned, About
  <2> QED
    BY <2>1 DEF IInv, RowIsCurrent, NeverTold, ReadProvision
<1>9. DeletedIsCurrent'
  BY <1>1 DEF IInv, About, ReadProvision, DeletedIsCurrent, Provisioned
<1>10. OnePicture' /\ AnsweredIsThere' /\ DeliveredIsThere'
  BY DEF IInv, ReadProvision, OnePicture, AnsweredIsThere, DeliveredIsThere
<1> QED
  BY <1>2, <1>3, <1>4, <1>5, <1>6, <1>7, <1>8, <1>9, <1>10 DEF IInv


LEMMA StepReadMoney == ASSUME IInv, NEW q \in Queuers, ReadMoney(q) PROVE IInv'
<1>1. MoneyRead(q)
  BY ReadMoneyStep DEF IInv
<1>2. TypeOK'
  <2>1. call' \in [Queuers -> Call \cup {Idle}]
    BY <1>1 DEF MoneyRead, IInv, TypeOK, ReadMoney
  <2> QED
    BY <2>1 DEF IInv, TypeOK, ReadMoney
<1>3. AfterStudent'
  BY <1>1 DEF IInv, TypeOK, Call, ReadMoney, AfterStudent, MoneyRead
<1>4. StampsGiven'
  BY <1>1 DEF IInv, Writes, ReadMoney, StampsGiven
<1>5. StampsUnused'
  <2>1. \A p \in Queuers : Writes(p)' => Writes(p) /\ call'[p] = call[p]
    BY <1>1 DEF MoneyRead, Writes
  <2> QED
    BY <2>1 DEF IInv, StampsUnused, ReadMoney
<1>6. OneCall'
  BY <1>1 DEF IInv, About, ReadMoney, OneCall, MoneyRead
<1>7. CallIsCurrent'
  BY <1>1 DEF IInv, AfterStudent, About, ReadMoney, CallIsCurrent, MoneyRead
<1>8. RowIsCurrent'
  <2> SUFFICES ASSUME NEW i \in student \ raced, \A p \in Queuers : ~About(p, i)'
               PROVE  row[i].picture = money[i].version \/ NeverTold(i)
    BY DEF RowIsCurrent, NeverTold, ReadMoney
  <2>1. i \in Invoices
    BY DEF IInv, TypeOK
  <2>2. CASE About(q, i)
    <3>1. money[i].gone /\ ~call[q].deleted /\ call[q].at = "invoice"
      BY <1>1, <2>2 DEF MoneyRead, About
    <3> QED
      BY <2>1, <2>2, <3>1 DEF IInv, CallIsCurrent, NeverTold
  <2>3. CASE ~About(q, i)
    <3>1. \A p \in Queuers : ~About(p, i)
      BY <1>1, <2>3 DEF MoneyRead, About
    <3> QED
      BY <3>1 DEF IInv, RowIsCurrent
  <2> QED
    BY <2>2, <2>3
<1>9. DeletedIsCurrent'
  BY <1>1 DEF IInv, About, ReadMoney, DeletedIsCurrent, MoneyRead
<1>10. OnePicture' /\ AnsweredIsThere' /\ DeliveredIsThere'
  BY DEF IInv, ReadMoney, OnePicture, AnsweredIsThere, DeliveredIsThere
<1> QED
  BY <1>2, <1>3, <1>4, <1>5, <1>6, <1>7, <1>8, <1>9, <1>10 DEF IInv


LEMMA StepStamp == ASSUME IInv, NEW q \in Queuers, Stamp(q) PROVE IInv'
<1>1. Stamped(q)
  BY StampStep DEF IInv
<1>2. TypeOK'
  <2>1. call' \in [Queuers -> Call \cup {Idle}]
    BY <1>1 DEF Stamped, IInv, TypeOK, Stamp
  <2> QED
    BY <2>1 DEF IInv, TypeOK, Stamps, Stamp
<1>3. AfterStudent'
  BY <1>1 DEF IInv, TypeOK, Stamp, AfterStudent, Stamped
<1>4. StampsGiven'
  <2>1. clock \in Nat /\ clock' = clock + 1
    BY DEF IInv, TypeOK, Stamps, Stamp
  <2>2. \A p \in Queuers : Writes(p)' => call'[p].stamp > 0 /\ call'[p].stamp <= clock'
    <3>1. \A p \in Queuers : Writes(p) => call[p].stamp \in Nat
      BY CallIsTyped DEF IInv, Writes, Call, Stamps
    <3> QED
      BY <1>1, <2>1, <3>1 DEF Stamped, Writes, IInv, StampsGiven
  <2>3. \A i \in Invoices : row[i].stamp \in Nat /\ portal[i].stamp \in Nat
    BY DEF IInv, TypeOK, Row, Stamps
  <2>4. worker # Idle => worker.stamp \in Nat
    BY PassIsTyped DEF IInv, Pass, Stamps
  <2>5. \A i \in Invoices : /\ row[i].stamp <= clock' /\ portal[i].stamp <= clock'
                            /\ row[i].state # "none" => row[i].stamp > 0
    BY <2>1, <2>3 DEF IInv, StampsGiven
  <2>6. worker # Idle => worker.stamp > 0 /\ worker.stamp <= clock'
    BY <2>1, <2>4 DEF IInv, StampsGiven
  <2> QED
    BY <2>2, <2>5, <2>6 DEF StampsGiven, Stamp
<1>5. StampsUnused'
  BY <1>1 DEF IInv, TypeOK, Stamps, Row, Writes, StampsGiven, Stamp, StampsUnused
<1>6. OneCall'
  BY <1>1 DEF IInv, TypeOK, About, Stamp, OneCall, Stamped
<1>7. CallIsCurrent'
  <2> SUFFICES ASSUME NEW p \in Queuers, NEW i \in Invoices \ raced, About(p, i)'
               PROVE  IF call'[p].at \in {"saved", "invoice"} /\ ~call'[p].deleted
                      THEN money[i].gone => row[i].state = "none"
                      ELSE call'[p].picture = money[i].version
    BY DEF CallIsCurrent, Stamp
  <2>1. About(p, i)
    BY <1>1 DEF Stamped, About
  <2>2. CASE p = q
    BY <1>1, <2>1, <2>2 DEF IInv, CallIsCurrent, Stamped
  <2>3. CASE p # q
    BY <1>1, <2>1, <2>3 DEF IInv, CallIsCurrent, Stamped
  <2> QED
    BY <2>2, <2>3
<1>8. RowIsCurrent'
  <2>1. \A p \in Queuers, i \in Invoices : About(p, i) => About(p, i)'
    BY <1>1 DEF Stamped, About
  <2> QED
    BY <2>1 DEF IInv, TypeOK, RowIsCurrent, NeverTold, Stamp
<1>9. DeletedIsCurrent'
  BY <1>1 DEF IInv, TypeOK, OneCall, AfterStudent, About, Stamps, Stamp,
      DeletedIsCurrent, Stamped
<1>10. OnePicture' /\ AnsweredIsThere' /\ DeliveredIsThere'
  BY DEF IInv, Stamp, OnePicture, AnsweredIsThere, DeliveredIsThere
<1> QED
  BY <1>2, <1>3, <1>4, <1>5, <1>6, <1>7, <1>8, <1>9, <1>10 DEF IInv


LEMMA StepWrite == ASSUME IInv, NEW q \in Queuers, Write(q) PROVE IInv'
<1>1. TypeOK'
  BY DEF IInv, Row, Call, Idle, Write, TypeOK
<1>2. AfterStudent'
  BY DEF IInv, Idle, Write, AfterStudent
<1>3. StampsGiven'
  BY DEF IInv, Writes, Idle, Write, StampsGiven
<1>4. StampsUnused'
  BY DEF IInv, TypeOK, Writes, Idle, Write, StampsUnused
<1>5. OnePicture'
  BY DEF IInv, StampsUnused, Idle, Writes, Write, OnePicture
<1>6. DeliveredIsThere'
  BY DEF IInv, Write, DeliveredIsThere
<1>7. OneCall'
  BY DEF IInv, About, Write, OneCall
<1>8. CallIsCurrent'
  <2> SUFFICES ASSUME NEW p \in Queuers, NEW i \in Invoices \ raced, About(p, i)'
               PROVE  IF call'[p].at \in {"saved", "invoice"} /\ ~call'[p].deleted
                      THEN money[i].gone => row'[i].state = "none"
                      ELSE call'[p].picture = money[i].version
    BY DEF CallIsCurrent, Write
  <2>1. p # q /\ About(p, i) /\ call'[p] = call[p]
    BY DEF IInv, TypeOK, About, Write
  <2>2. call[q] # Idle
    BY DEF Write, Idle
  <2>3. call[q].inv # i
    BY <2>1, <2>2 DEF IInv, OneCall, About
  <2>4. row'[i] = row[i]
    BY <2>3 DEF IInv, TypeOK, Write
  <2> QED
    BY <2>1, <2>4 DEF IInv, CallIsCurrent
<1>9. RowIsCurrent'
  <2> SUFFICES ASSUME NEW i \in student \ raced, \A p \in Queuers : ~About(p, i)'
               PROVE  row'[i].picture = money[i].version \/ (money[i].gone /\ row'[i].state = "none")
    BY DEF RowIsCurrent, NeverTold, Write
  <2>1. call[q] # Idle /\ call[q].at = "write" /\ i \in Invoices
    BY DEF Write, Idle, IInv, TypeOK
  <2>2. CASE call[q].inv = i
    <3>1. row'[i].picture = call[q].picture
      BY <2>1, <2>2 DEF IInv, TypeOK, Write
    <3>2. call[q].picture = money[i].version
      BY <2>1, <2>2 DEF IInv, CallIsCurrent, About
    <3> QED
      BY <3>1, <3>2
  <2>3. CASE call[q].inv # i
    <3>1. row'[i] = row[i]
      BY <2>1, <2>3 DEF IInv, TypeOK, Write
    <3>2. \A p \in Queuers : ~About(p, i)
      BY <2>3 DEF IInv, TypeOK, About, Write
    <3> QED
      BY <3>1, <3>2 DEF IInv, RowIsCurrent, NeverTold
  <2> QED
    BY <2>2, <2>3
<1>10. DeletedIsCurrent'
  BY DEF IInv, About, Write, DeletedIsCurrent
<1>11. AnsweredIsThere'
  BY DEF IInv, Idle, Write, AnsweredIsThere
<1> QED
  BY <1>1, <1>2, <1>3, <1>4, <1>5, <1>6, <1>7, <1>8, <1>9, <1>10, <1>11 DEF IInv


LEMMA StepFind == ASSUME IInv, Find PROVE IInv'
<1>1. TypeOK'
  BY DEF IInv, Row, Due, Find, TypeOK
<1>2. AfterStudent' /\ StampsGiven' /\ StampsUnused' /\ OnePicture' /\
     AnsweredIsThere' /\ DeliveredIsThere' /\ OneCall' /\ CallIsCurrent' /\
     RowIsCurrent' /\ DeletedIsCurrent'
  BY DEF IInv, Writes, About, NeverTold, Find, AfterStudent, StampsGiven,
      StampsUnused, OnePicture, AnsweredIsThere, DeliveredIsThere, OneCall,
      CallIsCurrent, RowIsCurrent, DeletedIsCurrent
<1> QED
  BY <1>1, <1>2 DEF IInv


LEMMA StepClaim == ASSUME IInv, NEW c \in found, Claim(c) PROVE IInv'
<1>1. Claimed(c)
  BY ClaimStep DEF IInv
<1>2. TypeOK'
  <2>1. row' \in [Invoices -> Row] /\ worker' \in Pass \cup {Idle} /\ stuck' \subseteq Invoices
    BY <1>1 DEF Claimed, IInv, TypeOK
  <2> QED
    BY <2>1 DEF IInv, TypeOK, Claim
<1>3. AfterStudent'
  BY <1>1 DEF IInv, Claim, AfterStudent, Claimed
<1>4. StampsGiven'
  BY <1>1 DEF IInv, Writes, Claim, StampsGiven, Claimed
<1>5. StampsUnused'
  <2>1. \A q \in Queuers : Writes(q)' <=> Writes(q)
    BY DEF Claim, Writes
  <2>2. \A i \in Invoices : row'[i].stamp = row[i].stamp
    BY <1>1 DEF Claimed
  <2>3. \A q \in Queuers : Writes(q) /\ worker' # Idle => call[q].stamp # worker'.stamp
    BY <1>1 DEF Claimed, IInv, StampsUnused
  <2> QED
    BY <2>1, <2>2, <2>3 DEF IInv, StampsUnused, Claim
<1>6. OnePicture'
  <2>1. \A i \in Invoices : /\ row'[i].stamp = row[i].stamp /\ row'[i].picture = row[i].picture
                            /\ row'[i].state # "none" => row[i].state # "none"
    BY <1>1 DEF Claimed
  <2>2. portal' = portal
    BY DEF Claim
  <2>3. CASE worker' = worker
    <3>1. worker # Idle => worker.inv \in Invoices
      BY DEF IInv, TypeOK, Pass
    <3> QED
      BY <2>1, <2>2, <2>3, <3>1 DEF IInv, OnePicture
  <2>4. CASE worker' # worker
    BY <1>1, <2>1, <2>2, <2>4 DEF Claimed, IInv, OnePicture
  <2> QED
    BY <2>3, <2>4
<1>7. AnsweredIsThere'
  BY <1>1 DEF Claim, AnsweredIsThere
<1>8. DeliveredIsThere'
  <2>1. \A i \in Invoices : row'[i].state = "delivered" => row'[i] = row[i]
    BY <1>1 DEF Claimed
  <2> QED
    BY <2>1 DEF IInv, DeliveredIsThere, Claim
<1>9. CallIsCurrent'
  <2>1. \A i \in Invoices : row[i].state = "none" => row'[i].state = "none"
    BY <1>1 DEF Claimed
  <2> QED
    BY <2>1 DEF IInv, CallIsCurrent, About, Claim
<1>10. RowIsCurrent'
  BY <1>1 DEF IInv, TypeOK, About, Idle, NeverTold, Row, Stamps, Claim, RowIsCurrent
<1>11. OneCall' /\ DeletedIsCurrent'
  BY DEF IInv, About, Claim, OneCall, DeletedIsCurrent
<1> QED
  BY <1>2, <1>3, <1>4, <1>5, <1>6, <1>7, <1>8, <1>9, <1>10, <1>11 DEF IInv


LEMMA StepSend == ASSUME IInv, Send PROVE IInv'
<1>1. Sent
  BY SendStep DEF IInv
<1>2. TypeOK'
  <2>1. worker' \in Pass \cup {Idle}
        /\ portal' \in [Invoices -> [known : BOOLEAN, picture : Pictures, stamp : Stamps]]
    BY <1>1 DEF Sent
  <2> QED
    BY <2>1 DEF IInv, TypeOK, Send
<1>3. AfterStudent'
  BY <1>1 DEF IInv, Send, AfterStudent, Sent
<1>4. StampsGiven'
  BY <1>1 DEF IInv, Writes, Send, StampsGiven, Sent, Kept, Taken
<1>5. StampsUnused'
  BY <1>1 DEF IInv, Writes, Send, StampsUnused, Sent, Kept, Taken
<1>6. OnePicture'
  <2>1. worker' # Idle /\ worker.inv \in Invoices /\ row' = row
    BY <1>1 DEF Sent, Pass, Send
  <2>2. \A i \in Invoices : row[i].state # "none" /\ portal'[i].stamp = row[i].stamp
                                => portal'[i].picture = row[i].picture
    BY <1>1 DEF Sent, Kept, Taken, IInv, OnePicture
  <2>3. portal'[worker.inv].stamp = worker.stamp => portal'[worker.inv].picture = worker.picture
    BY <1>1 DEF Sent, Kept, Taken, IInv, OnePicture
  <2> QED
    BY <1>1, <2>1, <2>2, <2>3 DEF Sent, IInv, OnePicture
<1>7. AnsweredIsThere'
  BY <1>1 DEF AnsweredIsThere, Sent
<1>8. DeliveredIsThere'
  <2>1. \A i \in Invoices : portal'[i] = portal[i] \/ portal'[i].stamp > portal[i].stamp
    BY <1>1 DEF Sent, Kept, Taken
  <2>2. \A i \in Invoices : portal'[i].stamp \in Nat /\ portal[i].stamp \in Nat /\ row[i].stamp \in Nat
    BY <1>1 DEF Sent, IInv, TypeOK, Row, Stamps
  <2> QED
    BY <2>1, <2>2 DEF IInv, DeliveredIsThere, Send
<1>9. OneCall' /\ CallIsCurrent' /\ RowIsCurrent' /\ DeletedIsCurrent'
  BY DEF IInv, About, NeverTold, Send, OneCall, CallIsCurrent, RowIsCurrent,
      DeletedIsCurrent
<1> QED
  BY <1>2, <1>3, <1>4, <1>5, <1>6, <1>7, <1>8, <1>9 DEF IInv


LEMMA StepOutcome == ASSUME IInv, Outcome PROVE IInv'
<1>1. Settled
  BY OutcomeStep DEF IInv
<1>2. TypeOK'
  BY DEF IInv, Row, Call, Pass, Idle, Pictures, StateAfter, Outcome, TypeOK
<1>3. AfterStudent'
  BY <1>1 DEF IInv, Outcome, AfterStudent, Settled
<1>4. StampsGiven'
  BY <1>1 DEF IInv, Writes, Outcome, StampsGiven, Settled
<1>5. StampsUnused'
  BY <1>1 DEF IInv, Writes, Outcome, StampsUnused, Settled
<1>6. OnePicture'
  BY <1>1 DEF IInv, Outcome, OnePicture, Settled
<1>7. AnsweredIsThere'
  BY <1>1 DEF AnsweredIsThere, Settled
<1>8. DeliveredIsThere'
  <2>1. portal' = portal /\ worker.inv \in Invoices /\ worker.stamp \in Nat
    BY <1>1 DEF Settled, Pass, Stamps, Outcome
  <2>2. \A i \in Invoices : i # worker.inv => row'[i] = row[i]
    BY <1>1 DEF Settled
  <2>3. row'[worker.inv].state = "delivered" /\ row' # row =>
            \/ portal[worker.inv].stamp = worker.stamp /\ portal[worker.inv].picture = row[worker.inv].picture
            \/ portal[worker.inv].stamp > worker.stamp
    <3> SUFFICES ASSUME row'[worker.inv].state = "delivered", row' # row
                 PROVE  \/ /\ portal[worker.inv].stamp = worker.stamp
                           /\ portal[worker.inv].picture = row[worker.inv].picture
                        \/ portal[worker.inv].stamp > worker.stamp
      OBVIOUS
    <3>1. worker.answer = "ok" /\ row[worker.inv].stamp = worker.stamp
      BY <1>1 DEF Settled
    <3>2. portal[worker.inv].stamp >= worker.stamp /\ portal[worker.inv].stamp \in Nat
      BY <1>1, <2>1, <3>1 DEF Settled, IInv, AnsweredIsThere, TypeOK, Stamps
    <3> QED
      BY <1>1, <2>1, <3>1, <3>2 DEF Settled, IInv, AfterStudent, OnePicture
  <2> QED
    BY <1>1, <2>1, <2>2, <2>3 DEF Settled, IInv, DeliveredIsThere
<1>9. CallIsCurrent'
  BY <1>1 DEF IInv, AfterStudent, About, Outcome, CallIsCurrent, Settled
<1>10. RowIsCurrent'
  BY <1>1 DEF IInv, TypeOK, AfterStudent, DeletedIsCurrent, About, NeverTold, Outcome,
      RowIsCurrent, Settled
<1>11. OneCall' /\ DeletedIsCurrent'
  BY DEF IInv, About, Outcome, OneCall, DeletedIsCurrent
<1> QED
  BY <1>2, <1>3, <1>4, <1>5, <1>6, <1>7, <1>8, <1>9, <1>10, <1>11 DEF IInv


LEMMA StepDie == ASSUME IInv, NEW x \in Queuers \cup {Worker}, Die(x) PROVE IInv'
<1>1. TypeOK'
  <2>1. faults' \in 0..MaxFaults
    BY BoundsAssumption DEF IInv, TypeOK, Die
  <2>2. call' \in [Queuers -> Call \cup {Idle}] /\ worker' \in Pass \cup {Idle}
        /\ found' \subseteq Invoices \X {"pending", "sending"} \X Stamps
    BY DEF IInv, TypeOK, Die
  <2>3. raced' \subseteq Invoices
    BY CallIsTyped DEF IInv, TypeOK, Call, Die
  <2> QED
    BY <2>1, <2>2, <2>3 DEF IInv, TypeOK, Die
<1>2. AfterStudent'
  BY DEF IInv, TypeOK, Die, AfterStudent
<1>3. StampsGiven'
  BY DEF IInv, TypeOK, Writes, Die, StampsGiven
<1>4. StampsUnused'
  BY DEF IInv, TypeOK, Writes, Idle, Pass, Stamps, Die, StampsUnused
<1>5. OnePicture'
  BY DEF IInv, Die, OnePicture
<1>6. AnsweredIsThere'
  BY DEF IInv, Die, AnsweredIsThere
<1>7. OneCall'
  BY DEF IInv, TypeOK, About, Call, Die, OneCall
<1>8. CallIsCurrent'
  BY DEF IInv, TypeOK, AfterStudent, OneCall, About, Idle, Row, Call, Pass, Die,
      CallIsCurrent
<1>9. RowIsCurrent'
  BY DEF IInv, TypeOK, AfterStudent, About, Idle, NeverTold, Row, Pass, Pictures,
      Stamps, Die, RowIsCurrent
<1>10. DeletedIsCurrent'
  BY DEF IInv, TypeOK, AfterStudent, About, Idle, Call, Die, DeletedIsCurrent
<1>11. DeliveredIsThere'
  BY DEF IInv, Idle, Die, DeliveredIsThere
<1> QED
  BY <1>1, <1>2, <1>3, <1>4, <1>5, <1>6, <1>7, <1>8, <1>9, <1>10, <1>11 DEF IInv


LEMMA StepAges == ASSUME IInv, NEW i \in Invoices, Ages(i) PROVE IInv'
<1>1. TypeOK'
  BY DEF IInv, Ages, TypeOK
<1>2. AfterStudent' /\ StampsGiven' /\ StampsUnused' /\ OnePicture' /\
     AnsweredIsThere' /\ DeliveredIsThere' /\ OneCall' /\ CallIsCurrent' /\
     RowIsCurrent' /\ DeletedIsCurrent'
  BY DEF IInv, Writes, About, NeverTold, Ages, AfterStudent, StampsGiven,
      StampsUnused, OnePicture, AnsweredIsThere, DeliveredIsThere, OneCall,
      CallIsCurrent, RowIsCurrent, DeletedIsCurrent
<1> QED
  BY <1>1, <1>2 DEF IInv

----------------------------------------------------------------------------
LEMMA NextIInv == IInv /\ [Next]_vars => IInv'
<1> SUFFICES ASSUME IInv, [Next]_vars PROVE IInv'
  OBVIOUS
<1>1. CASE \E q \in Queuers : Continue(q)
  BY <1>1, StepReadProvision, StepReadMoney, StepStamp, StepWrite DEF Continue
<1>2. CASE \E q \in Queuers, i \in Invoices : Change(q, i) \/ DeleteInvoice(q, i) \/ SendStudent(q, i)
  BY <1>2, StepChange, StepDeleteInvoice, StepSendStudent
<1>3. CASE Find \/ Send \/ Outcome
  BY <1>3, StepFind, StepSend, StepOutcome
<1>4. CASE \E c \in found : Claim(c)
  BY <1>4, StepClaim
<1>5. CASE \E x \in Queuers \cup {Worker} : Die(x)
  BY <1>5, StepDie
<1>6. CASE \E i \in Invoices : Ages(i)
  BY <1>6, StepAges
<1>7. CASE UNCHANGED vars
  BY <1>7 DEF IInv, TypeOK, AfterStudent, StampsGiven, StampsUnused, OnePicture,
      AnsweredIsThere, DeliveredIsThere, OneCall, CallIsCurrent, RowIsCurrent,
      DeletedIsCurrent, Writes, About, NeverTold, vars
<1> QED
  BY <1>1, <1>2, <1>3, <1>4, <1>5, <1>6, <1>7 DEF Next

LEMMA Invariance == Spec => []IInv
  BY InitIInv, NextIInv, PTL DEF Spec

----------------------------------------------------------------------------
(* The theorems. *)

\* Every variable keeps its type.
THEOREM TypeCorrect == Spec => []TypeOK
  BY Invariance, PTL DEF IInv

\* A row that says delivered is in CS Portal, or something newer is: an outcome
\* is written only over the row it is the outcome of, and stamps tell rows apart.
THEOREM DeliveredIsInPortal == Spec => []DeliveredIsThere
  BY Invariance, PTL DEF IInv

\* The row of an invoice no two calls were about at once holds its money as it
\* is: each call reads after the save it is about, or is given what it left.
THEOREM RowHoldsTheMoney == Spec => []QueuedIsCurrent
<1>1. IInv => QueuedIsCurrent
  BY DEF IInv, RowIsCurrent, About, QueuedIsCurrent
<1> QED
  BY <1>1, Invariance, PTL
====
