------------------------- MODULE EnrolmentBillsProofs -------------------------
(***************************************************************************)
(* That an approved invoice stands, and that an enrolment is billed, and   *)
(* billed once, whatever the number of invoices and calls.                 *)
(***************************************************************************)
EXTENDS EnrolmentIntakeProofs

(* Calls that come one at a time, while accounts leave the invoices alone. *)

Alone == ~raced => /\ \A c, d \in Callers : call[c] # Idle /\ call[d] # Idle => c = d
                   /\ Calling => desk = Idle

Calm == ~raced /\ "revived" \notin hands

\* What moved away is void, not approved and not paid, until somebody brings it back.
MovedAway ==
    \A i \in Here : invoice[i].moved # None =>
        invoice[i].approval # "approved" /\ invoice[i].status = "void" /\ ~invoice[i].paid

\* What a call found is as it was found.
Fine(c) ==
    /\ call[c].mine \in Here =>
         /\ invoice[call[c].mine].approval # "approved"
         /\ call[c].at \notin {"back", "restore"} => invoice[call[c].mine].moved = None
    /\ call[c].other # None => call[c].other \in Here /\ Movable(call[c].other)

Careful == Alone /\ (Calm => MovedAway /\ \A c \in Callers : call[c] # Idle => Fine(c))

----------------------------------------------------------------------------
LEMMA InitCareful == Init => Careful
  BY DEF Init, Careful, Alone, Calling, MovedAway, Here

\* Only the call that takes a step is in progress.
LEMMA OnlyOne ==
  ASSUME Careful, ~raced, NEW c \in Callers, call[c] # Idle, NEW d \in Callers, d # c
  PROVE  call[d] = Idle
  BY DEF Careful, Alone

LEMMA AloneStill ==
  ASSUME Careful, NEW c \in Callers, call[c] # Idle, Kept(c)
  PROVE  Alone'
<1>1. Calling /\ desk' = desk /\ raced' = raced
  BY DEF Calling, Kept
<1>2. ASSUME ~raced, NEW d \in Callers, call'[d] # Idle
      PROVE  d = c
  BY <1>2, OnlyOne DEF Kept
<1> QED
  BY <1>1, <1>2 DEF Careful, Alone

\* A step of a call: what moved away, and what it holds, are looked at.
LEMMA CallCareful ==
  ASSUME Careful, NEW c \in Callers, call[c] # Idle, Kept(c),
         Calm => MovedAway' /\ (call'[c] # Idle => Fine(c)')
  PROVE  Careful'
<1>1. Calm' = Calm
  BY DEF Calm, Kept
<1>2. ASSUME Calm, NEW d \in Callers, call'[d] # Idle
      PROVE  d = c
  BY <1>2, OnlyOne DEF Kept, Calm
<1>3. ASSUME Calm, NEW d \in Callers, call'[d] # Idle
      PROVE  Fine(d)'
  BY <1>2, <1>3
<1> QED
  BY <1>1, <1>3, AloneStill DEF Careful

\* One invoice becomes another record that is no more approved, and moved only void.
LEMMA StillAway ==
  ASSUME MovedAway, NEW i, NEW v, Rewrites(i, v),
         v.moved # None => v.approval # "approved" /\ v.status = "void" /\ ~v.paid
  PROVE  MovedAway'
  BY DEF MovedAway, Rewrites

LEMMA AwayKept == ASSUME MovedAway, UNCHANGED invoice PROVE MovedAway' /\ Here' = Here /\ Live' = Live
  BY DEF MovedAway, Here, Live

LEMMA CarefulLook ==
  ASSUME Shape, Careful, NEW c \in Callers, Elsewhere(c) \/ Back(c) \/ Correct(c)
  PROVE  Careful'
<1>1. CASE Elsewhere(c)
  <2>1. call[c] # Idle /\ Kept(c) /\ UNCHANGED invoice
    BY <1>1, DoesElsewhere, Being
  <2>2. ASSUME Calm, call'[c] # Idle
        PROVE  Fine(c)'
    <3>1. call'[c].mine \notin Here
      BY <1>1, <2>2, DoesElsewhere, NoneAssumption DEF Here
    <3>2. call'[c].other # None => call'[c].other \in Here /\ Movable(call'[c].other)
      BY <1>1, <2>2, DoesElsewhere DEF Live
    <3> QED
      BY <2>1, <3>1, <3>2 DEF Fine, Here, Movable
  <2> QED
    BY <2>1, <2>2, CallCareful, AwayKept DEF Careful
<1>2. CASE Back(c)
  <2>1. call[c] # Idle /\ Kept(c) /\ UNCHANGED invoice
    BY <1>2, DoesBack, Being
  <2>2. ASSUME Calm, call'[c] # Idle
        PROVE  Fine(c)'
    <3>1. /\ call'[c].at = "restore" /\ call'[c].mine = call[c].mine
          /\ call'[c].other # None => call'[c].other \in Here /\ Movable(call'[c].other)
      BY <1>2, <2>2, DoesBack DEF Live
    <3> QED
      BY <2>1, <2>2, <3>1 DEF Careful, Fine, Here, Movable
  <2> QED
    BY <2>1, <2>2, CallCareful, AwayKept DEF Careful
<1>3. CASE Correct(c)
  <2>1. call[c] # Idle /\ Kept(c) /\ UNCHANGED invoice /\ call[c].at = "correct"
    BY <1>3, DoesCorrect, Being
  <2>2. ASSUME Calm, call'[c] # Idle
        PROVE  Fine(c)'
    <3>1. call'[c].at = "rewrite" /\ call'[c].mine = call[c].mine /\ call'[c].other = call[c].other
      BY <1>3, <2>2, DoesCorrect
    <3> QED
      BY <2>1, <2>2, <3>1 DEF Careful, Fine, Here, Movable
  <2> QED
    BY <2>1, <2>2, CallCareful, AwayKept DEF Careful
<1> QED
  BY <1>1, <1>2, <1>3

LEMMA CarefulCreate == ASSUME Shape, Careful, NEW c \in Callers, Create(c) PROVE Careful'
<1>1. call[c] # Idle /\ Kept(c)
  BY DoesCreate, Being
<1> DEFINE i == call'[c].mine
<1>2. /\ Here' = Here \cup {i} /\ i \notin Here /\ call'[c].other = call[c].other
      /\ invoice'[i].approval = "pending" /\ invoice'[i].moved = None
      /\ \A j \in Here : invoice'[j] = invoice[j]
  BY DoesCreate
<1>3. MovedAway => MovedAway'
  BY <1>2 DEF MovedAway
<1>4. Fine(c) => Fine(c)'
  BY <1>2 DEF Fine, Movable
<1> QED
  BY <1>1, <1>3, <1>4, CallCareful DEF Careful

\* A call's step that rewrites its own invoice: no more approved, and not moved.
LEMMA CarefulOwn ==
  ASSUME Careful, NEW c \in Callers, call[c] # Idle, Kept(c), NEW v,
         Rewrites(call[c].mine, v) \/ (UNCHANGED invoice /\ call[c].mine \notin Here),
         Calm => v.approval # "approved" /\ v.moved = None,
         call[c].other # call[c].mine,
         call'[c] # Idle => call'[c].mine = call[c].mine /\ call'[c].other = call[c].other
  PROVE  Careful'
<1> DEFINE i == call[c].mine
<1>1. CASE Rewrites(i, v)
  <2>1. Calm => MovedAway'
    BY <1>1, StillAway DEF Careful
  <2>2. Calm /\ call'[c] # Idle => Fine(c)'
    BY <1>1 DEF Careful, Fine, Rewrites, Movable
  <2> QED
    BY <2>1, <2>2, CallCareful
<1>2. CASE UNCHANGED invoice /\ i \notin Here
  <2>1. Calm => MovedAway' /\ Here' = Here
    BY <1>2, AwayKept DEF Careful
  <2>2. Calm /\ call'[c] # Idle => Fine(c)'
    BY <1>2, <2>1 DEF Careful, Fine, Movable
  <2> QED
    BY <2>1, <2>2, CallCareful
<1> QED
  BY <1>1, <1>2

\* What a call holds of two invoices is of two of them.
LEMMA Apart ==
  ASSUME Shape, NEW c \in Callers, call[c] # Idle, call[c].mine \in Invoices
  PROVE  call[c].other # call[c].mine
  BY Running, NoneAssumption DEF Shaped

LEMMA CarefulKey == ASSUME Shape, Careful, NEW c \in Callers, Key(c) PROVE Careful'
<1> DEFINE i == call[c].mine
           v == [invoice[i] EXCEPT !.keyed = TRUE]
<1>1. call[c].at = "key"
  BY DoesKey
<1>2. call[c] # Idle /\ i \in Invoices /\ Kept(c)
  BY <1>1, Being, DoesKey DEF Shaped
<1>3. call'[c] # Idle => call'[c].at = "moveOut" /\ call'[c].mine = i /\ call'[c].other = call[c].other
  BY DoesKey
<1>4. CASE UNCHANGED invoice
  <2>1. Calm => MovedAway' /\ Here' = Here
    BY <1>4, AwayKept DEF Careful
  <2>2. Calm /\ call'[c] # Idle => Fine(c)'
    BY <1>1, <1>2, <1>3, <1>4, <2>1 DEF Careful, Fine, Movable
  <2> QED
    BY <1>2, <2>1, <2>2, CallCareful
<1>5. CASE Rewrites(i, v)
  <2>1. i \in Here /\ invoice[i] \in Invoice
    BY <1>5, Standing DEF Rewrites
  <2>2. v.approval = invoice[i].approval /\ v.moved = invoice[i].moved
    BY <2>1 DEF Invoice
  <2>3. Calm => v.approval # "approved" /\ v.moved = None
    BY <1>1, <1>2, <2>1, <2>2 DEF Careful, Fine
  <2> HIDE DEF v
  <2> QED
    BY <1>2, <1>3, <1>5, <2>3, CarefulOwn, Apart
<1> QED
  BY <1>4, <1>5, DoesKey

LEMMA CarefulMoveOut == ASSUME Shape, Careful, NEW c \in Callers, MoveOut(c) PROVE Careful'
<1> DEFINE i == call[c].other
           v == [invoice[i] EXCEPT !.status = "void", !.moved = [to |-> call[c].mine, from |-> call[c].from]]
<1>1. call[c].at = "moveOut" /\ Kept(c) /\ call'[c] = Idle
  BY DoesMoveOut
<1>2. call[c] # Idle /\ i # None
  BY <1>1, Being DEF Shaped
<1>3. CASE UNCHANGED invoice
  BY <1>1, <1>2, <1>3, CallCareful, AwayKept DEF Careful
<1>4. CASE Rewrites(i, v)
  <2>1. i \in Here /\ invoice[i] \in Invoice
    BY <1>4, Standing DEF Rewrites
  <2>2. v.approval = invoice[i].approval /\ v.status = "void" /\ v.paid = invoice[i].paid
    BY <2>1 DEF Invoice
  <2>3. Calm => v.approval # "approved" /\ ~v.paid
    BY <1>2, <2>1, <2>2 DEF Careful, Fine, Movable
  <2> HIDE DEF v
  <2>4. Calm => MovedAway'
    BY <1>4, <2>2, <2>3, StillAway DEF Careful
  <2> QED
    BY <1>1, <1>2, <2>4, CallCareful
<1> QED
  BY <1>3, <1>4, DoesMoveOut

LEMMA CarefulRestore == ASSUME Shape, Careful, NEW c \in Callers, Restore(c) PROVE Careful'
<1> DEFINE i == call[c].mine
           v == [invoice[i] EXCEPT !.status = call[c].moved.from, !.moved = None]
<1>1. call[c].at = "restore" /\ Kept(c) /\ call'[c].mine = i /\ call'[c].other = call[c].other
  BY DoesRestore DEF Same
<1>2. call[c] # Idle /\ i \in Invoices
  BY <1>1, Being DEF Shaped
<1>3. i \in Here => invoice[i] \in Invoice
  BY Standing
<1>4. i \in Here /\ Calm => v.approval # "approved" /\ v.moved = None
  BY <1>2, <1>3 DEF Careful, Fine, Invoice
<1>5. Rewrites(i, v) \/ (UNCHANGED invoice /\ i \notin Here)
  BY DoesRestore
<1>6. CASE i \in Here
  BY <1>1, <1>2, <1>4, <1>5, <1>6, CarefulOwn, Apart
<1>7. CASE i \notin Here
  <2>1. UNCHANGED invoice /\ (Calm => MovedAway' /\ Here' = Here)
    BY <1>5, <1>7, AwayKept DEF Careful, Rewrites
  <2>2. Calm => Fine(c)'
    BY <1>1, <1>2, <1>7, <2>1 DEF Careful, Fine, Movable
  <2> QED
    BY <1>1, <1>2, <2>1, <2>2, CallCareful
<1> QED
  BY <1>6, <1>7

LEMMA CarefulRewrite == ASSUME Shape, Careful, NEW c \in Callers, Rewrite(c) PROVE Careful'
<1> DEFINE i == call[c].mine
<1>1. call[c].at = "rewrite" /\ Kept(c)
  BY DoesRewrite
<1>2. call[c] # Idle /\ i \in Invoices
  BY <1>1, Being DEF Shaped
<1>3. CASE UNCHANGED invoice /\ call'[c] = Idle
  BY <1>1, <1>2, <1>3, CallCareful, AwayKept DEF Careful
<1>4. ASSUME NEW status \in Statuses, Rewrites(i, [invoice[i] EXCEPT !.status = status]),
             call'[c].mine = i, call'[c].other = call[c].other
      PROVE  Careful'
  <2> DEFINE v == [invoice[i] EXCEPT !.status = status]
  <2>1. i \in Here /\ invoice[i] \in Invoice
    BY <1>4, Standing DEF Rewrites
  <2>2. v.approval = invoice[i].approval /\ v.moved = invoice[i].moved
    BY <2>1 DEF Invoice
  <2>3. Calm => v.approval # "approved" /\ v.moved = None
    BY <1>1, <1>2, <2>1, <2>2 DEF Careful, Fine
  <2>4. Rewrites(i, v)
    BY <1>4
  <2> HIDE DEF v
  <2> QED
    BY <1>1, <1>2, <1>4, <2>3, <2>4, CarefulOwn, Apart
<1> QED
  BY <1>3, <1>4, DoesRewrite

LEMMA CarefulRequeue == ASSUME Shape, Careful, NEW c \in Callers, Requeue(c) PROVE Careful'
<1> DEFINE i == call[c].mine
           v == [invoice[i] EXCEPT !.approval = "pending"]
<1>1. call[c].at = "requeue" /\ Kept(c)
  BY DoesRequeue
<1>2. call[c] # Idle /\ i \in Invoices
  BY <1>1, Being DEF Shaped
<1>3. call'[c] # Idle => call'[c].mine = i /\ call'[c].other = call[c].other
  BY DoesRequeue DEF Same
<1>4. CASE UNCHANGED invoice /\ i \notin Here
  <2>1. Calm => MovedAway' /\ Here' = Here
    BY <1>4, AwayKept DEF Careful
  <2>2. Calm /\ call'[c] # Idle => Fine(c)'
    BY <1>2, <1>3, <1>4, <2>1 DEF Careful, Fine, Movable
  <2> QED
    BY <1>1, <1>2, <2>1, <2>2, CallCareful
<1>5. CASE Rewrites(i, v)
  <2>1. i \in Here /\ invoice[i] \in Invoice
    BY <1>5, Standing DEF Rewrites
  <2>2. v.approval = "pending" /\ v.moved = invoice[i].moved
    BY <2>1 DEF Invoice
  <2>3. Calm => v.approval # "approved" /\ v.moved = None
    BY <1>1, <1>2, <2>1, <2>2 DEF Careful, Fine
  <2> HIDE DEF v
  <2> QED
    BY <1>1, <1>2, <1>3, <1>5, <2>3, CarefulOwn, Apart
<1> QED
  BY <1>4, <1>5, DoesRequeue

LEMMA CarefulDie == ASSUME Shape, Careful, NEW c \in Callers, Die(c) PROVE Careful'
<1>1. /\ call'[c] = Idle /\ \A d \in Callers : d # c => call'[d] = call[d]
      /\ call[c] # Idle /\ UNCHANGED <<invoice, desk, raced, hands>>
  BY DEF Die, Done, To, Shape, TypeOK
<1>2. /\ raced' = raced /\ desk' = desk /\ Calm' = Calm
      /\ \A d \in Callers : call'[d] # Idle => call'[d] = call[d]
  BY <1>1 DEF Calm
<1>3. Alone'
  BY <1>2 DEF Careful, Alone, Calling
<1>4. Calm => MovedAway'
  BY <1>1, AwayKept DEF Careful
<1>5. ASSUME Calm, NEW d \in Callers, call'[d] # Idle
      PROVE  Fine(d)'
  <2>1. Fine(d) /\ call'[d] = call[d] /\ Here' = Here
    BY <1>1, <1>2, <1>5 DEF Careful, Here
  <2> QED
    BY <1>1, <2>1 DEF Fine, Movable
<1> QED
  BY <1>2, <1>3, <1>4, <1>5 DEF Careful

\* What a call has found when it starts.
LEMMA DoesSend ==
  ASSUME Shape, NEW c \in Callers, NEW org \in Orgs, Send(c, org)
  PROVE  LET i == call'[c].mine IN
         /\ call[c] = Idle /\ UNCHANGED <<invoice, used, desk, faults, hands>>
         /\ raced' = (raced \/ Calling \/ desk # Idle)
         /\ \A d \in Callers : d # c => call'[d] = call[d]
         /\ call'[c] # Idle /\ call'[c].org = org /\ call'[c].other = None
         /\ \/ call'[c].at = "elsewhere" /\ i = None /\ Keyed(org) = {}
            \/ /\ i \in Keyed(org)
               /\ \/ /\ call'[c].at = "back" /\ invoice[i].moved # None
                     /\ call'[c].moved = invoice[i].moved
                  \/ call'[c].at = "correct" /\ invoice[i].moved = None /\ Correctable(i)
<1> DEFINE sent(at, i) == [at |-> at, org |-> org, mine |-> i, other |-> None,
                           moved |-> IF i = None THEN None ELSE invoice[i].moved,
                           from |-> "draft", read |-> None]
<1>1. /\ call[c] = Idle /\ UNCHANGED <<invoice, used, desk, faults, hands>>
      /\ raced' = (raced \/ Calling \/ desk # Idle)
  BY DEF Send
<1>2. \A at, i : To(c, sent(at, i)) => /\ call'[c] = sent(at, i)
                                       /\ \A d \in Callers : d # c => call'[d] = call[d]
  BY DEF To, Shape, TypeOK
<1>3. \/ Keyed(org) = {} /\ To(c, sent("elsewhere", None))
      \/ \E i \in Keyed(org) :
           \/ invoice[i].moved # None /\ To(c, sent("back", i))
           \/ invoice[i].moved = None /\ Correctable(i) /\ To(c, sent("correct", i))
  BY DEF Send
<1>4. \A i \in Keyed(org) : i # None
  BY NoneAssumption DEF Keyed, Here
<1>5. CASE Keyed(org) = {} /\ To(c, sent("elsewhere", None))
  BY <1>1, <1>2, <1>5 DEF Idle
<1>6. ASSUME NEW i \in Keyed(org), invoice[i].moved # None, To(c, sent("back", i))
      PROVE  /\ \A d \in Callers : d # c => call'[d] = call[d]
             /\ call'[c] # Idle /\ call'[c].org = org /\ call'[c].other = None /\ call'[c].mine = i
             /\ call'[c].at = "back" /\ call'[c].moved = invoice[i].moved
  BY <1>2, <1>4, <1>6 DEF Idle
<1>7. ASSUME NEW i \in Keyed(org), To(c, sent("correct", i))
      PROVE  /\ \A d \in Callers : d # c => call'[d] = call[d]
             /\ call'[c] # Idle /\ call'[c].org = org /\ call'[c].other = None /\ call'[c].mine = i
             /\ call'[c].at = "correct"
  BY <1>2, <1>7 DEF Idle
<1> QED
  BY <1>1, <1>3, <1>5, <1>6, <1>7

LEMMA CarefulSend ==
  ASSUME Shape, Careful, NEW c \in Callers, NEW org \in Orgs, Send(c, org)
  PROVE  Careful'
<1>1. /\ UNCHANGED <<invoice, hands, desk>> /\ raced' = (raced \/ Calling \/ desk # Idle)
      /\ \A d \in Callers : d # c => call'[d] = call[d]
  BY DoesSend
<1>2. ASSUME ~raced'
      PROVE  ~raced /\ ~Calling /\ desk' = Idle /\ \A d \in Callers : call'[d] # Idle => d = c
  BY <1>1, <1>2 DEF Calling
<1>3. Alone'
  BY <1>2 DEF Alone
<1>4. Calm' => Calm
  BY <1>1, <1>2 DEF Calm
<1>5. Calm' => MovedAway'
  BY <1>1, <1>4, AwayKept DEF Careful
<1>6. ASSUME Calm' PROVE Fine(c)'
  <2>1. MovedAway /\ Here' = Here
    BY <1>1, <1>4, <1>6, AwayKept DEF Careful
  <2>2. call'[c].other = None
    BY DoesSend
  <2>3. CASE call'[c].mine = None
    BY <2>1, <2>2, <2>3, NoneAssumption DEF Fine, Here
  <2>4. CASE /\ call'[c].mine \in Here /\ invoice[call'[c].mine].moved # None
             /\ call'[c].at = "back"
    BY <1>1, <2>1, <2>2, <2>4 DEF Fine, MovedAway
  <2>5. CASE /\ call'[c].mine \in Here /\ invoice[call'[c].mine].moved = None
             /\ Correctable(call'[c].mine)
    BY <1>1, <2>1, <2>2, <2>5 DEF Fine, Correctable
  <2> QED
    BY <2>3, <2>4, <2>5, DoesSend DEF Keyed
<1> QED
  BY <1>2, <1>3, <1>5, <1>6 DEF Careful, Calm

----------------------------------------------------------------------------
(* What accounts do to an invoice. *)

\* It becomes another record, its academy, id and move kept: one that is void stays void,
\* and not approved, unless it is brought back, and one that is not is voided by voidInvoice only.
Deals(i, v) ==
    /\ Rewrites(i, v) /\ v.org = invoice[i].org /\ v.keyed = invoice[i].keyed /\ v.moved = invoice[i].moved
    /\ i \in Live => v.status # "void" \/ "voided" \in hands'
    /\ i \notin Live => \/ "revived" \in hands'
                        \/ v.status = "void" /\ v.approval = "pending" /\ v.paid = invoice[i].paid

Deletes(i) ==
    /\ i \in Here /\ Here' = Here \ {i} /\ \A j \in Here' : invoice'[j] = invoice[j]
    /\ "deleted" \in hands'
    /\ "orphaned" \in hands' \/ \A j \in Here : invoice[j].moved # None => invoice[j].moved.to # i

LEMMA DealsDesk ==
  ASSUME Shape, SaveApproval \/ Issue
  PROVE  /\ UNCHANGED <<call, faults, raced>> /\ desk # Idle /\ hands \subseteq hands'
         /\ UNCHANGED invoice \/ \E v : Deals(desk.invoice, v)
<1> DEFINE i == desk.invoice read == desk.read
<1>1. desk # Idle /\ UNCHANGED <<call, faults, raced>> /\ hands \subseteq hands'
  <2>1. desk.at \in {"approve", "issue"} /\ UNCHANGED <<call, faults, raced>>
    BY DEF SaveApproval, Issue
  <2>2. hands' = hands \/ hands' = Revived(i)
    BY DEF SaveApproval, Issue
  <2>3. hands \subseteq hands'
    BY <2>2 DEF Revived
  <2> QED
    BY <2>1, <2>3 DEF Idle
<1>2. ASSUME i \in Here, NEW v \in Invoice, invoice' = [invoice EXCEPT ![i] = v], hands' = Revived(i),
             v.org = invoice[i].org, v.keyed = invoice[i].keyed, v.moved = invoice[i].moved,
             i \in Live => v.status # "void"
      PROVE  Deals(i, v)
  <2>1. i \notin Live => "revived" \in hands'
    BY <1>2 DEF Revived
  <2>2. Rewrites(i, v)
    BY <1>2, Written DEF Rewrites
  <2> QED
    BY <1>2, <2>1, <2>2 DEF Deals
<1>3. i \in Here => invoice[i] \in Invoice /\ (i \in Live => invoice[i].status # "void")
  BY Standing DEF Live
<1>4. ASSUME i \in Here, invoice' = [invoice EXCEPT ![i].approval = "approved"], hands' = Revived(i)
      PROVE  \E v : Deals(i, v)
  <2> DEFINE v == [invoice[i] EXCEPT !.approval = "approved"]
  <2>1. /\ v \in Invoice /\ v.org = invoice[i].org /\ v.keyed = invoice[i].keyed /\ v.moved = invoice[i].moved
        /\ v.status = invoice[i].status
    BY <1>3, <1>4 DEF Invoice
  <2>2. invoice' = [invoice EXCEPT ![i] = v]
    BY <1>4
  <2> HIDE DEF v
  <2> QED
    BY <1>2, <1>3, <1>4, <2>1, <2>2
<1>5. ASSUME i \in Here, NEW status \in StatusAfter(TRUE), hands' = Revived(i),
             invoice' = [invoice EXCEPT ![i] = [@ EXCEPT !.approval = "approved", !.paid = TRUE, !.status = status]]
      PROVE  \E v : Deals(i, v)
  <2> DEFINE v == [invoice[i] EXCEPT !.approval = "approved", !.paid = TRUE, !.status = status]
  <2>1. /\ v \in Invoice /\ v.org = invoice[i].org /\ v.keyed = invoice[i].keyed /\ v.moved = invoice[i].moved
        /\ v.status # "void"
    BY <1>3, <1>5 DEF Invoice, StatusAfter, Statuses
  <2>2. invoice' = [invoice EXCEPT ![i] = v]
    BY <1>5
  <2> HIDE DEF v
  <2> QED
    BY <1>2, <1>3, <1>5, <2>1, <2>2
<1>6. ASSUME i \in Here, hands' = Revived(i), invoice' = [invoice EXCEPT ![i].status = "sent"]
      PROVE  \E v : Deals(i, v)
  <2> DEFINE v == [invoice[i] EXCEPT !.status = "sent"]
  <2>1. /\ v \in Invoice /\ v.org = invoice[i].org /\ v.keyed = invoice[i].keyed /\ v.moved = invoice[i].moved
        /\ v.status # "void"
    BY <1>3, <1>6 DEF Invoice, Statuses
  <2>2. invoice' = [invoice EXCEPT ![i] = v]
    BY <1>6
  <2> HIDE DEF v
  <2> QED
    BY <1>2, <1>3, <1>6, <2>1, <2>2
<1>7. CASE SaveApproval
  <2>1. \/ UNCHANGED invoice
        \/ i \in Here /\ invoice' = [invoice EXCEPT ![i].approval = "approved"] /\ hands' = Revived(i)
        \/ /\ i \in Here /\ hands' = Revived(i)
           /\ \E status \in StatusAfter(TRUE) :
                invoice' = [invoice EXCEPT ![i] = [@ EXCEPT !.approval = "approved", !.paid = TRUE, !.status = status]]
    BY <1>7 DEF SaveApproval
  <2> QED
    BY <1>1, <1>4, <1>5, <2>1
<1>8. CASE Issue
  <2>1. \/ UNCHANGED invoice
        \/ i \in Here /\ hands' = Revived(i) /\ invoice' = [invoice EXCEPT ![i].status = "sent"]
    BY <1>8 DEF Issue
  <2> QED
    BY <1>1, <1>6, <2>1
<1> QED
  BY <1>7, <1>8

LEMMA DealsByHand ==
  ASSUME Shape, NEW i \in Invoices, Return(i) \/ Resubmit(i) \/ Void(i) \/ Unvoid(i)
  PROVE  /\ UNCHANGED <<call, faults>> /\ raced' = (raced \/ Calling) /\ hands \subseteq hands'
         /\ \E v : Deals(i, v)
<1>1. i \in Here /\ invoice[i] \in Invoice
  BY Standing DEF Return, Resubmit, Void, Unvoid, Live
<1>2. UNCHANGED <<call, faults>> /\ raced' = (raced \/ Calling) /\ hands \subseteq hands'
  BY DEF Return, Resubmit, Void, Unvoid, ByHand
<1>3. ASSUME NEW v \in Invoice, invoice' = [invoice EXCEPT ![i] = v],
             v.org = invoice[i].org, v.keyed = invoice[i].keyed, v.moved = invoice[i].moved,
             i \in Live => v.status # "void" \/ "voided" \in hands',
             i \notin Live => \/ "revived" \in hands'
                              \/ v.status = "void" /\ v.approval = "pending" /\ v.paid = invoice[i].paid
      PROVE  \E w : Deals(i, w)
  <2>1. Rewrites(i, v)
    BY <1>1, <1>3, Written DEF Rewrites
  <2>2. Deals(i, v)
    BY <1>3, <2>1 DEF Deals
  <2> QED
    BY <2>2
<1>4. CASE Return(i)
  <2> DEFINE v == [invoice[i] EXCEPT !.approval = "returned"]
  <2>1. /\ v \in Invoice /\ v.org = invoice[i].org /\ v.keyed = invoice[i].keyed /\ v.moved = invoice[i].moved
        /\ v.status = invoice[i].status
    BY <1>1 DEF Invoice
  <2>2. invoice' = [invoice EXCEPT ![i] = v] /\ invoice[i].status = "draft"
    BY <1>4 DEF Return, ByHand
  <2>3. i \in Live
    BY <1>1, <2>2 DEF Live
  <2> HIDE DEF v
  <2> QED
    BY <1>2, <1>3, <2>1, <2>2, <2>3
<1>5. CASE Resubmit(i)
  <2> DEFINE v == [invoice[i] EXCEPT !.approval = "pending"]
  <2>1. /\ v \in Invoice /\ v.org = invoice[i].org /\ v.keyed = invoice[i].keyed /\ v.moved = invoice[i].moved
        /\ v.status = invoice[i].status /\ v.approval = "pending" /\ v.paid = invoice[i].paid
    BY <1>1 DEF Invoice
  <2>2. invoice' = [invoice EXCEPT ![i] = v]
    BY <1>5 DEF Resubmit, ByHand
  <2>3. (i \in Live => v.status # "void") /\ (i \notin Live => v.status = "void")
    BY <1>1, <2>1 DEF Live
  <2> HIDE DEF v
  <2> QED
    BY <1>2, <1>3, <2>1, <2>2, <2>3
<1>6. CASE Void(i)
  <2> DEFINE v == [invoice[i] EXCEPT !.status = "void"]
  <2>1. v \in Invoice /\ v.org = invoice[i].org /\ v.keyed = invoice[i].keyed /\ v.moved = invoice[i].moved
    BY <1>1 DEF Invoice, Statuses
  <2>2. invoice' = [invoice EXCEPT ![i] = v] /\ i \in Live /\ "voided" \in hands'
    BY <1>6 DEF Void, ByHand
  <2> HIDE DEF v
  <2> QED
    BY <1>2, <1>3, <2>1, <2>2
<1>7. CASE Unvoid(i)
  <2>1. PICK status \in Statuses : ByHand(i, [invoice[i] EXCEPT !.status = status], {"revived"})
    BY <1>7 DEF Unvoid, StatusAfter, Statuses
  <2> DEFINE v == [invoice[i] EXCEPT !.status = status]
  <2>2. v \in Invoice /\ v.org = invoice[i].org /\ v.keyed = invoice[i].keyed /\ v.moved = invoice[i].moved
    BY <1>1 DEF Invoice
  <2>3. invoice' = [invoice EXCEPT ![i] = v] /\ i \notin Live /\ "revived" \in hands'
    BY <1>7, <2>1 DEF Unvoid, ByHand
  <2> HIDE DEF v
  <2> QED
    BY <1>2, <1>3, <2>2, <2>3
<1> QED
  BY <1>2, <1>4, <1>5, <1>6, <1>7

LEMMA DoesDelete ==
  ASSUME Shape, NEW i \in Invoices, Delete(i)
  PROVE  /\ UNCHANGED <<call, faults>> /\ raced' = (raced \/ Calling) /\ hands \subseteq hands'
         /\ Deletes(i)
<1> DEFINE pointing == {j \in Here : invoice[j].moved # None /\ invoice[j].moved.to = i}
<1>1. /\ invoice' = [invoice EXCEPT ![i] = None] /\ UNCHANGED <<call, faults>> /\ i \in Here
      /\ raced' = (raced \/ Calling)
      /\ hands' = hands \cup (IF pointing = {} THEN {"deleted"} ELSE {"deleted", "orphaned"})
  BY DEF Delete, ByHand
<1>2. Here' = Here \ {i} /\ \A j \in Here' : invoice'[j] = invoice[j]
  BY <1>1 DEF Here, Shape, TypeOK
<1>3. pointing = {} => \A j \in Here : invoice[j].moved # None => invoice[j].moved.to # i
  OBVIOUS
<1> QED
  BY <1>1, <1>2, <1>3 DEF Deletes

Accounts ==
    \/ \E i \in Invoices : Approve(i) \/ Return(i) \/ Resubmit(i) \/ Void(i) \/ Unvoid(i) \/ Delete(i)
    \/ SaveApproval \/ Issue

LEMMA DoesAccounts ==
  ASSUME Shape, Accounts
  PROVE  /\ UNCHANGED <<call, faults>> /\ hands \subseteq hands'
         /\ raced' = (raced \/ Calling) \/ (raced' = raced /\ desk # Idle)
         /\ UNCHANGED invoice \/ (\E i, v : Deals(i, v)) \/ (\E i : Deletes(i))
<1>1. CASE SaveApproval \/ Issue
  BY <1>1, DealsDesk
<1>2. ASSUME NEW i \in Invoices, Approve(i)
      PROVE  UNCHANGED <<call, faults, invoice>> /\ hands \subseteq hands' /\ raced' = (raced \/ Calling)
  BY <1>2 DEF Approve
<1> QED
  BY <1>1, <1>2, DealsByHand, DoesDelete DEF Accounts

\* Where calls come one at a time, nobody deals with an invoice while one is in progress.
LEMMA NotMeanwhile ==
  ASSUME Shape, Careful, Accounts, ~raced'
  PROVE  ~raced /\ ~Calling /\ ~Calling' /\ \A c \in Callers : call[c] = Idle /\ call'[c] = Idle
<1>1. CASE raced' = (raced \/ Calling)
  BY <1>1, DoesAccounts DEF Calling
<1>2. CASE raced' = raced /\ desk # Idle
  <2>1. ~raced /\ ~Calling
    BY <1>2 DEF Careful, Alone
  <2> QED
    BY <2>1, DoesAccounts DEF Calling
<1> QED
  BY <1>1, <1>2, DoesAccounts

LEMMA CarefulAccounts == ASSUME Shape, Careful, Accounts PROVE Careful'
<1>1. Alone'
  BY NotMeanwhile DEF Alone
<1>2. ASSUME Calm'
      PROVE  MovedAway' /\ \A c \in Callers : call'[c] = Idle
  <2>1. Calm /\ "revived" \notin hands'
    BY <1>2, NotMeanwhile, DoesAccounts DEF Calm
  <2>2. MovedAway /\ \A c \in Callers : call'[c] = Idle
    BY <1>2, <2>1, NotMeanwhile DEF Careful, Calm
  <2>3. CASE UNCHANGED invoice
    BY <2>2, <2>3, AwayKept
  <2>4. ASSUME NEW i, NEW v, Deals(i, v)
        PROVE  MovedAway'
    <3>1. Rewrites(i, v) /\ v.moved = invoice[i].moved /\ i \in Here
      BY <2>4 DEF Deals, Rewrites
    <3>2. v.moved # None => i \notin Live /\ ~invoice[i].paid
      BY <2>2, <3>1 DEF MovedAway, Live
    <3>3. v.moved # None => v.approval # "approved" /\ v.status = "void" /\ ~v.paid
      BY <2>1, <2>4, <3>2 DEF Deals
    <3> QED
      BY <2>2, <3>1, <3>3, StillAway
  <2>5. ASSUME NEW i, Deletes(i)
        PROVE  MovedAway'
    BY <2>2, <2>5 DEF MovedAway, Deletes
  <2> QED
    BY <2>2, <2>3, <2>4, <2>5, DoesAccounts
<1> QED
  BY <1>1, <1>2 DEF Careful

----------------------------------------------------------------------------
LEMMA NextIs ==
  ASSUME Next
  PROVE  \/ \E c \in Callers : Continue(c) \/ Die(c) \/ \E org \in Orgs : Send(c, org)
         \/ Accounts
  BY DEF Next, Accounts

LEMMA NextCareful == Shape /\ Careful /\ [Next]_vars => Careful'
<1> SUFFICES ASSUME Shape, Careful, [Next]_vars PROVE Careful'
  OBVIOUS
<1>1. ASSUME NEW c \in Callers, Continue(c) PROVE Careful'
  BY <1>1, CarefulLook, CarefulCreate, CarefulKey, CarefulMoveOut, CarefulRestore, CarefulRewrite,
     CarefulRequeue DEF Continue
<1>2. CASE UNCHANGED vars
  <2>1. UNCHANGED <<invoice, call, desk, raced, hands>> /\ Here' = Here
    BY <1>2 DEF vars, Here
  <2> QED
    BY <2>1 DEF Careful, Alone, Calling, Calm, MovedAway, Fine, Movable
<1> QED
  BY <1>1, <1>2, NextIs, CarefulDie, CarefulSend, CarefulAccounts

LEMMA CarefulInvariance == Spec => [](Shape /\ Careful)
<1>1. Init => Shape /\ Careful
  BY InitShape, InitCareful
<1>2. Shape /\ Careful /\ [Next]_vars => Shape' /\ Careful'
  BY NextShape, NextCareful
<1> QED
  BY <1>1, <1>2, PTL DEF Spec

LEMMA KeptByAll == ASSUME Shape, NEW c \in Callers, Continue(c) PROVE Kept(c)
<1>1. CASE Elsewhere(c) \/ Key(c)
  BY <1>1, DoesElsewhere, DoesKey
<1>2. CASE Create(c)
  BY <1>2, DoesCreate
<1>3. CASE MoveOut(c)
  BY <1>3, DoesMoveOut
<1>4. CASE Back(c)
  BY <1>4, DoesBack
<1>5. CASE Restore(c)
  BY <1>5, DoesRestore
<1>6. CASE Correct(c) \/ Rewrite(c) \/ Requeue(c)
  BY <1>6, DoesCorrect, DoesRewrite, DoesRequeue
<1> QED
  BY <1>1, <1>2, <1>3, <1>4, <1>5, <1>6 DEF Continue

\* What a call's step does to an approved invoice: nothing.
LEMMA ApprovedKept ==
  ASSUME Shape, Careful, NEW c \in Callers, Continue(c), Calm, NEW j \in Here, invoice[j].approval = "approved"
  PROVE  invoice'[j] = invoice[j]
<1>1. call[c] # Idle /\ Fine(c)
  BY Being DEF Continue, Careful, Elsewhere, Create, Key, MoveOut, Back, Restore, Correct, Rewrite, Requeue
<1>2. call[c].mine # j
  BY <1>1 DEF Fine
<1>3. CASE Elsewhere(c) \/ Back(c) \/ Correct(c)
  BY <1>3, DoesElsewhere, DoesBack, DoesCorrect
<1>4. CASE Create(c)
  BY <1>4, DoesCreate
<1>5. CASE Key(c) \/ Restore(c) \/ Rewrite(c) \/ Requeue(c)
  <2>1. UNCHANGED invoice \/ \E v : Rewrites(call[c].mine, v)
    BY <1>5, DoesKey, DoesRestore, DoesRewrite, DoesRequeue
  <2> QED
    BY <1>2, <2>1 DEF Rewrites
<1>6. CASE MoveOut(c)
  <2>1. \/ UNCHANGED invoice
        \/ invoice[call[c].other].approval = "returned" /\ \E v : Rewrites(call[c].other, v)
    BY <1>6, DoesMoveOut
  <2> QED
    BY <2>1 DEF Rewrites
<1> QED
  BY <1>3, <1>4, <1>5, <1>6 DEF Continue

\* "An approved or paid invoice is not something a resend may quietly rewrite":
\* no step of a call changes an approved invoice, where calls come one at a time with
\* nothing between their steps and nobody restored or approved a voided invoice.
THEOREM ApprovedIsLeft == Spec => ApprovedStands
<1>1. ASSUME Shape, Careful, [Next]_vars, ~raced', "revived" \notin hands, call' # call,
             NEW j \in Here, invoice[j].approval = "approved"
      PROVE  invoice'[j] = invoice[j]
  <2>1. ASSUME NEW c \in Callers, Continue(c)
        PROVE  invoice'[j] = invoice[j]
    <3>1. Kept(c)
      BY <1>1, <2>1, KeptByAll
    <3>2. Calm
      BY <1>1, <3>1 DEF Kept, Calm
    <3> QED
      BY <1>1, <2>1, <3>2, ApprovedKept
  <2>2. ASSUME NEW c \in Callers, Die(c) \/ \E org \in Orgs : Send(c, org)
        PROVE  invoice'[j] = invoice[j]
    BY <2>2 DEF Die, Send
  <2>3. CASE Accounts
    BY <1>1, <2>3, DoesAccounts
  <2>4. CASE UNCHANGED vars
    BY <2>4 DEF vars
  <2> QED
    BY <1>1, <2>1, <2>2, <2>3, <2>4, NextIs
<1>2. Shape /\ Careful /\ [Next]_vars =>
        [~raced' /\ "revived" \notin hands /\ call' # call =>
            \A i \in Here : invoice[i].approval = "approved" => invoice'[i] = invoice[i]]_vars
  BY <1>1
<1> QED
  BY <1>2, CarefulInvariance, PTL DEF Spec, ApprovedStands

----------------------------------------------------------------------------
(* Where the calls of the CRM do not overlap, an enrolment stays billed. *)

OneCaller == \A c, d \in Callers : c = d

Untouched == hands \cap {"voided", "deleted"} = {}

Mine(c) == call[c].mine \in Here /\ invoice[call[c].mine].keyed

\* The invoice a call is about to bill by is there, and not void once the other is at risk.
Holds(c) ==
    /\ call[c].at \in {"key", "moveOut"} => call[c].mine \in Live
    /\ call[c].at \in {"back", "restore", "correct", "rewrite", "requeue", "moveOut"} => Mine(c)
    /\ call[c].at \in {"correct", "rewrite", "requeue"} /\ call[c].other # None => call[c].mine \in Live

Stays == StaysBilled /\ (Untouched => \A c \in Callers : call[c] # Idle => Holds(c))

LEMMA InitStays == Init => Stays
  BY DEF Init, Stays, StaysBilled, Here

LEMMA RewritesLive ==
  ASSUME NEW i, NEW v, Rewrites(i, v)
  PROVE  /\ \A j \in Here : j # i => (j \in Live' <=> j \in Live) /\ invoice'[j].keyed = invoice[j].keyed
         /\ i \in Live' <=> v.status # "void"
         /\ i \in Here' /\ invoice'[i].keyed = v.keyed
  BY DEF Rewrites, Live

\* One invoice that is not void and carries the id is enough ...
LEMMA BilledBy ==
  ASSUME NEW i, i \in Live', invoice'[i].keyed
  PROVE  StaysBilled'
  BY DEF StaysBilled

\* ... as is that none lost the id, was voided, or got it.
LEMMA BilledStill ==
  ASSUME StaysBilled, Untouched' => Untouched,
         \A i \in Here' : invoice'[i].keyed => i \in Here /\ invoice[i].keyed,
         \A i \in Live : i \in Live' /\ invoice'[i].keyed = invoice[i].keyed
  PROVE  StaysBilled'
  BY DEF StaysBilled, Untouched

LEMMA BilledSame ==
  ASSUME StaysBilled, UNCHANGED invoice, Untouched' => Untouched
  PROVE  StaysBilled' /\ Here' = Here /\ Live' = Live
  BY DEF StaysBilled, Untouched, Here, Live

LEMMA BilledRewritten ==
  ASSUME StaysBilled, Untouched' => Untouched, NEW i, NEW v, Rewrites(i, v), v.keyed = invoice[i].keyed,
         i \in Live => v.status # "void"
  PROVE  StaysBilled'
<1>1. \A j \in Here' : invoice'[j].keyed => j \in Here /\ invoice[j].keyed
  BY RewritesLive DEF Rewrites
<1>2. \A j \in Live : j \in Live' /\ invoice'[j].keyed = invoice[j].keyed
  BY RewritesLive DEF Rewrites, Live
<1> QED
  BY <1>1, <1>2, BilledStill

\* The one call's step.
LEMMA CallStays ==
  ASSUME OneCaller, NEW c \in Callers, hands' = hands,
         Untouched => StaysBilled' /\ (call'[c] # Idle => Holds(c)')
  PROVE  Stays'
<1>1. Untouched' <=> Untouched
  BY DEF Untouched
<1>2. \A d \in Callers : d = c
  BY DEF OneCaller
<1>3. ASSUME Untouched', NEW d \in Callers, call'[d] # Idle
      PROVE  Holds(d)'
  BY <1>1, <1>2, <1>3
<1>4. StaysBilled'
  BY <1>1 DEF StaysBilled, Untouched
<1> QED
  BY <1>3, <1>4 DEF Stays

LEMMA StaysLook ==
  ASSUME Shape, OneCaller, Stays, NEW c \in Callers, Elsewhere(c) \/ Back(c) \/ Correct(c)
  PROVE  Stays'
<1>1. UNCHANGED <<invoice, hands>> /\ call[c] # Idle
  BY Being DEF Elsewhere, Back, Correct, Quiet
<1>2. StaysBilled' /\ Here' = Here /\ Live' = Live
  BY <1>1, BilledSame DEF Stays, Untouched
<1>3. ASSUME Untouched, call'[c] # Idle
      PROVE  Holds(c)'
  <2>1. CASE Elsewhere(c)
    BY <1>3, <2>1, DoesElsewhere DEF Holds
  <2>2. CASE Back(c)
    <3>1. call[c].at = "back" /\ call'[c].at = "restore" /\ call'[c].mine = call[c].mine
      BY <1>3, <2>2, DoesBack
    <3> QED
      BY <1>1, <1>2, <1>3, <3>1 DEF Stays, Holds, Mine
  <2>3. CASE Correct(c)
    <3>1. /\ call[c].at = "correct" /\ call'[c].at = "rewrite" /\ call'[c].mine = call[c].mine
          /\ call'[c].other = call[c].other
      BY <1>3, <2>3, DoesCorrect
    <3> QED
      BY <1>1, <1>2, <1>3, <3>1 DEF Stays, Holds, Mine
  <2> QED
    BY <2>1, <2>2, <2>3
<1> QED
  BY <1>1, <1>2, <1>3, CallStays

LEMMA StaysSend ==
  ASSUME Shape, OneCaller, Stays, NEW c \in Callers, NEW org \in Orgs, Send(c, org)
  PROVE  Stays'
<1>1. UNCHANGED <<invoice, hands>> /\ call'[c].other = None
  BY DoesSend
<1>2. StaysBilled' /\ Here' = Here /\ Live' = Live
  BY <1>1, BilledSame DEF Stays, Untouched
<1>3. \/ call'[c].at = "elsewhere"
      \/ call'[c].at \in {"back", "correct"} /\ call'[c].mine \in Keyed(org)
  BY DoesSend
<1>4. Holds(c)'
  BY <1>1, <1>2, <1>3 DEF Holds, Mine, Keyed
<1> QED
  BY <1>1, <1>2, <1>4, CallStays

LEMMA StaysDie == ASSUME Shape, OneCaller, Stays, NEW c \in Callers, Die(c) PROVE Stays'
<1>1. UNCHANGED <<invoice, hands>> /\ call'[c] = Idle
  BY DEF Die, Done, To, Shape, TypeOK
<1>2. StaysBilled'
  BY <1>1, BilledSame DEF Stays, Untouched
<1> QED
  BY <1>1, <1>2, CallStays

LEMMA StaysCreate == ASSUME Shape, OneCaller, Stays, NEW c \in Callers, Create(c) PROVE Stays'
<1> DEFINE i == call'[c].mine
<1>1. /\ Kept(c) /\ call'[c].at = "key" /\ i \in Here' /\ i \notin Here /\ Here' = Here \cup {i}
      /\ \A j \in Here : invoice'[j] = invoice[j]
      /\ invoice'[i].status = "draft" /\ invoice'[i].keyed = FALSE
  BY DoesCreate
<1>2. hands' = hands /\ (Untouched' => Untouched)
  BY <1>1 DEF Kept, Untouched
<1>3. /\ \A j \in Here' : invoice'[j].keyed => j \in Here /\ invoice[j].keyed
      /\ \A j \in Live : j \in Live' /\ invoice'[j].keyed = invoice[j].keyed
      /\ i \in Live'
  BY <1>1 DEF Live
<1>4. StaysBilled'
  BY <1>2, <1>3, BilledStill DEF Stays
<1>5. Holds(c)'
  BY <1>1, <1>3 DEF Holds
<1> QED
  BY <1>2, <1>4, <1>5, CallStays

LEMMA StaysKey == ASSUME Shape, OneCaller, Stays, NEW c \in Callers, Key(c) PROVE Stays'
<1> DEFINE i == call[c].mine
           v == [invoice[i] EXCEPT !.keyed = TRUE]
<1>1. call[c].at = "key" /\ Kept(c)
  BY DoesKey
<1>2. hands' = hands /\ (Untouched' => Untouched) /\ call[c] # Idle
  BY <1>1, Being DEF Kept, Untouched
<1>3. Untouched => i \in Live
  BY <1>1, <1>2 DEF Stays, Holds
<1>4. CASE UNCHANGED invoice /\ (Keyed(call[c].org) # {} \/ i \notin Here)
  <2>1. StaysBilled'
    BY <1>2, <1>4, BilledSame DEF Stays
  <2>2. Untouched => call'[c] = Idle
    BY <1>3, <1>4, DoesKey DEF Live
  <2> QED
    BY <1>2, <2>1, <2>2, CallStays
<1>5. CASE Rewrites(i, v)
  <2>1. i \in Here /\ invoice[i] \in Invoice
    BY <1>5, Standing DEF Rewrites
  <2>2. v.keyed /\ v.status = invoice[i].status
    BY <2>1 DEF Invoice
  <2>3. Untouched => i \in Live' /\ invoice'[i].keyed /\ i \in Here'
    BY <1>3, <1>5, <2>2, RewritesLive DEF Live
  <2>4. Untouched => StaysBilled'
    BY <2>3, BilledBy
  <2>5. Untouched /\ call'[c] # Idle => Holds(c)'
    BY <2>3, DoesKey DEF Holds, Mine
  <2> QED
    BY <1>2, <2>4, <2>5, CallStays
<1> QED
  BY <1>4, <1>5, DoesKey

LEMMA StaysMoveOut == ASSUME Shape, OneCaller, Stays, NEW c \in Callers, MoveOut(c) PROVE Stays'
<1> DEFINE i == call[c].other
           v == [invoice[i] EXCEPT !.status = "void", !.moved = [to |-> call[c].mine, from |-> call[c].from]]
<1>1. call[c].at = "moveOut" /\ Kept(c) /\ call'[c] = Idle
  BY DoesMoveOut
<1>2. hands' = hands /\ (Untouched' => Untouched) /\ call[c] # Idle /\ call[c].mine \in Invoices
  BY <1>1, Being DEF Kept, Untouched, Shaped
<1>3. Untouched => call[c].mine \in Live /\ invoice[call[c].mine].keyed
  BY <1>1, <1>2 DEF Stays, Holds, Mine
<1>4. CASE UNCHANGED invoice
  BY <1>1, <1>2, <1>4, BilledSame, CallStays DEF Stays
<1>5. CASE Rewrites(i, v)
  <2>1. Untouched => call[c].mine \in Live' /\ invoice'[call[c].mine].keyed
    BY <1>2, <1>3, <1>5, Apart, RewritesLive DEF Live
  <2>2. Untouched => StaysBilled'
    BY <2>1, BilledBy
  <2> QED
    BY <1>1, <1>2, <2>2, CallStays
<1> QED
  BY <1>4, <1>5, DoesMoveOut

LEMMA StaysRestore == ASSUME Shape, OneCaller, Stays, NEW c \in Callers, Restore(c) PROVE Stays'
<1> DEFINE i == call[c].mine
           v == [invoice[i] EXCEPT !.status = call[c].moved.from, !.moved = None]
<1>1. /\ call[c].at = "restore" /\ Kept(c) /\ call'[c].at = "correct"
      /\ call'[c].mine = i /\ call'[c].other = call[c].other
  BY DoesRestore DEF Same
<1>2. hands' = hands /\ (Untouched' => Untouched) /\ call[c] # Idle
  BY <1>1, Being DEF Kept, Untouched
<1>3. Untouched => i \in Here /\ invoice[i].keyed
  BY <1>1, <1>2 DEF Stays, Holds, Mine
<1>4. CASE UNCHANGED invoice /\ i \notin Here
  BY <1>2, <1>3, <1>4, CallStays
<1>5. CASE Rewrites(i, v)
  <2>1. i \in Here /\ invoice[i] \in Invoice
    BY <1>5, Standing DEF Rewrites
  <2>2. v.keyed = invoice[i].keyed /\ v.status # "void"
    BY <2>1, DoesRestore DEF Invoice
  <2>3. Untouched => i \in Live' /\ i \in Here' /\ invoice'[i].keyed
    BY <1>3, <1>5, <2>2, RewritesLive
  <2>4. Untouched => StaysBilled'
    BY <2>3, BilledBy
  <2>5. Untouched => Holds(c)'
    BY <1>1, <2>3 DEF Holds, Mine
  <2> QED
    BY <1>2, <2>4, <2>5, CallStays
<1> QED
  BY <1>4, <1>5, DoesRestore

LEMMA StaysRewrite == ASSUME Shape, OneCaller, Stays, NEW c \in Callers, Rewrite(c) PROVE Stays'
<1> DEFINE i == call[c].mine
<1>1. call[c].at = "rewrite" /\ Kept(c)
  BY DoesRewrite
<1>2. hands' = hands /\ (Untouched' => Untouched) /\ call[c] # Idle
  BY <1>1, Being DEF Kept, Untouched
<1>3. Untouched => Mine(c) /\ (call[c].other # None => i \in Live)
  BY <1>1, <1>2 DEF Stays, Holds
<1>4. CASE call'[c] = Idle /\ UNCHANGED invoice
  BY <1>2, <1>4, BilledSame, CallStays DEF Stays
<1>5. ASSUME NEW status \in Statuses, status # "void" \/ status = invoice[i].status,
             Rewrites(i, [invoice[i] EXCEPT !.status = status]),
             call'[c].at = "requeue", call'[c].mine = i, call'[c].other = call[c].other
      PROVE  Stays'
  <2> DEFINE v == [invoice[i] EXCEPT !.status = status]
  <2>1. i \in Here /\ invoice[i] \in Invoice
    BY <1>5, Standing DEF Rewrites
  <2>2. v.keyed = invoice[i].keyed /\ v.status = status
    BY <2>1 DEF Invoice
  <2>3. Rewrites(i, v)
    BY <1>5
  <2> HIDE DEF v
  <2>4. i \in Live => v.status # "void"
    BY <1>5, <2>2 DEF Live
  <2>5. StaysBilled'
    BY <1>2, <2>2, <2>3, <2>4, BilledRewritten DEF Stays
  <2>6. Untouched => Holds(c)'
    BY <1>3, <1>5, <2>2, <2>3, <2>4, RewritesLive DEF Holds, Mine
  <2> QED
    BY <1>2, <2>5, <2>6, CallStays
<1> QED
  BY <1>4, <1>5, DoesRewrite

LEMMA StaysRequeue == ASSUME Shape, OneCaller, Stays, NEW c \in Callers, Requeue(c) PROVE Stays'
<1> DEFINE i == call[c].mine
           v == [invoice[i] EXCEPT !.approval = "pending"]
<1>1. call[c].at = "requeue" /\ Kept(c)
  BY DoesRequeue
<1>2. hands' = hands /\ (Untouched' => Untouched) /\ call[c] # Idle
  BY <1>1, Being DEF Kept, Untouched
<1>3. Untouched => Mine(c) /\ (call[c].other # None => i \in Live)
  BY <1>1, <1>2 DEF Stays, Holds
<1>4. call'[c] # Idle => call'[c].at = "moveOut" /\ call'[c].mine = i /\ call[c].other # None
  BY DoesRequeue DEF Same
<1>5. CASE UNCHANGED invoice /\ i \notin Here
  <2>1. StaysBilled'
    BY <1>2, <1>5, BilledSame DEF Stays
  <2> QED
    BY <1>2, <1>3, <1>5, <2>1, CallStays DEF Mine
<1>6. CASE Rewrites(i, v)
  <2>1. i \in Here /\ invoice[i] \in Invoice
    BY <1>6, Standing DEF Rewrites
  <2>2. v.keyed = invoice[i].keyed /\ v.status = invoice[i].status
    BY <2>1 DEF Invoice
  <2> HIDE DEF v
  <2>3. i \in Live => v.status # "void"
    BY <2>2 DEF Live
  <2>4. StaysBilled'
    BY <1>2, <1>6, <2>2, <2>3, BilledRewritten DEF Stays
  <2>5. Untouched /\ call'[c] # Idle => Holds(c)'
    BY <1>3, <1>4, <1>6, <2>2, <2>3, RewritesLive DEF Holds, Mine
  <2> QED
    BY <1>2, <2>4, <2>5, CallStays
<1> QED
  BY <1>5, <1>6, DoesRequeue

\* Accounts void or delete it, or it goes on billing; the call finds what it holds.
LEMMA StaysAccounts == ASSUME Shape, Stays, Accounts PROVE Stays'
<1>1. UNCHANGED call /\ hands \subseteq hands' /\ (Untouched' => Untouched)
  BY DoesAccounts DEF Untouched
<1>2. Untouched' => \A c \in Callers : call[c] # Idle => Holds(c)
  BY <1>1 DEF Stays
<1>3. CASE UNCHANGED invoice
  <2>1. StaysBilled' /\ Here' = Here /\ Live' = Live
    BY <1>1, <1>3, BilledSame DEF Stays
  <2> QED
    BY <1>1, <1>2, <1>3, <2>1 DEF Stays, Holds, Mine
<1>4. ASSUME NEW i, NEW v, Deals(i, v)
      PROVE  Stays'
  <2>1. Rewrites(i, v) /\ v.keyed = invoice[i].keyed /\ Here' = Here
    BY <1>4 DEF Deals, Rewrites
  <2>2. Untouched' /\ i \in Live => v.status # "void"
    BY <1>4 DEF Deals, Untouched
  <2>3. Untouched' => StaysBilled'
    BY <1>1, <2>1, <2>2, BilledRewritten DEF Stays
  <2>4. ASSUME Untouched', NEW c \in Callers, call'[c] # Idle
        PROVE  Holds(c)'
    <3>1. \A j \in Live : j \in Live'
      BY <2>1, <2>2, <2>4, RewritesLive DEF Live
    <3>2. \A j \in Here : invoice'[j].keyed = invoice[j].keyed
      BY <2>1, RewritesLive
    <3> QED
      BY <1>1, <1>2, <2>1, <2>4, <3>1, <3>2 DEF Holds, Mine
  <2> QED
    BY <2>3, <2>4 DEF Stays, StaysBilled, Untouched
<1>5. ASSUME NEW i, Deletes(i)
      PROVE  Stays'
  BY <1>5 DEF Deletes, Stays, StaysBilled, Untouched
<1> QED
  BY <1>3, <1>4, <1>5, DoesAccounts

LEMMA NextStays == ASSUME OneCaller PROVE Shape /\ Stays /\ [Next]_vars => Stays'
<1> SUFFICES ASSUME Shape, Stays, [Next]_vars PROVE Stays'
  OBVIOUS
<1>1. ASSUME NEW c \in Callers, Continue(c) PROVE Stays'
  BY <1>1, StaysLook, StaysCreate, StaysKey, StaysMoveOut, StaysRestore, StaysRewrite,
     StaysRequeue DEF Continue
<1>2. CASE UNCHANGED vars
  <2>1. UNCHANGED <<invoice, call, hands>> /\ Here' = Here /\ Live' = Live
    BY <1>2 DEF vars, Here, Live
  <2> QED
    BY <2>1 DEF Stays, StaysBilled, Untouched, Holds, Mine
<1> QED
  BY <1>1, <1>2, NextIs, StaysDie, StaysSend, StaysAccounts

\* Made in one academy first and voided in the other then: an enrolment taken is billed
\* by an invoice that carries the CRM's id and is not void, wherever calls die and
\* whatever else accounts do, unless they void or delete one.  For one call at a time: two
\* that overlap can void both.
THEOREM EnrolmentStaysBilled == ASSUME OneCaller PROVE Spec => []StaysBilled
<1>1. Init => Shape /\ Stays
  BY InitShape, InitStays
<1>2. Shape /\ Stays /\ [Next]_vars => Shape' /\ Stays'
  BY NextShape, NextStays
<1>3. Stays => StaysBilled
  BY DEF Stays
<1> QED
  BY <1>1, <1>2, <1>3, PTL DEF Spec

----------------------------------------------------------------------------
(* Where they come one at a time and none died, it is billed once. *)

Once == Calm /\ faults = 0 /\ "orphaned" \notin hands

\* What moved away carries the id, and became one of the other academy that does.
MovedThere ==
    \A i \in Here : invoice[i].moved # None =>
        LET to == invoice[i].moved.to IN
        invoice[i].keyed /\ to \in Here /\ invoice[to].keyed /\ invoice[to].org # invoice[i].org

\* The id is not on it yet.
Making(c, i) == call[c].at = "key" /\ call[c].mine = i

LiveKeyed == \A i \in Live : invoice[i].keyed \/ \E c \in Callers : Making(c, i)

Lone == \A i, j \in Live : i = j

\* A correction is of the one invoice that is not void, or that one is what it moves out.
Corrects(c) ==
    IF call[c].other = None THEN Lone
    ELSE /\ Live \subseteq {call[c].mine, call[c].other}
         /\ call[c].mine \in Live /\ ~invoice[call[c].mine].paid

\* What is not void while a call is where it is.
Placed(c) ==
    /\ call[c].at \in {"elsewhere", "back"} => Lone
    /\ call[c].at \in {"elsewhere", "create", "key"} => Keyed(call[c].org) = {}
    /\ call[c].at \in {"create", "restore"} => Live \subseteq {call[c].other}
    /\ call[c].at = "key" => call[c].mine \in Here
    /\ call[c].at \in {"back", "restore", "correct", "rewrite", "requeue", "moveOut"} => Mine(c)
    /\ call[c].at \in {"back", "restore"} =>
         invoice[call[c].mine].moved = call[c].moved /\ call[c].moved # None
    /\ call[c].at \in {"key", "moveOut"} => Live \subseteq {call[c].mine, call[c].other}
    /\ call[c].at \in {"correct", "rewrite", "requeue"} => Corrects(c)
    /\ call[c].at = "rewrite" => call[c].mine \in Live /\ call[c].read.paid = invoice[call[c].mine].paid
    /\ call[c].other # None => invoice[call[c].other].keyed /\ invoice[call[c].other].org # call[c].org

Single == Once => /\ MovedThere /\ LiveKeyed
                  /\ ~Calling => Lone
                  /\ \A c \in Callers : call[c] # Idle => Placed(c)

LEMMA InitSingle == Init => Single
  BY DEF Init, Single, MovedThere, LiveKeyed, Lone, Live, Here

\* The one call in progress.
LEMMA CallSingle ==
  ASSUME Careful, NEW c \in Callers, call[c] # Idle, Kept(c),
         Once => /\ MovedThere' /\ \A i \in Live' : invoice'[i].keyed \/ Making(c, i)'
                 /\ call'[c] = Idle => Lone'
                 /\ call'[c] # Idle => Placed(c)'
  PROVE  Single'
<1>1. Once' <=> Once
  BY DEF Once, Calm, Kept
<1>2. ASSUME Once, NEW d \in Callers, call'[d] # Idle
      PROVE  d = c
  BY <1>2, OnlyOne DEF Kept, Once, Calm
<1>3. Once => LiveKeyed'
  BY DEF LiveKeyed
<1>4. Once /\ ~Calling' => Lone'
  BY DEF Calling
<1>5. ASSUME Once', NEW d \in Callers, call'[d] # Idle
      PROVE  Placed(d)'
  BY <1>1, <1>2, <1>5
<1> QED
  BY <1>1, <1>3, <1>4, <1>5 DEF Single

\* What holds while a call is in progress.
LEMMA Meanwhile ==
  ASSUME Shape, Careful, Single, Once, NEW c \in Callers, call[c] # Idle
  PROVE  /\ MovedThere /\ MovedAway /\ Placed(c) /\ Fine(c)
         /\ \A i \in Live : invoice[i].keyed \/ Making(c, i)
<1>1. \A d \in Callers : d # c => ~\E i : Making(d, i)
  BY OnlyOne DEF Once, Calm, Making, Idle
<1> QED
  BY <1>1 DEF Single, Careful, LiveKeyed, Once

LEMMA ThereSame ==
  ASSUME UNCHANGED invoice
  PROVE  /\ Here' = Here /\ Live' = Live /\ (Lone' <=> Lone) /\ (MovedThere' <=> MovedThere)
         /\ \A org : Keyed(org)' = Keyed(org)
  BY DEF Here, Live, Lone, MovedThere, Keyed

LEMMA ThereStill ==
  ASSUME MovedThere, NEW i, NEW v, Rewrites(i, v), v.org = invoice[i].org, invoice[i].keyed => v.keyed,
         v.moved = None \/ v.moved = invoice[i].moved
  PROVE  MovedThere'
<1>1. ASSUME NEW j \in Here
      PROVE  invoice'[j].org = invoice[j].org /\ (invoice[j].keyed => invoice'[j].keyed)
  BY DEF Rewrites
<1>2. ASSUME NEW j \in Here, invoice'[j].moved # None
      PROVE  invoice[j].moved = invoice'[j].moved
  BY <1>2 DEF Rewrites
<1>3. Here' = Here
  BY DEF Rewrites
<1> QED
  BY <1>1, <1>2, <1>3 DEF MovedThere

LEMMA NoneLive == None \notin Live /\ None \notin Here
  BY NoneAssumption DEF Live, Here

LEMMA SingleElsewhere ==
  ASSUME Shape, Careful, Single, NEW c \in Callers, Elsewhere(c)
  PROVE  Single'
<1>1. call[c] # Idle /\ Kept(c) /\ UNCHANGED invoice /\ call[c].at = "elsewhere"
  BY DoesElsewhere, Being
<1>2. /\ Here' = Here /\ Live' = Live /\ (Lone' <=> Lone) /\ (MovedThere' <=> MovedThere)
      /\ \A org : Keyed(org)' = Keyed(org)
  BY <1>1, ThereSame
<1>3. ASSUME Once
      PROVE  /\ MovedThere' /\ Lone' /\ \A i \in Live' : invoice'[i].keyed
             /\ call'[c] # Idle => Placed(c)'
  <2>1. /\ MovedThere /\ Lone /\ Keyed(call[c].org) = {} /\ \A i \in Live : invoice[i].keyed
    BY <1>1, <1>3, Meanwhile DEF Placed, Making
  <2>2. ASSUME call'[c] # Idle
        PROVE  Placed(c)'
    <3>1. /\ call'[c].at = "create" /\ call'[c].mine = None /\ call'[c].org = call[c].org
          /\ \/ /\ call'[c].other = None
                /\ \A i \in Live : ~invoice[i].keyed \/ invoice[i].org = call[c].org
             \/ /\ call'[c].other \in Live
                /\ invoice[call'[c].other].keyed /\ invoice[call'[c].other].org # call[c].org
      BY <2>2, DoesElsewhere
    <3>2. CASE call'[c].other = None /\ \A i \in Live : ~invoice[i].keyed \/ invoice[i].org = call[c].org
      <4>1. Live = {}
        BY <2>1, <3>2 DEF Keyed, Live
      <4> QED
        BY <1>2, <2>1, <3>1, <3>2, <4>1 DEF Placed, Keyed
    <3>3. CASE call'[c].other \in Live
      <4>1. Live \subseteq {call'[c].other}
        BY <2>1, <3>3 DEF Lone
      <4> QED
        BY <1>1, <1>2, <2>1, <3>1, <3>3, <4>1, NoneLive DEF Placed, Keyed
    <3> QED
      BY <3>1, <3>2, <3>3
  <2> QED
    BY <1>1, <1>2, <2>1, <2>2
<1> QED
  BY <1>1, <1>3, CallSingle

LEMMA SingleCreate == ASSUME Shape, Careful, Single, NEW c \in Callers, Create(c) PROVE Single'
<1> DEFINE i == call'[c].mine
<1>1. /\ Kept(c) /\ call[c].at = "create" /\ call'[c].at = "key"
      /\ call'[c].org = call[c].org /\ call'[c].other = call[c].other
      /\ i \notin Here /\ Here' = Here \cup {i} /\ \A j \in Here : invoice'[j] = invoice[j]
      /\ invoice'[i].moved = None /\ invoice'[i].keyed = FALSE /\ invoice'[i].status = "draft"
  BY DoesCreate
<1>2. call[c] # Idle
  BY <1>1, Being
<1>3. Live' = Live \cup {i}
  BY <1>1 DEF Live
<1>4. ASSUME Once
      PROVE  /\ MovedThere' /\ \A j \in Live' : invoice'[j].keyed \/ Making(c, j)'
             /\ Placed(c)' /\ call'[c] # Idle
  <2>1. /\ MovedThere /\ Keyed(call[c].org) = {} /\ Live \subseteq {call[c].other}
        /\ \A j \in Live : invoice[j].keyed
        /\ call[c].other # None => /\ invoice[call[c].other].keyed /\ invoice[call[c].other].org # call[c].org
                                   /\ call[c].other \in Here
    BY <1>1, <1>2, <1>4, Meanwhile DEF Placed, Making, Fine
  <2>2. MovedThere'
    BY <1>1, <2>1 DEF MovedThere
  <2>3. \A j \in Live' : invoice'[j].keyed \/ Making(c, j)'
    BY <1>1, <1>3, <2>1 DEF Making, Live
  <2>4. Keyed(call[c].org)' = {}
    BY <1>1, <2>1 DEF Keyed
  <2>5. Placed(c)'
    BY <1>1, <1>3, <2>1, <2>4 DEF Placed
  <2> QED
    BY <1>1, <2>2, <2>3, <2>5 DEF Idle
<1> QED
  BY <1>1, <1>2, <1>4, CallSingle

LEMMA SingleKey == ASSUME Shape, Careful, Single, NEW c \in Callers, Key(c) PROVE Single'
<1> DEFINE i == call[c].mine
           v == [invoice[i] EXCEPT !.keyed = TRUE]
<1>1. Kept(c) /\ call[c].at = "key"
  BY DoesKey
<1>2. call[c] # Idle
  BY <1>1, Being
<1>3. ASSUME Once
      PROVE  /\ MovedThere' /\ \A j \in Live' : invoice'[j].keyed
             /\ call'[c] = Idle => Lone'
             /\ call'[c] # Idle => Placed(c)'
  <2>1. /\ MovedThere /\ Keyed(call[c].org) = {} /\ i \in Here /\ Live \subseteq {i, call[c].other}
        /\ \A j \in Live : invoice[j].keyed \/ j = i
        /\ call[c].other # None => invoice[call[c].other].keyed /\ invoice[call[c].other].org # call[c].org
    BY <1>1, <1>2, <1>3, Meanwhile DEF Placed, Making
  <2>2. Rewrites(i, v)
    BY <2>1, DoesKey
  <2>3. v.keyed /\ v.org = invoice[i].org /\ v.moved = invoice[i].moved /\ v.status = invoice[i].status
    BY <2>1, Standing DEF Invoice
  <2> HIDE DEF v
  <2>4. MovedThere'
    BY <2>1, <2>2, <2>3, ThereStill
  <2>5. Live' = Live
    BY <2>2, <2>3 DEF Rewrites, Live
  <2>6. \A j \in Live' : invoice'[j].keyed
    BY <2>1, <2>2, <2>3, <2>5 DEF Rewrites, Live
  <2>7. call'[c] = Idle => Lone'
    <3>1. call'[c] = Idle => call'[c].at # "moveOut"
      BY DEF Idle
    <3>2. call'[c].at = "moveOut" \/ call[c].other = None
      BY <2>1, DoesKey
    <3> QED
      BY <2>1, <2>5, <3>1, <3>2, NoneLive DEF Lone
  <2>8. ASSUME call'[c] # Idle PROVE Placed(c)'
    <3>1. /\ call'[c].at = "moveOut" /\ call'[c].mine = i /\ call'[c].org = call[c].org
          /\ call'[c].other = call[c].other
      BY <2>8, DoesKey
    <3>2. Mine(c)'
      BY <2>2, <2>3, <3>1 DEF Mine, Rewrites
    <3>3. call[c].other # None => invoice'[call[c].other].keyed /\ invoice'[call[c].other].org # call[c].org
      <4>1. call[c].other # None => call[c].other \in Here
        BY <1>2, <1>3, Meanwhile DEF Fine
      <4> QED
        BY <2>1, <2>2, <2>3, <4>1 DEF Rewrites
    <3> QED
      BY <2>1, <2>5, <3>1, <3>2, <3>3 DEF Placed
  <2> QED
    BY <2>4, <2>6, <2>7, <2>8
<1> QED
  BY <1>1, <1>2, <1>3, CallSingle

LEMMA SingleMoveOut == ASSUME Shape, Careful, Single, NEW c \in Callers, MoveOut(c) PROVE Single'
<1> DEFINE i == call[c].other
           v == [invoice[i] EXCEPT !.status = "void", !.moved = [to |-> call[c].mine, from |-> call[c].from]]
<1>1. Kept(c) /\ call[c].at = "moveOut" /\ call'[c] = Idle
  BY DoesMoveOut
<1>2. call[c] # Idle /\ i # None
  BY <1>1, Being DEF Shaped
<1>3. ASSUME Once
      PROVE  MovedThere' /\ Lone' /\ \A j \in Live' : invoice'[j].keyed
  <2>1. /\ MovedThere /\ Mine(c) /\ Live \subseteq {call[c].mine, i} /\ \A j \in Live : invoice[j].keyed
        /\ invoice[i].keyed /\ invoice[i].org # call[c].org
        /\ i \in Here /\ invoice[i].approval = "returned"
    BY <1>1, <1>2, <1>3, Meanwhile DEF Placed, Making, Fine, Movable
  <2>2. invoice[call[c].mine].org = call[c].org /\ call[c].mine # i
    BY <1>1, <2>1, Being DEF Mine
  <2>3. CASE UNCHANGED invoice /\ i \notin Live
    BY <2>1, <2>3, ThereSame DEF Lone
  <2>4. CASE Rewrites(i, v)
    <3>1. /\ v.keyed = invoice[i].keyed /\ v.org = invoice[i].org /\ v.status = "void"
          /\ v.moved.to = call[c].mine
      BY <2>1, Standing DEF Invoice
    <3> HIDE DEF v
    <3>2. Live' \subseteq {call[c].mine}
      BY <2>1, <2>4, <3>1 DEF Rewrites, Live
    <3>3. /\ Here' = Here /\ invoice'[i] = v
          /\ \A j \in Here : j # i => invoice'[j] = invoice[j]
          /\ \A j \in Here : invoice'[j].keyed = invoice[j].keyed /\ invoice'[j].org = invoice[j].org
      BY <2>4, <3>1 DEF Rewrites
    <3>4. MovedThere'
      <4> SUFFICES ASSUME NEW j \in Here, invoice'[j].moved # None
                   PROVE  LET to == invoice'[j].moved.to IN
                          /\ invoice'[j].keyed /\ to \in Here /\ invoice'[to].keyed
                          /\ invoice'[to].org # invoice'[j].org
        BY <3>3 DEF MovedThere
      <4>1. CASE j = i
        BY <2>1, <2>2, <3>1, <3>3, <4>1 DEF Mine
      <4>2. CASE j # i
        BY <2>1, <3>3, <4>2 DEF MovedThere
      <4> QED
        BY <4>1, <4>2
    <3>5. \A j \in Live' : invoice'[j].keyed
      BY <2>1, <3>2, <3>3 DEF Mine
    <3> QED
      BY <3>2, <3>4, <3>5 DEF Lone
  <2> QED
    BY <2>1, <2>3, <2>4, DoesMoveOut
<1> QED
  BY <1>1, <1>2, <1>3, CallSingle

\* An id is on one invoice of an academy, and there are two academies: what is not void is
\* the one that moved away, or the one it became.
LEMMA OneOfTwo ==
  ASSUME Shape, MovedThere, NEW m \in Here, invoice[m].moved # None, NEW j \in Here, invoice[j].keyed
  PROVE  j = m \/ j = invoice[m].moved.to
<1> DEFINE to == invoice[m].moved.to
<1>1. invoice[m].keyed /\ to \in Here /\ invoice[to].keyed /\ invoice[to].org # invoice[m].org
  BY DEF MovedThere
<1>2. invoice[j].org = invoice[m].org \/ invoice[j].org = invoice[to].org
  BY <1>1, Standing, OrgsAssumption
<1> QED
  BY <1>1, <1>2 DEF Shape, OneKeyed

LEMMA SingleBack == ASSUME Shape, Careful, Single, NEW c \in Callers, Back(c) PROVE Single'
<1> DEFINE i == call[c].moved.to
<1>1. Kept(c) /\ UNCHANGED invoice /\ call[c].at = "back" /\ call[c].mine # i
  BY DoesBack
<1>2. call[c] # Idle
  BY <1>1, Being
<1>3. /\ Here' = Here /\ Live' = Live /\ (Lone' <=> Lone) /\ (MovedThere' <=> MovedThere)
  BY <1>1, ThereSame
<1>4. ASSUME Once
      PROVE  /\ MovedThere' /\ Lone' /\ \A j \in Live' : invoice'[j].keyed
             /\ call'[c] # Idle => Placed(c)'
  <2>1. /\ MovedThere /\ MovedAway /\ Mine(c) /\ Lone /\ \A j \in Live : invoice[j].keyed
        /\ invoice[call[c].mine].moved = call[c].moved /\ call[c].moved # None
    BY <1>1, <1>2, <1>4, Meanwhile DEF Placed, Making
  <2>2. invoice[call[c].mine].org = call[c].org /\ call[c].mine \in Here /\ call[c].mine \notin Live
    BY <1>1, <2>1, Being DEF Mine, MovedAway, Live
  <2>3. /\ i \in Here /\ invoice[i].keyed /\ invoice[i].org # call[c].org
        /\ \A j \in Live : j = i
    BY <2>1, <2>2, OneOfTwo DEF MovedThere, Live
  <2>4. ASSUME call'[c] # Idle
        PROVE  Placed(c)'
    <3>1. /\ call'[c].at = "restore" /\ call'[c].mine = call[c].mine /\ call'[c].org = call[c].org
          /\ call'[c].moved = call[c].moved
          /\ \/ call'[c].other = None /\ i \notin Live
             \/ call'[c].other = i
      BY <2>4, DoesBack
    <3>2. Live \subseteq {call'[c].other}
      BY <2>3, <3>1
    <3>3. Mine(c)'
      BY <1>1, <1>3, <2>1, <3>1 DEF Mine
    <3> QED
      BY <1>1, <1>3, <2>1, <2>3, <3>1, <3>2, <3>3 DEF Placed
  <2> QED
    BY <1>1, <1>3, <2>1, <2>4
<1> QED
  BY <1>1, <1>2, <1>4, CallSingle

LEMMA SingleRestore == ASSUME Shape, Careful, Single, NEW c \in Callers, Restore(c) PROVE Single'
<1> DEFINE i == call[c].mine
           v == [invoice[i] EXCEPT !.status = call[c].moved.from, !.moved = None]
<1>1. /\ Kept(c) /\ call[c].at = "restore" /\ call'[c].at = "correct"
      /\ call'[c].mine = i /\ call'[c].other = call[c].other /\ call'[c].org = call[c].org
  BY DoesRestore DEF Same
<1>2. call[c] # Idle /\ call[c].moved.from # "void"
  BY <1>1, Being, DoesRestore
<1>3. ASSUME Once
      PROVE  /\ MovedThere' /\ Placed(c)' /\ call'[c] # Idle /\ \A j \in Live' : invoice'[j].keyed
  <2>1. /\ MovedThere /\ Mine(c) /\ Live \subseteq {call[c].other} /\ \A j \in Live : invoice[j].keyed
        /\ ~invoice[i].paid /\ i \in Here
        /\ call[c].other # None => /\ invoice[call[c].other].keyed /\ invoice[call[c].other].org # call[c].org
                                   /\ call[c].other \in Here
    BY <1>1, <1>2, <1>3, Meanwhile DEF Placed, Making, Mine, MovedAway, Fine
  <2>2. Rewrites(i, v)
    BY <2>1, DoesRestore
  <2>3. /\ v.keyed = invoice[i].keyed /\ v.org = invoice[i].org /\ v.moved = None /\ v.status # "void"
        /\ v.paid = invoice[i].paid
    BY <1>2, <2>1, Standing DEF Invoice
  <2> HIDE DEF v
  <2>4. MovedThere'
    BY <2>1, <2>2, <2>3, ThereStill
  <2>5. Live' \subseteq {i, call[c].other} /\ i \in Live'
    BY <2>1, <2>2, <2>3 DEF Rewrites, Live
  <2>6. /\ Here' = Here /\ invoice'[i] = v /\ \A j \in Here : j # i => invoice'[j] = invoice[j]
    BY <2>2 DEF Rewrites
  <2>7. Corrects(c)'
    <3>1. call[c].other = None => Lone'
      BY <2>5, <2>6, NoneAssumption DEF Lone, Live, Here
    <3> QED
      BY <1>1, <2>1, <2>3, <2>5, <2>6, <3>1 DEF Corrects
  <2>8. Placed(c)'
    BY <1>1, <2>1, <2>3, <2>6, <2>7 DEF Placed, Mine
  <2>9. \A j \in Live' : invoice'[j].keyed
    BY <2>1, <2>3, <2>5, <2>6, NoneAssumption DEF Mine, Live, Here
  <2> QED
    BY <1>1, <2>4, <2>8, <2>9 DEF Idle
<1> QED
  BY <1>1, <1>2, <1>3, CallSingle

LEMMA SingleCorrect == ASSUME Shape, Careful, Single, NEW c \in Callers, Correct(c) PROVE Single'
<1> DEFINE i == call[c].mine
<1>1. Kept(c) /\ UNCHANGED invoice /\ call[c].at = "correct"
  BY DoesCorrect
<1>2. call[c] # Idle
  BY <1>1, Being
<1>3. /\ Here' = Here /\ Live' = Live /\ (Lone' <=> Lone) /\ (MovedThere' <=> MovedThere)
  BY <1>1, ThereSame
<1>4. ASSUME Once
      PROVE  /\ MovedThere' /\ \A j \in Live' : invoice'[j].keyed
             /\ call'[c] = Idle => Lone'
             /\ call'[c] # Idle => Placed(c)'
  <2>1. /\ MovedThere /\ Mine(c) /\ Corrects(c) /\ \A j \in Live : invoice[j].keyed
        /\ call[c].other # None => invoice[call[c].other].keyed /\ invoice[call[c].other].org # call[c].org
    BY <1>1, <1>2, <1>4, Meanwhile DEF Placed, Making
  <2>2. call'[c] = Idle => Lone
    <3>1. call'[c] = Idle => (i \in Live => invoice[i].paid)
      <4>1. call'[c] = Idle => call'[c].at # "rewrite"
        BY DEF Idle
      <4> QED
        BY <4>1, DoesCorrect
    <3> QED
      BY <2>1, <3>1 DEF Corrects
  <2>3. ASSUME call'[c] # Idle
        PROVE  Placed(c)'
    <3>1. /\ i \in Live /\ call'[c].at = "rewrite" /\ call'[c].mine = i /\ call'[c].org = call[c].org
          /\ call'[c].other = call[c].other /\ call'[c].read.paid = invoice[i].paid
      BY <2>3, DoesCorrect
    <3>2. Mine(c)' /\ Corrects(c)'
      BY <1>1, <1>3, <2>1, <3>1 DEF Mine, Corrects
    <3> QED
      BY <1>1, <1>3, <2>1, <3>1, <3>2 DEF Placed
  <2> QED
    BY <1>1, <1>3, <2>1, <2>2, <2>3
<1> QED
  BY <1>1, <1>2, <1>4, CallSingle

LEMMA SingleRewrite == ASSUME Shape, Careful, Single, NEW c \in Callers, Rewrite(c) PROVE Single'
<1> DEFINE i == call[c].mine
<1>1. Kept(c) /\ call[c].at = "rewrite"
  BY DoesRewrite
<1>2. call[c] # Idle
  BY <1>1, Being
<1>3. ASSUME Once
      PROVE  /\ MovedThere' /\ Placed(c)' /\ call'[c] # Idle /\ \A j \in Live' : invoice'[j].keyed
  <2>1. /\ MovedThere /\ Mine(c) /\ Corrects(c) /\ \A j \in Live : invoice[j].keyed
        /\ i \in Live /\ i \in Here /\ call[c].read.paid = invoice[i].paid
        /\ call[c].other # None => /\ invoice[call[c].other].keyed /\ invoice[call[c].other].org # call[c].org
                                   /\ call[c].other \in Here
    BY <1>1, <1>2, <1>3, Meanwhile DEF Placed, Making, Mine, Fine
  <2>2. /\ call'[c].at = "requeue" /\ call'[c].mine = i /\ call'[c].org = call[c].org
        /\ call'[c].other = call[c].other
        /\ \E status \in Statuses : /\ status # "void" \/ status = invoice[i].status
                                    /\ Rewrites(i, [invoice[i] EXCEPT !.status = status])
    BY <2>1, DoesRewrite
  <2>3. PICK status \in Statuses : /\ status # "void" \/ status = invoice[i].status
                                   /\ Rewrites(i, [invoice[i] EXCEPT !.status = status])
    BY <2>2
  <2> DEFINE v == [invoice[i] EXCEPT !.status = status]
  <2>4. /\ v.keyed = invoice[i].keyed /\ v.org = invoice[i].org /\ v.moved = invoice[i].moved
        /\ v.status # "void" /\ v.paid = invoice[i].paid
    BY <2>1, <2>3, Standing DEF Invoice, Live
  <2>5. Rewrites(i, v)
    BY <2>3
  <2> HIDE DEF v
  <2>6. MovedThere'
    BY <2>1, <2>4, <2>5, ThereStill
  <2>7. /\ Here' = Here /\ invoice'[i] = v /\ \A j \in Here : j # i => invoice'[j] = invoice[j]
        /\ Live' = Live
    BY <2>1, <2>4, <2>5 DEF Rewrites, Live
  <2>8. Mine(c)' /\ Corrects(c)'
    BY <2>1, <2>2, <2>4, <2>7 DEF Mine, Corrects, Lone
  <2>9. Placed(c)'
    BY <2>1, <2>2, <2>4, <2>7, <2>8 DEF Placed
  <2>10. \A j \in Live' : invoice'[j].keyed
    BY <2>1, <2>4, <2>7 DEF Live
  <2> QED
    BY <2>2, <2>6, <2>9, <2>10 DEF Idle
<1> QED
  BY <1>1, <1>2, <1>3, CallSingle

LEMMA SingleRequeue == ASSUME Shape, Careful, Single, NEW c \in Callers, Requeue(c) PROVE Single'
<1> DEFINE i == call[c].mine
           v == [invoice[i] EXCEPT !.approval = "pending"]
<1>1. Kept(c) /\ call[c].at = "requeue"
  BY DoesRequeue
<1>2. call[c] # Idle
  BY <1>1, Being
<1>3. ASSUME Once
      PROVE  /\ MovedThere' /\ \A j \in Live' : invoice'[j].keyed
             /\ call'[c] = Idle => Lone'
             /\ call'[c] # Idle => Placed(c)'
  <2>1. /\ MovedThere /\ Mine(c) /\ Corrects(c) /\ \A j \in Live : invoice[j].keyed /\ i \in Here
        /\ call[c].other # None => /\ invoice[call[c].other].keyed /\ invoice[call[c].other].org # call[c].org
                                   /\ call[c].other \in Here
    BY <1>1, <1>2, <1>3, Meanwhile DEF Placed, Making, Mine, Fine
  <2>2. Rewrites(i, v)
    BY <2>1, DoesRequeue DEF Mine
  <2>3. /\ v.keyed = invoice[i].keyed /\ v.org = invoice[i].org /\ v.moved = invoice[i].moved
        /\ v.status = invoice[i].status
    BY <2>1, Standing DEF Invoice, Mine
  <2>4. \/ call'[c] = Idle /\ call[c].other = None
        \/ /\ call'[c].at = "moveOut" /\ call[c].other # None /\ call'[c].mine = i
           /\ call'[c].org = call[c].org /\ call'[c].other = call[c].other
    BY DoesRequeue DEF Same
  <2> HIDE DEF v
  <2>5. MovedThere'
    BY <2>1, <2>2, <2>3, ThereStill
  <2>6. /\ Here' = Here /\ invoice'[i] = v /\ \A j \in Here : j # i => invoice'[j] = invoice[j]
        /\ Live' = Live
    BY <2>2, <2>3 DEF Rewrites, Live
  <2>7. \A j \in Live' : invoice'[j].keyed
    BY <2>1, <2>3, <2>6 DEF Live
  <2>8. call'[c] = Idle => Lone'
    <3>1. call'[c] = Idle => call'[c].at # "moveOut"
      BY DEF Idle
    <3> QED
      BY <2>1, <2>4, <2>6, <3>1 DEF Corrects, Lone
  <2>9. ASSUME call'[c] # Idle
        PROVE  Placed(c)'
    <3>1. /\ call'[c].at = "moveOut" /\ call[c].other # None /\ call'[c].mine = i
          /\ call'[c].org = call[c].org /\ call'[c].other = call[c].other
      BY <2>4, <2>9
    <3>2. Mine(c)'
      BY <2>1, <2>3, <2>6, <3>1 DEF Mine
    <3>3. Live \subseteq {i, call[c].other}
      BY <2>1, <3>1 DEF Corrects
    <3> QED
      BY <2>1, <2>3, <2>6, <3>1, <3>2, <3>3 DEF Placed
  <2> QED
    BY <2>5, <2>7, <2>8, <2>9
<1> QED
  BY <1>1, <1>2, <1>3, CallSingle

LEMMA SingleSend ==
  ASSUME Shape, Careful, Single, NEW c \in Callers, NEW org \in Orgs, Send(c, org)
  PROVE  Single'
<1>1. /\ UNCHANGED <<invoice, hands, faults>> /\ raced' = (raced \/ Calling \/ desk # Idle)
      /\ \A d \in Callers : d # c => call'[d] = call[d]
      /\ call'[c] # Idle /\ call'[c].org = org /\ call'[c].other = None
  BY DoesSend
<1>2. ASSUME ~raced'
      PROVE  ~raced /\ ~Calling /\ \A d \in Callers : call[d] = Idle /\ (d # c => call'[d] = Idle)
  BY <1>1, <1>2 DEF Calling
<1>3. /\ Here' = Here /\ Live' = Live /\ (Lone' <=> Lone) /\ (MovedThere' <=> MovedThere)
      /\ \A o : Keyed(o)' = Keyed(o)
  BY <1>1, ThereSame
<1>4. ASSUME Once'
      PROVE  MovedThere /\ Lone /\ \A j \in Live : invoice[j].keyed
  <2>1. Once /\ ~Calling
    BY <1>1, <1>2, <1>4 DEF Once, Calm
  <2>2. \A d \in Callers, j \in Live : ~Making(d, j)
    BY <1>2, <1>4 DEF Making, Idle, Once, Calm
  <2> QED
    BY <2>1, <2>2 DEF Single, LiveKeyed
<1>5. ASSUME Once' PROVE Placed(c)'
  <2>1. Lone
    BY <1>4, <1>5
  <2>2. CASE call'[c].at = "elsewhere" /\ Keyed(org) = {}
    BY <1>1, <1>3, <2>1, <2>2 DEF Placed, Keyed
  <2>3. CASE /\ call'[c].mine \in Keyed(org) /\ call'[c].at \in {"back", "correct"}
             /\ call'[c].at = "back" => /\ invoice[call'[c].mine].moved # None
                                        /\ call'[c].moved = invoice[call'[c].mine].moved
    <3>1. Mine(c)' /\ Corrects(c)'
      BY <1>1, <1>3, <2>1, <2>3 DEF Mine, Corrects, Keyed
    <3> QED
      BY <1>1, <1>3, <2>1, <2>3, <3>1 DEF Placed
  <2> QED
    BY <2>2, <2>3, DoesSend
<1>6. Once' => \A d \in Callers : call'[d] # Idle => d = c
  BY <1>2 DEF Once, Calm
<1>7. Once' => MovedThere' /\ LiveKeyed' /\ Calling'
  BY <1>1, <1>3, <1>4 DEF LiveKeyed, Calling
<1> QED
  BY <1>5, <1>6, <1>7 DEF Single

LEMMA SingleDie == ASSUME Shape, NEW c \in Callers, Die(c) PROVE Single'
<1>1. faults \in Nat /\ faults' = faults + 1
  BY Faulty, BoundsAssumption DEF Die
<1> QED
  BY <1>1 DEF Single, Once

LEMMA SingleAccounts == ASSUME Shape, Careful, Single, Accounts PROVE Single'
<1>1. UNCHANGED <<call, faults>> /\ hands \subseteq hands'
  BY DoesAccounts
<1>2. ASSUME Once'
      PROVE  /\ MovedThere /\ Lone /\ \A j \in Live : invoice[j].keyed
             /\ ~Calling' /\ \A c \in Callers : call'[c] = Idle
             /\ "revived" \notin hands' /\ "orphaned" \notin hands'
  <2>1. Once /\ ~Calling /\ ~Calling' /\ \A c \in Callers : call[c] = Idle /\ call'[c] = Idle
    BY <1>1, <1>2, NotMeanwhile DEF Once, Calm
  <2>2. \A c \in Callers, j \in Live : ~Making(c, j)
    BY <2>1 DEF Making, Idle
  <2> QED
    BY <1>2, <2>1, <2>2 DEF Single, LiveKeyed, Once, Calm
<1>3. ASSUME Once', MovedThere', Lone', \A j \in Live' : invoice'[j].keyed
      PROVE  Single'
  BY <1>2, <1>3 DEF Single, LiveKeyed
<1>4. ASSUME Once'
      PROVE  MovedThere' /\ Lone' /\ \A j \in Live' : invoice'[j].keyed
  <2>1. CASE UNCHANGED invoice
    BY <1>2, <1>4, <2>1, ThereSame
  <2>2. ASSUME NEW i, NEW v, Deals(i, v)
        PROVE  MovedThere' /\ Lone' /\ \A j \in Live' : invoice'[j].keyed
    <3>1. Rewrites(i, v) /\ v.org = invoice[i].org /\ v.keyed = invoice[i].keyed /\ v.moved = invoice[i].moved
      BY <2>2 DEF Deals
    <3>2. i \notin Live => v.status = "void"
      BY <1>2, <1>4, <2>2 DEF Deals
    <3>3. MovedThere'
      BY <1>2, <1>4, <3>1, ThereStill
    <3>4. \A j \in Live' : j \in Live /\ invoice'[j].keyed = invoice[j].keyed
      BY <3>1, <3>2 DEF Rewrites, Live
    <3> QED
      BY <1>2, <1>4, <3>3, <3>4 DEF Lone
  <2>3. ASSUME NEW i, Deletes(i)
        PROVE  MovedThere' /\ Lone' /\ \A j \in Live' : invoice'[j].keyed
    <3>1. /\ Here' = Here \ {i} /\ \A j \in Here' : invoice'[j] = invoice[j]
          /\ \A j \in Here : invoice[j].moved # None => invoice[j].moved.to # i
      BY <1>2, <1>4, <2>3 DEF Deletes
    <3>2. MovedThere'
      BY <1>2, <1>4, <3>1 DEF MovedThere
    <3>3. \A j \in Live' : j \in Live /\ invoice'[j] = invoice[j]
      BY <3>1 DEF Live
    <3> QED
      BY <1>2, <1>4, <3>2, <3>3 DEF Lone
  <2> QED
    BY <2>1, <2>2, <2>3, DoesAccounts
<1> QED
  BY <1>3, <1>4 DEF Single

LEMMA NextSingle == Shape /\ Careful /\ Single /\ [Next]_vars => Single'
<1> SUFFICES ASSUME Shape, Careful, Single, [Next]_vars PROVE Single'
  OBVIOUS
<1>1. ASSUME NEW c \in Callers, Continue(c) PROVE Single'
  BY <1>1, SingleElsewhere, SingleCreate, SingleKey, SingleMoveOut, SingleBack, SingleRestore,
     SingleCorrect, SingleRewrite, SingleRequeue DEF Continue
<1>2. CASE UNCHANGED vars
  <2>1. UNCHANGED <<invoice, call, faults, raced, hands>>
    BY <1>2 DEF vars
  <2>2. /\ Here' = Here /\ Live' = Live /\ (Lone' <=> Lone) /\ (MovedThere' <=> MovedThere)
        /\ \A org : Keyed(org)' = Keyed(org)
    BY <2>1, ThereSame
  <2>3. (Once' <=> Once) /\ (Calling' <=> Calling) /\ (LiveKeyed' <=> LiveKeyed)
    BY <2>1, <2>2 DEF Once, Calm, Calling, LiveKeyed, Making
  <2>4. ASSUME NEW c \in Callers, Placed(c) PROVE Placed(c)'
    <3>1. /\ Mine(c) => Mine(c)'
          /\ Corrects(c) => Corrects(c)'
      BY <2>1, <2>2 DEF Mine, Corrects
    <3>2. Keyed(call[c].org) = {} => Keyed(call[c].org)' = {}
      BY <2>1, <2>2 DEF Keyed
    <3> QED
      BY <2>1, <2>2, <2>4, <3>1, <3>2 DEF Placed
  <2> QED
    BY <2>1, <2>2, <2>3, <2>4 DEF Single
<1> QED
  BY <1>1, <1>2, NextIs, SingleDie, SingleSend, SingleAccounts

LEMMA LoneIsOne == ASSUME Lone PROVE Cardinality(Live) <= 1
<1>1. CASE Live = {}
  BY <1>1, FS_EmptySet
<1>2. ASSUME NEW i \in Live
      PROVE  Cardinality(Live) = 1
  <2>1. Live = {i}
    BY DEF Lone
  <2>2. Cardinality({i}) = 1
    BY FS_Singleton
  <2> QED
    BY <2>1, <2>2
<1> QED
  BY <1>1, <1>2

\* "Never a second one, and never a second bill": however often an enrolment is sent,
\* corrected and moved between the academies, one invoice of it at most is not void, where
\* calls come one at a time and none died, and nobody restored or approved a voided invoice,
\* nor deleted one another had moved to.
THEOREM BilledOnce == Spec => []OneBill
<1>1. Init => Shape /\ Careful /\ Single
  BY InitShape, InitCareful, InitSingle
<1>2. Shape /\ Careful /\ Single /\ [Next]_vars => Shape' /\ Careful' /\ Single'
  BY NextShape, NextCareful, NextSingle
<1>3. Single => OneBill
  BY LoneIsOne DEF Single, Once, Calm, OneBill
<1> QED
  BY <1>1, <1>2, <1>3, PTL DEF Spec
=============================================================================
