------------------------ MODULE EnrolmentIntakeProofs ------------------------
(***************************************************************************)
(* What EnrolmentIntake guarantees for every number of invoices, calls and *)
(* deaths.                                                                 *)
(***************************************************************************)
EXTENDS EnrolmentIntake, FiniteSetTheorems, TLAPS

(* What a call holds, whatever else happens. *)

Shaped(k, ids) ==
    /\ IF k.at \in {"elsewhere", "create"} THEN k.mine = None ELSE k.mine \in Invoices
    /\ k.at \in {"elsewhere", "back"} => k.other = None
    /\ k.at \in {"back", "restore"} =>
         k.moved \in Moved /\ k.moved.from # "void" /\ k.moved.to # k.mine
    /\ k.at = "rewrite" => k.read \in Read
    /\ k.at = "moveOut" => k.other # None
    /\ k.other # None => k.other \in ids /\ k.other # k.mine /\ k.from # "void"
    /\ k.mine # None => k.mine \in ids

CallShape == \A c \in Callers : call[c] # Idle => Shaped(call[c], used)

DeskShape == desk.at = "approve" => desk.read \in Read

\* No invoice moved to itself, nor while it was void.
MovedShape ==
    \A i \in Here : invoice[i].moved # None =>
        invoice[i].moved.from # "void" /\ invoice[i].moved.to # i

\* The CRM's id is on one invoice of an academy at most.
OneKeyed ==
    \A i, j \in Here : invoice[i].keyed /\ invoice[j].keyed /\ invoice[i].org = invoice[j].org => i = j

\* The invoice a call found or made is of the academy it was sent to.
InItsBooks ==
    \A c \in Callers : call[c] # Idle /\ call[c].mine \in Here => invoice[call[c].mine].org = call[c].org

Shape == TypeOK /\ CallShape /\ DeskShape /\ MovedShape /\ OneKeyed /\ InItsBooks

----------------------------------------------------------------------------
LEMMA InitShape == Init => Shape
<1> SUFFICES ASSUME Init PROVE Shape
  OBVIOUS
<1>1. Here = {} /\ desk.at = "idle" /\ \A c \in Callers : call[c] = Idle
  BY DEF Init, Here, Idle
<1>2. faults \in 0..MaxFaults
  BY BoundsAssumption DEF Init
<1>3. TypeOK
  BY <1>1, <1>2 DEF Init, TypeOK
<1> QED
  BY <1>1, <1>3 DEF Shape, CallShape, DeskShape, MovedShape, OneKeyed, InItsBooks

\* A call that is between two of its steps.
LEMMA Running ==
  ASSUME Shape, NEW c \in Callers, call[c] # Idle
  PROVE  /\ call[c] \in Call /\ Shaped(call[c], used)
         /\ call[c].at \in {"elsewhere", "create", "key", "back", "restore", "correct", "rewrite",
                            "requeue", "moveOut"}
         /\ call[c].org \in Orgs /\ call[c].mine \in Invoices \cup {None}
         /\ call[c].moved \in Moved \cup {None} /\ call[c].other \in Invoices \cup {None}
         /\ call[c].from \in Statuses /\ call[c].read \in Read \cup {None}
  BY DEF Shape, TypeOK, CallShape, Call

\* An invoice that is there.
LEMMA Standing ==
  ASSUME Shape, NEW i \in Here
  PROVE  /\ i \in Invoices /\ i \in used /\ invoice[i] \in Invoice
         /\ invoice[i].org \in Orgs /\ invoice[i].keyed \in BOOLEAN
         /\ invoice[i].approval \in {"pending", "returned", "approved"}
         /\ invoice[i].status \in Statuses /\ invoice[i].paid \in BOOLEAN
         /\ invoice[i].moved \in Moved \cup {None}
  BY DEF Shape, TypeOK, Here, Invoice

\* A step of one call: what it becomes, and what became of the invoices.
LEMMA Going ==
  ASSUME Shape, NEW c \in Callers, NEW k \in Call \cup {Idle},
         To(c, k), k # Idle => Shaped(k, used'),
         k # Idle /\ k.mine \in Here' => invoice'[k.mine].org = k.org,
         invoice' \in [Invoices -> Invoice \cup {None}],
         used \subseteq used', used' \subseteq Invoices, Here' \subseteq used',
         \A i \in Here' \cap Here : invoice'[i].org = invoice[i].org,
         \A i \in Here' \ Here : i \notin used,
         MovedShape', OneKeyed',
         faults' \in 0..MaxFaults, raced' \in BOOLEAN, UNCHANGED <<desk, hands>>
  PROVE  Shape'
<1>1. /\ call' \in [Callers -> Call \cup {Idle}]
      /\ call'[c] = k /\ \A d \in Callers : d # c => call'[d] = call[d]
  BY DEF To, Shape, TypeOK
<1>2. TypeOK'
  BY <1>1 DEF Shape, TypeOK
<1>3. CallShape'
  BY <1>1 DEF Shape, CallShape, Shaped
<1>4. ASSUME NEW d \in Callers, call'[d] # Idle, call'[d].mine \in Here'
      PROVE  invoice'[call'[d].mine].org = call'[d].org
  <2>1. CASE d = c
    BY <1>1, <1>4, <2>1
  <2>2. CASE d # c
    <3>1. call'[d] = call[d] /\ Shaped(call[d], used) /\ call[d].mine \in Invoices \cup {None}
      BY <1>1, <1>4, <2>2, Running
    <3>2. call[d].mine \in used
      BY <3>1, <1>4, NoneAssumption DEF Shaped, Here
    <3>3. call[d].mine \in Here
      BY <3>1, <3>2, <1>4
    <3> QED
      BY <3>1, <3>3, <1>4 DEF Shape, InItsBooks
  <2> QED
    BY <2>1, <2>2
<1>5. InItsBooks'
  BY <1>4 DEF InItsBooks
<1>6. DeskShape'
  BY DEF Shape, DeskShape
<1> QED
  BY <1>2, <1>3, <1>5, <1>6 DEF Shape

----------------------------------------------------------------------------
(* What a step makes of its call. *)

\* It goes on to another step and holds what it held.
LEMMA GoIs ==
  ASSUME Shape, NEW c \in Callers, call[c] # Idle,
         NEW at \in {"elsewhere", "create", "key", "back", "restore", "correct", "rewrite", "requeue", "moveOut"}
  PROVE  LET k == [call[c] EXCEPT !.at = at] IN
           /\ Go(c, at) => To(c, k)
           /\ k \in Call /\ k # Idle /\ k.at = at
           /\ k.org = call[c].org /\ k.mine = call[c].mine /\ k.moved = call[c].moved
           /\ k.other = call[c].other /\ k.from = call[c].from /\ k.read = call[c].read
<1> DEFINE k == [call[c] EXCEPT !.at = at]
<1>1. call[c] \in Call
  BY Running
<1>2. k \in Call /\ k.at = at
  BY <1>1 DEF Call
<1>3. k # Idle
  BY <1>2 DEF Idle
<1>4. Go(c, at) => To(c, k)
  BY DEF Go, To
<1> QED
  BY <1>1, <1>2, <1>3, <1>4 DEF Call

\* A step that leaves the invoices alone.
LEMMA Looking ==
  ASSUME Shape, NEW c \in Callers, NEW k \in Call \cup {Idle},
         To(c, k), k # Idle => Shaped(k, used), k # Idle /\ k.mine \in Here => invoice[k.mine].org = k.org,
         faults' \in 0..MaxFaults, raced' \in BOOLEAN, UNCHANGED <<invoice, used, desk, hands>>
  PROVE  Shape'
<1>1. k # Idle => Shaped(k, used')
  BY DEF Shaped
<1>2. Here' = Here /\ MovedShape' /\ OneKeyed'
  BY DEF Shape, Here, MovedShape, OneKeyed
<1> QED
  BY <1>1, <1>2, Going DEF Shape, TypeOK

\* A step that rewrites one invoice that is there, its academy and id kept.
LEMMA Rewriting ==
  ASSUME Shape, NEW c \in Callers, NEW k \in Call \cup {Idle},
         To(c, k), k # Idle => Shaped(k, used), k # Idle /\ k.mine \in Here => invoice[k.mine].org = k.org,
         NEW i \in Here, NEW v \in Invoice, v.org = invoice[i].org, v.keyed = invoice[i].keyed,
         v.moved # None => v.moved.from # "void" /\ v.moved.to # i,
         invoice' = [invoice EXCEPT ![i] = v],
         UNCHANGED <<used, faults, raced, desk, hands>>
  PROVE  Shape'
<1>1. k # Idle => Shaped(k, used')
  BY DEF Shaped
<1>2. /\ invoice \in [Invoices -> Invoice \cup {None}] /\ i \in Invoices /\ None \notin Invoice
      /\ invoice'[i] = v /\ \A j \in Invoices : j # i => invoice'[j] = invoice[j]
  BY NoneAssumption DEF Shape, TypeOK, Here
<1>3. Here' = Here
  BY <1>2 DEF Here
<1>4. MovedShape'
  BY <1>2, <1>3 DEF Shape, MovedShape, Here
<1>5. \A j \in Here : invoice'[j].org = invoice[j].org /\ invoice'[j].keyed = invoice[j].keyed
  BY <1>2 DEF Here
<1>6. OneKeyed'
  BY <1>3, <1>5 DEF Shape, OneKeyed
<1>7. k # Idle /\ k.mine \in Here' => invoice'[k.mine].org = k.org
  BY <1>3, <1>5
<1>8. invoice' \in [Invoices -> Invoice \cup {None}]
  BY <1>2
<1>9. faults' \in 0..MaxFaults /\ raced' \in BOOLEAN /\ used' \subseteq Invoices /\ Here' \subseteq used'
  BY <1>3 DEF Shape, TypeOK
<1> QED
  BY <1>1, <1>3, <1>4, <1>5, <1>6, <1>7, <1>8, <1>9, Going

LEMMA Faulty == Shape => faults \in 0..MaxFaults /\ raced \in BOOLEAN
  BY DEF Shape, TypeOK

----------------------------------------------------------------------------
(* Every action keeps the shape: the CRM's. *)

LEMMA ShapeSend == ASSUME Shape, NEW c \in Callers, NEW org \in Orgs, Send(c, org) PROVE Shape'
<1> DEFINE sent(at, i) == [at |-> at, org |-> org, mine |-> i, other |-> None,
                           moved |-> IF i = None THEN None ELSE invoice[i].moved,
                           from |-> "draft", read |-> None]
<1>1. faults' \in 0..MaxFaults /\ raced' \in BOOLEAN /\ UNCHANGED <<invoice, used, desk, hands>>
  BY Faulty DEF Send
<1>2. None \notin Invoices /\ None \notin Moved
  BY NoneAssumption
<1>3. CASE To(c, sent("elsewhere", None))
  <2>1. sent("elsewhere", None) \in Call /\ sent("elsewhere", None) # Idle
    BY DEF Call, Idle, Statuses
  <2>2. Shaped(sent("elsewhere", None), used)
    BY DEF Shaped
  <2>3. None \notin Here
    BY <1>2 DEF Here
  <2> QED
    BY <1>1, <1>3, <2>1, <2>2, <2>3, Looking
<1>4. ASSUME NEW i \in Keyed(org), NEW at \in {"back", "correct"}, at = "back" => invoice[i].moved # None,
             To(c, sent(at, i))
      PROVE  Shape'
  <2>1. i \in Here /\ invoice[i].org = org /\ i # None
    BY <1>2, <1>4 DEF Keyed, Here
  <2>2. i \in Invoices /\ i \in used /\ invoice[i].moved \in Moved \cup {None}
    BY <2>1, Standing
  <2>3. invoice[i].moved # None => invoice[i].moved.from # "void" /\ invoice[i].moved.to # i
    BY <2>1 DEF Shape, MovedShape
  <2>4. sent(at, i) \in Call /\ sent(at, i) # Idle
    BY <1>4, <2>1, <2>2 DEF Call, Idle, Statuses
  <2>5. Shaped(sent(at, i), used)
    BY <1>4, <2>1, <2>2, <2>3 DEF Shaped
  <2> HIDE DEF sent
  <2>6. sent(at, i).mine = i /\ sent(at, i).org = org
    BY DEF sent
  <2> QED
    BY <1>1, <1>4, <2>1, <2>4, <2>5, <2>6, Looking
<1> QED
  BY <1>3, <1>4 DEF Send

LEMMA ShapeElsewhere == ASSUME Shape, NEW c \in Callers, Elsewhere(c) PROVE Shape'
<1>0. call[c].at = "elsewhere" /\ UNCHANGED <<invoice, used, desk, hands, faults, raced>>
  BY DEF Elsewhere, Quiet
<1>1. /\ call[c] # Idle /\ call[c].at = "elsewhere" /\ UNCHANGED <<invoice, used, desk, hands, faults, raced>>
      /\ faults' \in 0..MaxFaults /\ raced' \in BOOLEAN
  BY <1>0, Faulty DEF Idle
<1>2. Shaped(call[c], used) /\ call[c] \in Call
  BY <1>1, Running
<1>3. call[c].mine \in Here => invoice[call[c].mine].org = call[c].org
  BY <1>1 DEF Shape, InItsBooks
<1>4. CASE Go(c, "create")
  <2> DEFINE k == [call[c] EXCEPT !.at = "create"]
  <2>1. /\ To(c, k) /\ k \in Call /\ k.at = "create" /\ k.org = call[c].org /\ k.mine = call[c].mine
        /\ k.other = call[c].other /\ k.from = call[c].from
    BY <1>1, <1>4, GoIs
  <2> HIDE DEF k
  <2>2. Shaped(k, used)
    BY <1>1, <1>2, <2>1 DEF Shaped
  <2> QED
    BY <1>1, <1>3, <2>1, <2>2, Looking
<1>5. ASSUME NEW i \in Live, invoice[i].org # call[c].org,
             To(c, [call[c] EXCEPT !.at = "create", !.other = i, !.from = invoice[i].status])
      PROVE  Shape'
  <2> DEFINE k == [call[c] EXCEPT !.at = "create", !.other = i, !.from = invoice[i].status]
  <2>1. i \in Here /\ invoice[i].status # "void" /\ invoice[i].org # call[c].org
    BY <1>5 DEF Live
  <2>2. i \in Invoices /\ i \in used /\ invoice[i].status \in Statuses
    BY <2>1, Standing
  <2>3. /\ k \in Call /\ k.at = "create" /\ k.org = call[c].org /\ k.mine = call[c].mine
        /\ k.other = i /\ k.from = invoice[i].status
    BY <1>2, <2>2 DEF Call
  <2> HIDE DEF k
  <2>4. k.other # k.mine
    BY <1>3, <2>1, <2>3
  <2>5. Shaped(k, used)
    BY <1>2, <2>1, <2>2, <2>3, <2>4, <1>1 DEF Shaped
  <2> QED
    BY <1>1, <1>3, <1>5, <2>3, <2>5, Looking DEF k
<1>6. CASE Done(c)
  BY <1>1, <1>6, Looking DEF Done
<1> QED
  BY <1>4, <1>5, <1>6 DEF Elsewhere

LEMMA Being ==
  ASSUME Shape, NEW c \in Callers,
         call[c].at \in {"elsewhere", "create", "key", "back", "restore", "correct", "rewrite",
                         "requeue", "moveOut"}
  PROVE  /\ call[c] # Idle /\ call[c] \in Call /\ Shaped(call[c], used)
         /\ call[c].mine \in Here => invoice[call[c].mine].org = call[c].org
         /\ call[c].mine \in Invoices \cup {None} /\ call[c].other \in Invoices \cup {None}
         /\ call[c].org \in Orgs /\ call[c].from \in Statuses /\ call[c].moved \in Moved \cup {None}
<1>1. call[c] # Idle
  BY DEF Idle
<1> QED
  BY <1>1, Running DEF Shape, InItsBooks

\* It is done, or died: nothing is held.
LEMMA Ending ==
  ASSUME Shape, NEW c \in Callers, Done(c), UNCHANGED <<invoice, used, desk, raced, hands>>,
         faults' \in 0..MaxFaults
  PROVE  Shape'
  BY Looking, Faulty DEF Done

\* It goes on with what it holds, and only looked.
LEMMA GoingOn ==
  ASSUME Shape, NEW c \in Callers, call[c] # Idle,
         NEW at \in {"create", "restore", "correct", "requeue", "moveOut"},
         at = "create" => call[c].at = "elsewhere",
         at \in {"restore"} => call[c].at = "back",
         at \in {"correct", "requeue", "moveOut"} => call[c].at \notin {"elsewhere", "create"},
         at = "moveOut" => call[c].other # None,
         Go(c, at), UNCHANGED <<invoice, used, desk, faults, raced, hands>>
  PROVE  Shape'
<1> DEFINE k == [call[c] EXCEPT !.at = at]
<1>1. /\ Shaped(call[c], used) /\ (call[c].mine \in Here => invoice[call[c].mine].org = call[c].org)
      /\ at \in {"elsewhere", "create", "key", "back", "restore", "correct", "rewrite", "requeue", "moveOut"}
  BY Running DEF Shape, InItsBooks
<1>a. To(c, k)
  BY DEF Go, To
<1>b. call[c] \in Call
  BY Running
<1>2. /\ To(c, k) /\ k \in Call /\ k.at = at /\ k.org = call[c].org /\ k.mine = call[c].mine
      /\ k.other = call[c].other /\ k.from = call[c].from /\ k.moved = call[c].moved
  BY <1>1, <1>a, <1>b DEF Call
<1> HIDE DEF k
<1>3. Shaped(k, used)
  BY <1>1, <1>2 DEF Shaped
<1> QED
  BY <1>1, <1>2, <1>3, Looking, Faulty

LEMMA ShapeCreate == ASSUME Shape, NEW c \in Callers, Create(c) PROVE Shape'
<1>1. call[c].at = "create" /\ UNCHANGED <<desk, faults, raced, hands>>
  BY DEF Create
<1>2. PICK i \in Invoices \ used :
        /\ invoice' = [invoice EXCEPT ![i] = [org |-> call[c].org, keyed |-> FALSE, approval |-> "pending",
                                              status |-> "draft", paid |-> FALSE, moved |-> None]]
        /\ used' = used \cup {i}
        /\ To(c, [call[c] EXCEPT !.at = "key", !.mine = i])
  BY DEF Create
<1>3. call[c] \in Call /\ Shaped(call[c], used) /\ call[c].org \in Orgs
  BY <1>1, Being
<1> DEFINE k == [call[c] EXCEPT !.at = "key", !.mine = i]
           v == [org |-> call[c].org, keyed |-> FALSE, approval |-> "pending",
                 status |-> "draft", paid |-> FALSE, moved |-> None]
<1>4. /\ k \in Call /\ k.at = "key" /\ k.org = call[c].org /\ k.mine = i
      /\ k.other = call[c].other /\ k.from = call[c].from
  BY <1>3 DEF Call
<1>5. v \in Invoice /\ v.org = call[c].org /\ v.keyed = FALSE /\ v.moved = None
  BY <1>3 DEF Invoice, Statuses
<1>6. To(c, k) /\ invoice' = [invoice EXCEPT ![i] = v]
  BY <1>2
<1> HIDE DEF k, v
<1>a. /\ invoice \in [Invoices -> Invoice \cup {None}] /\ i \in Invoices /\ v # None
      /\ Here \subseteq used /\ used \subseteq Invoices
  BY <1>2, <1>5, NoneAssumption DEF Shape, TypeOK
<1>7. /\ invoice'[i] = v /\ \A j \in Invoices : j # i => invoice'[j] = invoice[j]
      /\ invoice' \in [Invoices -> Invoice \cup {None}] /\ v # None /\ Here \subseteq used /\ used \subseteq Invoices
  BY <1>5, <1>6, <1>a
<1>8. Here' = Here \cup {i} /\ i \notin Here
  BY <1>2, <1>7 DEF Here
<1>9. Shaped(k, used')
  BY <1>2, <1>3, <1>4, NoneAssumption DEF Shaped
<1>10. MovedShape' /\ OneKeyed'
  BY <1>5, <1>7, <1>8 DEF Shape, MovedShape, OneKeyed, Here
<1>11. \A j \in Here' \cap Here : invoice'[j].org = invoice[j].org
  BY <1>7, <1>8 DEF Here
<1>12. k.mine \in Here' => invoice'[k.mine].org = k.org
  BY <1>4, <1>5, <1>7
<1>13. used \subseteq used' /\ used' \subseteq Invoices /\ Here' \subseteq used'
  BY <1>2, <1>7, <1>8
<1>14. faults' \in 0..MaxFaults /\ raced' \in BOOLEAN
  BY <1>1, Faulty
<1>15. \A j \in Here' \ Here : j \notin used
  BY <1>8, <1>2
<1> QED
  BY <1>1, <1>4, <1>6, <1>7, <1>9, <1>10, <1>11, <1>12, <1>13, <1>14, <1>15, Going

LEMMA ShapeKey == ASSUME Shape, NEW c \in Callers, Key(c) PROVE Shape'
<1>1. call[c].at = "key" /\ UNCHANGED <<used, desk, faults, raced, hands>>
  BY DEF Key, Quiet
<1>2. call[c] # Idle /\ call[c] \in Call /\ Shaped(call[c], used) /\ call[c].mine \in Invoices
  BY <1>1, Being DEF Shaped
<1>3. CASE Keyed(call[c].org) # {} \/ call[c].mine \notin Here
  <2>1. UNCHANGED invoice
    BY <1>2, <1>3 DEF Key, Shape, TypeOK
  <2>2. CASE Done(c)
    BY <1>1, <2>1, <2>2, Ending, Faulty
  <2>3. CASE call[c].other # None /\ Go(c, "moveOut")
    BY <1>1, <1>2, <2>1, <2>3, GoingOn
  <2> QED
    BY <2>2, <2>3 DEF Key
<1>4. CASE Keyed(call[c].org) = {} /\ call[c].mine \in Here
  <2> DEFINE i == call[c].mine
             v == [invoice[i] EXCEPT !.keyed = TRUE]
  <2>1. i \in Invoices /\ i \in Here /\ invoice[i] \in Invoice /\ invoice[i].org = call[c].org
        /\ invoice \in [Invoices -> Invoice \cup {None}]
    BY <1>1, <1>4, Being, Standing DEF Shape, TypeOK
  <2>2. v \in Invoice /\ v.org = invoice[i].org /\ v.keyed = TRUE /\ v.moved = invoice[i].moved
    BY <2>1 DEF Invoice
  <2>3. invoice'[i] = v /\ \A j \in Invoices : j # i => invoice'[j] = invoice[j]
    BY <1>4, <2>1 DEF Key
  <2>4. invoice' \in [Invoices -> Invoice \cup {None}]
    BY <1>4, <2>1, <2>2 DEF Key
  <2> HIDE DEF v
  <2>5. Here' = Here
    BY <2>1, <2>2, <2>3, NoneAssumption DEF Here
  <2>6. MovedShape'
    BY <2>2, <2>3, <2>5 DEF Shape, MovedShape, Here
  <2>7. \A j \in Here : invoice'[j].org = invoice[j].org
    BY <2>2, <2>3 DEF Here
  <2>8. OneKeyed'
    <3> SUFFICES ASSUME NEW x \in Here, NEW y \in Here, invoice'[x].keyed, invoice'[y].keyed,
                        invoice'[x].org = invoice'[y].org, x # y
                 PROVE  FALSE
      BY <2>5 DEF OneKeyed
    <3>1. invoice[x].org = invoice[y].org
      BY <2>7
    <3>2. CASE x # i /\ y # i
      BY <2>3, <3>1, <3>2 DEF Shape, OneKeyed, Here
    <3>3. CASE x = i
      BY <1>4, <2>1, <2>3, <3>1, <3>3 DEF Keyed, Here
    <3>4. CASE y = i
      BY <1>4, <2>1, <2>3, <3>1, <3>4 DEF Keyed, Here
    <3> QED
      BY <3>2, <3>3, <3>4
  <2>9. used \subseteq used' /\ used' \subseteq Invoices /\ Here' \subseteq used'
        /\ faults' \in 0..MaxFaults /\ raced' \in BOOLEAN
    BY <1>1, <2>5 DEF Shape, TypeOK
  <2>10. ASSUME NEW k \in Call \cup {Idle}, To(c, k), k # Idle => Shaped(k, used), k # Idle => k.mine = i /\ k.org = call[c].org
         PROVE  Shape'
    <3>1. k # Idle => Shaped(k, used')
      BY <1>1, <2>10 DEF Shaped
    <3>2. k # Idle /\ k.mine \in Here' => invoice'[k.mine].org = k.org
      BY <2>1, <2>10, <2>7
    <3> QED
      BY <1>1, <2>10, <2>4, <2>5, <2>6, <2>7, <2>8, <2>9, <3>1, <3>2, Going
  <2>11. CASE Done(c)
    BY <2>10, <2>11 DEF Done
  <2>12. CASE call[c].other # None /\ Go(c, "moveOut")
    <3> DEFINE k == [call[c] EXCEPT !.at = "moveOut"]
    <3>1. /\ To(c, k) /\ k \in Call /\ k.at = "moveOut" /\ k.org = call[c].org /\ k.mine = call[c].mine
          /\ k.other = call[c].other /\ k.from = call[c].from
      BY <1>2, <2>12, GoIs
    <3> HIDE DEF k
    <3>2. Shaped(k, used)
      BY <1>2, <2>12, <3>1 DEF Shaped
    <3> QED
      BY <2>10, <3>1, <3>2
  <2> QED
    BY <1>4, <2>11, <2>12 DEF Key
<1> QED
  BY <1>3, <1>4

\* What MoveOut, Restore, Rewrite and Requeue write.
LEMMA Written ==
  ASSUME Shape, NEW i \in Here, NEW v \in Invoice, invoice' = [invoice EXCEPT ![i] = v]
  PROVE  /\ Here' = Here /\ invoice'[i] = v /\ \A j \in Here : j # i => invoice'[j] = invoice[j]
  BY NoneAssumption DEF Shape, TypeOK, Here

LEMMA ShapeMoveOut == ASSUME Shape, NEW c \in Callers, MoveOut(c) PROVE Shape'
<1>1. call[c].at = "moveOut" /\ Done(c) /\ UNCHANGED <<used, desk, faults, raced, hands>>
  BY DEF MoveOut, Quiet
<1>2. /\ Shaped(call[c], used) /\ call[c].mine \in Invoices /\ call[c].other \in Invoices
      /\ call[c].other # call[c].mine /\ call[c].from \in Statuses /\ call[c].from # "void"
  BY <1>1, Being DEF Shaped
<1> DEFINE i == call[c].other
           v == [invoice[i] EXCEPT !.status = "void", !.moved = [to |-> call[c].mine, from |-> call[c].from]]
<1>3. CASE i \in Live /\ invoice[i].approval = "returned"
  <2>1. i \in Here /\ invoice[i] \in Invoice
    BY <1>3, Standing DEF Live
  <2>2. [to |-> call[c].mine, from |-> call[c].from] \in Moved
    BY <1>2 DEF Moved
  <2>3. /\ v \in Invoice /\ v.org = invoice[i].org /\ v.keyed = invoice[i].keyed
        /\ v.moved.from # "void" /\ v.moved.to # i
    BY <1>2, <2>1, <2>2 DEF Invoice, Statuses
  <2>4. invoice' = [invoice EXCEPT ![i] = v]
    BY <1>3 DEF MoveOut, LeftBehind
  <2> HIDE DEF v
  <2> QED
    BY <1>1, <2>1, <2>3, <2>4, Rewriting DEF Done
<1>4. CASE ~(i \in Live /\ invoice[i].approval = "returned")
  <2>1. UNCHANGED invoice
    BY <1>4 DEF MoveOut
  <2> QED
    BY <1>1, <2>1, Ending, Faulty
<1> QED
  BY <1>3, <1>4

LEMMA ShapeBack == ASSUME Shape, NEW c \in Callers, Back(c) PROVE Shape'
<1>1. call[c].at = "back" /\ UNCHANGED <<invoice, used, desk, faults, raced, hands>>
  BY DEF Back, Quiet
<1>2. /\ call[c] # Idle /\ call[c] \in Call /\ Shaped(call[c], used)
      /\ call[c].mine \in Here => invoice[call[c].mine].org = call[c].org
  BY <1>1, Being
<1>3. call[c].moved \in Moved /\ call[c].moved.from # "void" /\ call[c].moved.to # call[c].mine
  BY <1>1, <1>2 DEF Shaped
<1> DEFINE i == call[c].moved.to
           k == [call[c] EXCEPT !.at = "restore", !.other = i, !.from = invoice[i].status]
<1>4. CASE Done(c)
  BY <1>1, <1>4, Ending, Faulty
<1>5. CASE Go(c, "restore")
  BY <1>1, <1>2, <1>5, GoingOn
<1>6. CASE i \in Live /\ To(c, k)
  <2>1. i \in Here /\ invoice[i].status # "void"
    BY <1>6 DEF Live
  <2>2. i \in Invoices /\ i \in used /\ invoice[i].status \in Statuses
    BY <2>1, Standing
  <2>3. /\ k \in Call /\ k.at = "restore" /\ k.org = call[c].org /\ k.mine = call[c].mine
        /\ k.other = i /\ k.from = invoice[i].status /\ k.moved = call[c].moved
    BY <1>2, <2>2 DEF Call
  <2>4. To(c, k)
    BY <1>6
  <2> HIDE DEF k
  <2>5. Shaped(k, used)
    BY <1>1, <1>2, <1>3, <2>1, <2>2, <2>3 DEF Shaped
  <2> QED
    BY <1>1, <1>2, <2>3, <2>4, <2>5, Looking, Faulty
<1> QED
  BY <1>4, <1>5, <1>6 DEF Back

LEMMA ShapeRestore == ASSUME Shape, NEW c \in Callers, Restore(c) PROVE Shape'
<1>1. /\ call[c].at = "restore" /\ Go(c, "correct") /\ UNCHANGED <<used, desk, faults, raced, hands>>
  BY DEF Restore, Quiet
<1>2. /\ call[c] # Idle /\ call[c] \in Call /\ Shaped(call[c], used)
      /\ call[c].mine \in Here => invoice[call[c].mine].org = call[c].org
  BY <1>1, Being
<1>3. call[c].moved \in Moved /\ call[c].moved.from # "void" /\ call[c].mine \in Invoices
  BY <1>1, <1>2 DEF Shaped
<1> DEFINE i == call[c].mine
           v == [invoice[i] EXCEPT !.status = call[c].moved.from, !.moved = None]
           k == [call[c] EXCEPT !.at = "correct"]
<1>4. /\ To(c, k) /\ k \in Call /\ k.at = "correct" /\ k.org = call[c].org /\ k.mine = call[c].mine
      /\ k.other = call[c].other /\ k.from = call[c].from
  BY <1>1, <1>2, GoIs
<1> HIDE DEF k
<1>5. Shaped(k, used)
  BY <1>1, <1>2, <1>4 DEF Shaped
<1>6. CASE i \in Here
  <2>1. invoice[i] \in Invoice
    BY <1>6, Standing
  <2>2. v \in Invoice /\ v.org = invoice[i].org /\ v.keyed = invoice[i].keyed /\ v.moved = None
    BY <1>3, <2>1 DEF Invoice, Moved
  <2>3. invoice' = [invoice EXCEPT ![i] = v]
    BY <1>6 DEF Restore, Shape, TypeOK, Here
  <2> HIDE DEF v
  <2> QED
    BY <1>1, <1>2, <1>4, <1>5, <1>6, <2>2, <2>3, Rewriting
<1>7. CASE i \notin Here
  <2>1. UNCHANGED invoice
    BY <1>7 DEF Restore, Shape, TypeOK
  <2> QED
    BY <1>1, <1>2, <1>4, <1>5, <2>1, Looking, Faulty
<1> QED
  BY <1>6, <1>7

LEMMA ShapeCorrect == ASSUME Shape, NEW c \in Callers, Correct(c) PROVE Shape'
<1>1. call[c].at = "correct" /\ UNCHANGED <<invoice, used, desk, faults, raced, hands>>
  BY DEF Correct, Quiet
<1>2. /\ call[c] # Idle /\ call[c] \in Call /\ Shaped(call[c], used)
      /\ call[c].mine \in Here => invoice[call[c].mine].org = call[c].org
  BY <1>1, Being
<1> DEFINE i == call[c].mine
           k == [call[c] EXCEPT !.at = "rewrite", !.read = ReadOf(i)]
<1>3. CASE Done(c)
  BY <1>1, <1>3, Ending, Faulty
<1>4. CASE i \in Live /\ To(c, k)
  <2>1. i \in Here
    BY <1>4 DEF Live
  <2>2. ReadOf(i) \in Read
    BY <2>1, Standing DEF ReadOf, Read
  <2>3. /\ k \in Call /\ k.at = "rewrite" /\ k.org = call[c].org /\ k.mine = call[c].mine
        /\ k.other = call[c].other /\ k.from = call[c].from /\ k.read = ReadOf(i)
    BY <1>2, <2>2 DEF Call
  <2>4. To(c, k)
    BY <1>4
  <2> HIDE DEF k
  <2>5. Shaped(k, used)
    BY <1>1, <1>2, <2>2, <2>3 DEF Shaped
  <2> QED
    BY <1>1, <1>2, <2>3, <2>4, <2>5, Looking, Faulty
<1> QED
  BY <1>3, <1>4 DEF Correct

LEMMA ShapeRewrite == ASSUME Shape, NEW c \in Callers, Rewrite(c) PROVE Shape'
<1>1. call[c].at = "rewrite" /\ UNCHANGED <<used, desk, faults, raced, hands>>
  BY DEF Rewrite, Quiet
<1>2. /\ call[c] # Idle /\ call[c] \in Call /\ Shaped(call[c], used)
      /\ call[c].mine \in Here => invoice[call[c].mine].org = call[c].org
  BY <1>1, Being
<1> DEFINE i == call[c].mine
           read == call[c].read
           k == [call[c] EXCEPT !.at = "requeue", !.read = None]
<1>3. CASE Done(c) /\ UNCHANGED invoice
  BY <1>1, <1>3, Ending, Faulty
<1>4. ASSUME i \in Here, NEW status \in Statuses,
             invoice' = [invoice EXCEPT ![i].status = IF status # read.status THEN status ELSE @],
             To(c, k)
      PROVE  Shape'
  <2> DEFINE v == [invoice[i] EXCEPT !.status = IF status # read.status THEN status ELSE @]
  <2>0. i \in Here
    BY <1>4
  <2>1. invoice[i] \in Invoice
    BY <1>4, Standing
  <2>2. /\ v \in Invoice /\ v.org = invoice[i].org /\ v.keyed = invoice[i].keyed /\ v.moved = invoice[i].moved
    BY <1>4, <2>1 DEF Invoice
  <2>3. invoice' = [invoice EXCEPT ![i] = v]
    BY <1>4
  <2>4. invoice[i].moved # None => invoice[i].moved.from # "void" /\ invoice[i].moved.to # i
    BY <1>4 DEF Shape, MovedShape
  <2>5. /\ k \in Call /\ k.at = "requeue" /\ k.org = call[c].org /\ k.mine = call[c].mine
        /\ k.other = call[c].other /\ k.from = call[c].from
    BY <1>2 DEF Call
  <2>6. To(c, k)
    BY <1>4
  <2> HIDE DEF k, v
  <2>7. Shaped(k, used)
    BY <1>1, <1>2, <2>5 DEF Shaped
  <2> QED
    BY <1>1, <1>2, <2>0, <2>2, <2>3, <2>4, <2>5, <2>6, <2>7, Rewriting
<1>5. (IF read.status = "draft" THEN {"draft"} ELSE StatusAfter(read.paid)) \subseteq Statuses
  BY DEF StatusAfter, Statuses
<1> QED
  BY <1>3, <1>4, <1>5 DEF Rewrite

LEMMA ShapeRequeue == ASSUME Shape, NEW c \in Callers, Requeue(c) PROVE Shape'
<1>1. call[c].at = "requeue" /\ UNCHANGED <<used, desk, faults, raced, hands>>
  BY DEF Requeue, Quiet
<1>2. /\ call[c] # Idle /\ call[c] \in Call /\ Shaped(call[c], used)
      /\ call[c].mine \in Here => invoice[call[c].mine].org = call[c].org
  BY <1>1, Being
<1> DEFINE i == call[c].mine
           v == [invoice[i] EXCEPT !.approval = "pending"]
<1>3. ASSUME NEW k \in Call \cup {Idle}, To(c, k), k # Idle => Shaped(k, used),
             k # Idle => k.mine = i /\ k.org = call[c].org
      PROVE  Shape'
  <2>1. CASE i \in Here
    <3>1. invoice[i] \in Invoice
      BY <2>1, Standing
    <3>2. v \in Invoice /\ v.org = invoice[i].org /\ v.keyed = invoice[i].keyed /\ v.moved = invoice[i].moved
      BY <3>1 DEF Invoice
    <3>3. invoice' = [invoice EXCEPT ![i] = v]
      BY <2>1 DEF Requeue
    <3>4. invoice[i].moved # None => invoice[i].moved.from # "void" /\ invoice[i].moved.to # i
      BY <2>1 DEF Shape, MovedShape
    <3> HIDE DEF v
    <3> QED
      BY <1>1, <1>2, <1>3, <2>1, <3>2, <3>3, <3>4, Rewriting
  <2>2. CASE i \notin Here
    <3>1. UNCHANGED invoice
      BY <2>2 DEF Requeue
    <3> QED
      BY <1>1, <1>2, <1>3, <3>1, Looking, Faulty
  <2> QED
    BY <2>1, <2>2
<1>4. CASE Done(c)
  BY <1>3, <1>4 DEF Done
<1>5. CASE call[c].other # None /\ Go(c, "moveOut")
  <2> DEFINE k == [call[c] EXCEPT !.at = "moveOut"]
  <2>1. /\ To(c, k) /\ k \in Call /\ k.at = "moveOut" /\ k.org = call[c].org /\ k.mine = call[c].mine
        /\ k.other = call[c].other /\ k.from = call[c].from
    BY <1>2, <1>5, GoIs
  <2> HIDE DEF k
  <2>2. Shaped(k, used)
    BY <1>1, <1>2, <1>5, <2>1 DEF Shaped
  <2> QED
    BY <1>3, <2>1, <2>2
<1> QED
  BY <1>4, <1>5 DEF Requeue

LEMMA ShapeDie == ASSUME Shape, NEW c \in Callers, Die(c) PROVE Shape'
<1>1. faults' \in 0..MaxFaults
  BY BoundsAssumption DEF Die, Shape, TypeOK
<1> QED
  BY <1>1, Ending DEF Die

----------------------------------------------------------------------------
(* ... and the accounts'. *)

\* One invoice is rewritten, or none is.
LEMMA Deciding ==
  ASSUME Shape, NEW i \in Here, NEW v \in Invoice, v.org = invoice[i].org, v.keyed = invoice[i].keyed,
         v.moved = invoice[i].moved, invoice' = [invoice EXCEPT ![i] = v],
         UNCHANGED <<used, call, faults>>, raced' \in BOOLEAN,
         hands' \subseteq {"voided", "revived", "deleted", "orphaned"},
         desk' = Idle \/ desk' = desk \/ (desk'.at = "issue" /\ desk' \in [at : {"approve", "issue"}, invoice : Invoices, read : Read \cup {None}])
  PROVE  Shape'
<1>1. Here' = Here /\ invoice'[i] = v /\ \A j \in Here : j # i => invoice'[j] = invoice[j]
  BY Written
<1>2. invoice' \in [Invoices -> Invoice \cup {None}]
  BY DEF Shape, TypeOK
<1>3. TypeOK'
  BY <1>1, <1>2 DEF Shape, TypeOK
<1>4. CallShape'
  BY DEF Shape, CallShape, Shaped
<1>5. DeskShape'
  BY DEF Shape, DeskShape, Idle
<1>6. MovedShape' /\ OneKeyed'
  BY <1>1 DEF Shape, MovedShape, OneKeyed
<1>7. InItsBooks'
  BY <1>1 DEF Shape, InItsBooks
<1> QED
  BY <1>3, <1>4, <1>5, <1>6, <1>7 DEF Shape

\* The desk reads, or finds the invoice gone.
LEMMA DeskOnly ==
  ASSUME Shape, UNCHANGED <<invoice, used, call, faults, hands>>, raced' \in BOOLEAN,
         desk' \in [at : {"approve", "issue"}, invoice : Invoices, read : Read \cup {None}] \cup {Idle},
         desk'.at = "approve" => desk'.read \in Read
  PROVE  Shape'
<1>1. TypeOK' /\ Here' = Here
  BY DEF Shape, TypeOK, Here
<1>2. CallShape' /\ DeskShape'
  BY DEF Shape, CallShape, Shaped, DeskShape
<1>3. MovedShape' /\ OneKeyed' /\ InItsBooks'
  BY <1>1 DEF Shape, MovedShape, OneKeyed, InItsBooks
<1> QED
  BY <1>1, <1>2, <1>3 DEF Shape

LEMMA ShapeApprove == ASSUME Shape, NEW i \in Invoices, Approve(i) PROVE Shape'
<1>1. ReadOf(i) \in Read
  BY Standing DEF Approve, ReadOf, Read
<1>2. raced' \in BOOLEAN
  BY Faulty DEF Approve, Calling
<1>3. /\ desk' \in [at : {"approve", "issue"}, invoice : Invoices, read : Read \cup {None}]
      /\ desk'.read \in Read
  BY <1>1 DEF Approve
<1> QED
  BY <1>2, <1>3, DeskOnly DEF Approve

LEMMA Hands == Shape => \A i : Revived(i) \subseteq {"voided", "revived", "deleted", "orphaned"}
  BY DEF Shape, TypeOK, Revived

LEMMA DeskIs ==
  ASSUME Shape, desk.at \in {"approve", "issue"}
  PROVE  /\ desk \in [at : {"approve", "issue"}, invoice : Invoices, read : Read \cup {None}]
         /\ desk.invoice \in Invoices
         /\ desk.at = "approve" => desk.read \in Read
<1>1. desk # Idle
  BY DEF Idle
<1> QED
  BY <1>1 DEF Shape, TypeOK, DeskShape

LEMMA ShapeSaveApproval == ASSUME Shape, SaveApproval PROVE Shape'
<1> DEFINE i == desk.invoice read == desk.read
<1>1. desk.at = "approve" /\ UNCHANGED <<used, call, faults, raced>> /\ raced' \in BOOLEAN
  BY Faulty DEF SaveApproval
<1>2. /\ desk \in [at : {"approve", "issue"}, invoice : Invoices, read : Read \cup {None}]
      /\ i \in Invoices /\ read \in Read
  BY <1>1, DeskIs
<1>3. CASE desk' = Idle /\ UNCHANGED <<invoice, hands>>
  <2>1. desk'.at # "approve"
    BY <1>3 DEF Idle
  <2> QED
    BY <1>1, <1>3, <2>1, DeskOnly
<1>4. CASE /\ i \in Here
           /\ invoice' = [invoice EXCEPT ![i].approval = "approved"]
           /\ desk' = IF read.status = "draft" THEN [desk EXCEPT !.at = "issue", !.read = None] ELSE Idle
           /\ hands' = Revived(i)
  <2> DEFINE v == [invoice[i] EXCEPT !.approval = "approved"]
  <2>1. i \in Here /\ invoice[i] \in Invoice
    BY <1>4, Standing
  <2>2. v \in Invoice /\ v.org = invoice[i].org /\ v.keyed = invoice[i].keyed /\ v.moved = invoice[i].moved
    BY <2>1 DEF Invoice
  <2>3. invoice' = [invoice EXCEPT ![i] = v]
    BY <1>4
  <2>4. desk' = Idle \/ (desk'.at = "issue" /\ desk' \in [at : {"approve", "issue"}, invoice : Invoices, read : Read \cup {None}])
    BY <1>2, <1>4
  <2>5. hands' \subseteq {"voided", "revived", "deleted", "orphaned"}
    BY <1>4, Hands
  <2> HIDE DEF v
  <2> QED
    BY <1>1, <2>1, <2>2, <2>3, <2>4, <2>5, Deciding
<1>5. ASSUME i \in Here, NEW status \in StatusAfter(TRUE),
             invoice' = [invoice EXCEPT ![i] = [@ EXCEPT !.approval = "approved", !.paid = TRUE, !.status = status]],
             hands' = Revived(i), desk' = Idle
      PROVE  Shape'
  <2> DEFINE v == [invoice[i] EXCEPT !.approval = "approved", !.paid = TRUE, !.status = status]
  <2>1. i \in Here /\ invoice[i] \in Invoice /\ status \in Statuses
    BY <1>5, Standing DEF StatusAfter, Statuses
  <2>2. v \in Invoice /\ v.org = invoice[i].org /\ v.keyed = invoice[i].keyed /\ v.moved = invoice[i].moved
    BY <2>1 DEF Invoice
  <2>3. invoice' = [invoice EXCEPT ![i] = v]
    BY <1>5
  <2>4. hands' \subseteq {"voided", "revived", "deleted", "orphaned"}
    BY <1>5, Hands
  <2> HIDE DEF v
  <2> QED
    BY <1>1, <1>5, <2>1, <2>2, <2>3, <2>4, Deciding
<1> QED
  BY <1>3, <1>4, <1>5 DEF SaveApproval

LEMMA ShapeIssue == ASSUME Shape, Issue PROVE Shape'
<1> DEFINE i == desk.invoice
           v == [invoice[i] EXCEPT !.status = "sent"]
<1>1. /\ desk.at = "issue" /\ desk' = Idle /\ UNCHANGED <<used, call, faults, raced>> /\ raced' \in BOOLEAN
      /\ hands' = Revived(i)
  BY Faulty DEF Issue
<1>2. hands' \subseteq {"voided", "revived", "deleted", "orphaned"}
  BY <1>1, Hands
<1>3. CASE i \in Here
  <2>1. invoice[i] \in Invoice
    BY <1>3, Standing
  <2>2. v \in Invoice /\ v.org = invoice[i].org /\ v.keyed = invoice[i].keyed /\ v.moved = invoice[i].moved
    BY <2>1 DEF Invoice, Statuses
  <2>3. invoice' = [invoice EXCEPT ![i] = v]
    BY <1>3 DEF Issue
  <2> HIDE DEF v
  <2> QED
    BY <1>1, <1>2, <1>3, <2>2, <2>3, Deciding
<1>4. CASE i \notin Here
  <2>1. UNCHANGED <<invoice, hands>> /\ desk'.at # "approve"
    BY <1>1, <1>4 DEF Issue, Revived, Idle
  <2> QED
    BY <1>1, <2>1, DeskOnly
<1> QED
  BY <1>3, <1>4

\* returnInvoice, resubmitInvoice, voidInvoice, restoreInvoice.
LEMMA ShapeByHand ==
  ASSUME Shape, NEW i \in Invoices, Return(i) \/ Resubmit(i) \/ Void(i) \/ Unvoid(i)
  PROVE  Shape'
<1>1. PICK approval \in {"pending", "returned", "approved"}, status \in Statuses, what \in SUBSET {"voided", "revived"} :
        ByHand(i, [invoice[i] EXCEPT !.approval = approval, !.status = status], what)
  <2>1. i \in Here /\ invoice[i] \in Invoice
    BY Standing DEF Return, Resubmit, Void, Unvoid, Live
  <2>2. CASE Return(i)
    <3>1. [invoice[i] EXCEPT !.approval = "returned"] =
          [invoice[i] EXCEPT !.approval = "returned", !.status = invoice[i].status]
      BY <2>1 DEF Invoice
    <3> QED
      BY <2>1, <2>2, <3>1, Standing DEF Return
  <2>3. CASE Resubmit(i)
    <3>1. [invoice[i] EXCEPT !.approval = "pending"] =
          [invoice[i] EXCEPT !.approval = "pending", !.status = invoice[i].status]
      BY <2>1 DEF Invoice
    <3> QED
      BY <2>1, <2>3, <3>1, Standing DEF Resubmit
  <2>4. CASE Void(i)
    <3>1. [invoice[i] EXCEPT !.status = "void"] =
          [invoice[i] EXCEPT !.approval = invoice[i].approval, !.status = "void"]
      BY <2>1 DEF Invoice
    <3> QED
      BY <2>1, <2>4, <3>1, Standing DEF Void, Statuses
  <2>5. CASE Unvoid(i)
    <3>1. PICK status \in Statuses : ByHand(i, [invoice[i] EXCEPT !.status = status], {"revived"})
      BY <2>5 DEF Unvoid, StatusAfter, Statuses
    <3>2. [invoice[i] EXCEPT !.status = status] =
          [invoice[i] EXCEPT !.approval = invoice[i].approval, !.status = status]
      BY <2>1 DEF Invoice
    <3> QED
      BY <2>1, <3>1, <3>2, Standing
  <2> QED
    BY <2>2, <2>3, <2>4, <2>5
<1> DEFINE v == [invoice[i] EXCEPT !.approval = approval, !.status = status]
<1>2. i \in Here /\ invoice[i] \in Invoice
  BY Standing DEF Return, Resubmit, Void, Unvoid, Live
<1>3. v \in Invoice /\ v.org = invoice[i].org /\ v.keyed = invoice[i].keyed /\ v.moved = invoice[i].moved
  BY <1>2 DEF Invoice
<1>4. /\ invoice' = [invoice EXCEPT ![i] = v] /\ UNCHANGED <<used, call, faults, desk>>
      /\ hands' \subseteq {"voided", "revived", "deleted", "orphaned"} /\ raced' \in BOOLEAN
  BY <1>1, Faulty DEF ByHand, Calling, Shape, TypeOK
<1> HIDE DEF v
<1> QED
  BY <1>2, <1>3, <1>4, Deciding

LEMMA ShapeDelete == ASSUME Shape, NEW i \in Invoices, Delete(i) PROVE Shape'
<1>1. /\ invoice' = [invoice EXCEPT ![i] = None] /\ UNCHANGED <<used, call, desk, faults>>
      /\ raced' \in BOOLEAN /\ hands' \subseteq {"voided", "revived", "deleted", "orphaned"}
  BY Faulty DEF Delete, ByHand, Calling, Shape, TypeOK
<1>2. Here' = Here \ {i} /\ \A j \in Here' : invoice'[j] = invoice[j]
  BY <1>1 DEF Here, Shape, TypeOK
<1>3. TypeOK'
  BY <1>1, <1>2 DEF Shape, TypeOK
<1>4. CallShape' /\ DeskShape'
  BY <1>1 DEF Shape, CallShape, Shaped, DeskShape
<1>5. MovedShape' /\ OneKeyed'
  BY <1>2 DEF Shape, MovedShape, OneKeyed
<1>6. InItsBooks'
  BY <1>1, <1>2 DEF Shape, InItsBooks
<1> QED
  BY <1>3, <1>4, <1>5, <1>6 DEF Shape

----------------------------------------------------------------------------
LEMMA NextShape == Shape /\ [Next]_vars => Shape'
<1> SUFFICES ASSUME Shape, [Next]_vars PROVE Shape'
  OBVIOUS
<1>1. ASSUME NEW c \in Callers, Continue(c) PROVE Shape'
  BY <1>1, ShapeElsewhere, ShapeCreate, ShapeKey, ShapeMoveOut, ShapeBack, ShapeRestore,
     ShapeCorrect, ShapeRewrite, ShapeRequeue DEF Continue
<1>2. ASSUME NEW i \in Invoices,
             Approve(i) \/ Return(i) \/ Resubmit(i) \/ Void(i) \/ Unvoid(i) \/ Delete(i)
      PROVE  Shape'
  BY <1>2, ShapeApprove, ShapeByHand, ShapeDelete
<1>3. CASE UNCHANGED vars
  BY <1>3 DEF vars, Shape, TypeOK, CallShape, Shaped, DeskShape, MovedShape, OneKeyed, InItsBooks, Here
<1> QED
  BY <1>1, <1>2, <1>3, ShapeSend, ShapeDie, ShapeSaveApproval, ShapeIssue DEF Next

LEMMA ShapeInvariance == Spec => []Shape
  BY InitShape, NextShape, PTL DEF Spec

\* Every variable keeps its type, for any number of invoices, calls and deaths.
THEOREM TypeCorrect == Spec => []TypeOK
<1>1. Shape => TypeOK
  BY DEF Shape
<1> QED
  BY <1>1, ShapeInvariance, PTL

----------------------------------------------------------------------------
(* What a call's step does, for the invariants below. *)

\* It only goes on: the invoices are as they were.
Kept(c) == /\ UNCHANGED <<desk, faults, raced, hands>>
           /\ \A d \in Callers : d # c => call'[d] = call[d]

LEMMA Keeping ==
  ASSUME Shape, NEW c \in Callers, NEW k, To(c, k), UNCHANGED <<desk, faults, raced, hands>>
  PROVE  Kept(c) /\ call'[c] = k
  BY DEF To, Kept, Shape, TypeOK

\* It holds what it held.
Same(c) == /\ call'[c].mine = call[c].mine /\ call'[c].org = call[c].org /\ call'[c].other = call[c].other
           /\ call'[c].moved = call[c].moved /\ call'[c].from = call[c].from /\ call'[c].read = call[c].read

LEMMA GoesTo ==
  ASSUME Shape, NEW c \in Callers, call[c] # Idle,
         NEW at \in {"elsewhere", "create", "key", "back", "restore", "correct", "rewrite", "requeue", "moveOut"},
         Go(c, at), UNCHANGED <<desk, faults, raced, hands>>
  PROVE  Kept(c) /\ call'[c].at = at /\ Same(c)
<1>1. call[c] \in Call /\ To(c, [call[c] EXCEPT !.at = at])
  BY Running DEF Go, To
<1>2. Kept(c) /\ call'[c] = [call[c] EXCEPT !.at = at]
  BY <1>1, Keeping
<1> QED
  BY <1>1, <1>2 DEF Call, Same

LEMMA DoesElsewhere ==
  ASSUME Shape, NEW c \in Callers, Elsewhere(c)
  PROVE  /\ Kept(c) /\ call[c].at = "elsewhere" /\ UNCHANGED invoice
         /\ \/ call'[c] = Idle
            \/ /\ call'[c].at = "create" /\ call'[c].mine = None /\ call'[c].org = call[c].org
               /\ \/ /\ call'[c].other = None
                     /\ \A i \in Live : ~invoice[i].keyed \/ invoice[i].org = call[c].org
                  \/ /\ call'[c].other \in Live /\ Movable(call'[c].other)
                     /\ invoice[call'[c].other].keyed /\ invoice[call'[c].other].org # call[c].org
<1>1. call[c].at = "elsewhere" /\ UNCHANGED <<invoice, desk, faults, raced, hands>>
  BY DEF Elsewhere, Quiet
<1>2. call[c] # Idle /\ call[c] \in Call /\ call[c].mine = None /\ call[c].other = None
  BY <1>1, Being DEF Shaped
<1> DEFINE there == {i \in Live : invoice[i].keyed /\ invoice[i].org # call[c].org}
<1>3. Go(c, "create") => Kept(c) /\ call'[c].at = "create" /\ Same(c)
  BY <1>1, <1>2, GoesTo
<1>4. ASSUME NEW i \in there, To(c, [call[c] EXCEPT !.at = "create", !.other = i, !.from = invoice[i].status])
      PROVE  /\ Kept(c) /\ call'[c].at = "create" /\ call'[c].other = i
             /\ call'[c].mine = None /\ call'[c].org = call[c].org
  <2>1. Kept(c) /\ call'[c] = [call[c] EXCEPT !.at = "create", !.other = i, !.from = invoice[i].status]
    BY <1>1, <1>4, Keeping
  <2> QED
    BY <1>2, <2>1 DEF Call
<1>5. Done(c) => Kept(c) /\ call'[c] = Idle
  BY <1>1, Keeping DEF Done
<1>6. \/ there = {} /\ Go(c, "create")
      \/ \E i \in there : IF Movable(i) THEN To(c, [call[c] EXCEPT !.at = "create", !.other = i, !.from = invoice[i].status])
                          ELSE Done(c)
  BY DEF Elsewhere
<1>7. CASE there = {} /\ Go(c, "create")
  BY <1>1, <1>2, <1>3, <1>7 DEF Same
<1>8. CASE \E i \in there : Movable(i) /\ To(c, [call[c] EXCEPT !.at = "create", !.other = i, !.from = invoice[i].status])
  BY <1>1, <1>4, <1>8
<1>9. CASE Done(c)
  BY <1>1, <1>5, <1>9
<1> QED
  BY <1>6, <1>7, <1>8, <1>9

LEMMA DoesCreate ==
  ASSUME Shape, NEW c \in Callers, Create(c)
  PROVE  LET i == call'[c].mine IN
         /\ Kept(c) /\ call[c].at = "create" /\ call'[c].at = "key"
         /\ call'[c].org = call[c].org /\ call'[c].other = call[c].other
         /\ i \in Invoices /\ i \notin Here /\ Here' = Here \cup {i} /\ i # None
         /\ \A j \in Here : invoice'[j] = invoice[j]
         /\ invoice'[i].approval = "pending" /\ invoice'[i].moved = None /\ invoice'[i].keyed = FALSE
         /\ invoice'[i].status = "draft" /\ invoice'[i].org = call[c].org
<1>1. call[c].at = "create" /\ UNCHANGED <<desk, faults, raced, hands>>
  BY DEF Create
<1>2. PICK i \in Invoices \ used :
        /\ invoice' = [invoice EXCEPT ![i] = [org |-> call[c].org, keyed |-> FALSE, approval |-> "pending",
                                              status |-> "draft", paid |-> FALSE, moved |-> None]]
        /\ To(c, [call[c] EXCEPT !.at = "key", !.mine = i])
  BY DEF Create
<1>3. call[c] \in Call /\ call[c].org \in Orgs
  BY <1>1, Being
<1>4. Kept(c) /\ call'[c] = [call[c] EXCEPT !.at = "key", !.mine = i]
  BY <1>1, <1>2, Keeping
<1>5. call'[c].mine = i /\ call'[c].at = "key" /\ call'[c].org = call[c].org /\ call'[c].other = call[c].other
  BY <1>3, <1>4 DEF Call
<1> DEFINE v == [org |-> call[c].org, keyed |-> FALSE, approval |-> "pending",
                 status |-> "draft", paid |-> FALSE, moved |-> None]
<1>6. v \in Invoice
  BY <1>3 DEF Invoice, Statuses
<1>7. v # None /\ i \notin Here /\ i # None
  BY <1>2, <1>6, NoneAssumption DEF Shape, TypeOK
<1>8. invoice'[i] = v /\ \A j \in Invoices : j # i => invoice'[j] = invoice[j]
  BY <1>2 DEF Shape, TypeOK
<1>9. Here' = Here \cup {i} /\ \A j \in Here : invoice'[j] = invoice[j]
  BY <1>2, <1>7, <1>8 DEF Here
<1> QED
  BY <1>1, <1>4, <1>5, <1>7, <1>8, <1>9

\* One invoice becomes another record, the others stay.
Rewrites(i, v) == /\ i \in Here /\ v \in Invoice /\ Here' = Here
                  /\ invoice'[i] = v /\ \A j \in Here : j # i => invoice'[j] = invoice[j]

LEMMA DoesKey ==
  ASSUME Shape, NEW c \in Callers, Key(c)
  PROVE  /\ Kept(c) /\ call[c].at = "key"
         /\ \/ call'[c] = Idle /\ (call[c].other = None \/ Keyed(call[c].org) # {})
            \/ /\ call'[c].at = "moveOut" /\ call'[c].mine = call[c].mine /\ call'[c].org = call[c].org
               /\ call'[c].other = call[c].other /\ call[c].other # None /\ Keyed(call[c].org) = {}
         /\ \/ UNCHANGED invoice /\ (Keyed(call[c].org) # {} \/ call[c].mine \notin Here)
            \/ Rewrites(call[c].mine, [invoice[call[c].mine] EXCEPT !.keyed = TRUE])
<1>1. call[c].at = "key" /\ UNCHANGED <<desk, faults, raced, hands>>
  BY DEF Key, Quiet
<1>2. call[c] # Idle /\ call[c] \in Call
  BY <1>1, Being
<1>3. Done(c) => Kept(c) /\ call'[c] = Idle
  BY <1>1, Keeping DEF Done
<1>4. Go(c, "moveOut") => Kept(c) /\ call'[c].at = "moveOut" /\ Same(c)
  BY <1>1, <1>2, GoesTo
<1>5. Keyed(call[c].org) # {} \/ call[c].mine \notin Here => UNCHANGED invoice
  BY DEF Key, Shape, TypeOK
<1>6. ASSUME Keyed(call[c].org) = {}, call[c].mine \in Here
      PROVE  Rewrites(call[c].mine, [invoice[call[c].mine] EXCEPT !.keyed = TRUE])
  <2> DEFINE i == call[c].mine
             v == [invoice[i] EXCEPT !.keyed = TRUE]
  <2>1. v \in Invoice /\ i \in Invoices
    BY <1>6, Standing DEF Invoice
  <2>2. invoice' = [invoice EXCEPT ![i] = v]
    BY <1>6, <2>1 DEF Key, Shape, TypeOK
  <2> HIDE DEF v
  <2>3. Rewrites(i, v)
    BY <1>6, <2>1, <2>2, Written DEF Rewrites
  <2> QED
    BY <2>3 DEF v
<1>7. \/ Done(c) /\ (call[c].other = None \/ Keyed(call[c].org) # {})
      \/ Go(c, "moveOut") /\ call[c].other # None /\ Keyed(call[c].org) = {}
  BY DEF Key
<1> QED
  BY <1>1, <1>3, <1>4, <1>5, <1>6, <1>7 DEF Same

LEMMA DoesMoveOut ==
  ASSUME Shape, NEW c \in Callers, MoveOut(c)
  PROVE  LET i == call[c].other IN
         /\ Kept(c) /\ call[c].at = "moveOut" /\ call'[c] = Idle
         /\ \/ UNCHANGED invoice /\ ~(i \in Live /\ invoice[i].approval = "returned")
            \/ /\ i \in Live /\ invoice[i].approval = "returned"
               /\ Rewrites(i, [invoice[i] EXCEPT !.status = "void",
                                                 !.moved = [to |-> call[c].mine, from |-> call[c].from]])
<1> DEFINE i == call[c].other
           v == [invoice[i] EXCEPT !.status = "void", !.moved = [to |-> call[c].mine, from |-> call[c].from]]
<1>1. call[c].at = "moveOut" /\ Done(c) /\ UNCHANGED <<desk, faults, raced, hands>>
  BY DEF MoveOut, Quiet
<1>2. Kept(c) /\ call'[c] = Idle
  BY <1>1, Keeping DEF Done
<1>3. call[c].mine \in Invoices /\ call[c].from \in Statuses
  BY <1>1, Being DEF Shaped
<1>4. ~(i \in Live /\ invoice[i].approval = "returned") => UNCHANGED invoice
  BY DEF MoveOut
<1>5. ASSUME i \in Live, invoice[i].approval = "returned"
      PROVE  Rewrites(i, v)
  <2>1. i \in Here /\ invoice[i] \in Invoice
    BY <1>5, Standing DEF Live
  <2>2. [to |-> call[c].mine, from |-> call[c].from] \in Moved
    BY <1>3 DEF Moved
  <2>3. v \in Invoice
    BY <2>1, <2>2 DEF Invoice, Statuses
  <2>4. invoice' = [invoice EXCEPT ![i] = v]
    BY <1>5 DEF MoveOut, LeftBehind
  <2> HIDE DEF v
  <2> QED
    BY <2>1, <2>3, <2>4, Written DEF Rewrites
<1> QED
  BY <1>1, <1>2, <1>4, <1>5

LEMMA DoesBack ==
  ASSUME Shape, NEW c \in Callers, Back(c)
  PROVE  LET i == call[c].moved.to IN
         /\ Kept(c) /\ call[c].at = "back" /\ UNCHANGED invoice
         /\ call[c].moved \in Moved /\ call[c].moved.from # "void" /\ i # call[c].mine
         /\ \/ call'[c] = Idle
            \/ /\ call'[c].at = "restore" /\ call'[c].mine = call[c].mine /\ call'[c].org = call[c].org
               /\ call'[c].moved = call[c].moved
               /\ \/ call'[c].other = None /\ i \notin Live
                  \/ call'[c].other = i /\ i \in Live /\ Movable(i)
<1> DEFINE i == call[c].moved.to
<1>1. call[c].at = "back" /\ UNCHANGED <<invoice, desk, faults, raced, hands>>
  BY DEF Back, Quiet
<1>2. /\ call[c] # Idle /\ call[c] \in Call /\ call[c].moved \in Moved /\ call[c].moved.from # "void"
      /\ i # call[c].mine /\ call[c].other = None
  BY <1>1, Being DEF Shaped
<1>3. Done(c) => Kept(c) /\ call'[c] = Idle
  BY <1>1, Keeping DEF Done
<1>4. Go(c, "restore") => Kept(c) /\ call'[c].at = "restore" /\ Same(c)
  BY <1>1, <1>2, GoesTo
<1>5. To(c, [call[c] EXCEPT !.at = "restore", !.other = i, !.from = invoice[i].status]) =>
        /\ Kept(c) /\ call'[c].at = "restore" /\ call'[c].other = i
        /\ call'[c].mine = call[c].mine /\ call'[c].org = call[c].org /\ call'[c].moved = call[c].moved
  <2> SUFFICES ASSUME To(c, [call[c] EXCEPT !.at = "restore", !.other = i, !.from = invoice[i].status])
               PROVE  /\ Kept(c) /\ call'[c].at = "restore" /\ call'[c].other = i
                      /\ call'[c].mine = call[c].mine /\ call'[c].org = call[c].org
                      /\ call'[c].moved = call[c].moved
    OBVIOUS
  <2>1. Kept(c) /\ call'[c] = [call[c] EXCEPT !.at = "restore", !.other = i, !.from = invoice[i].status]
    BY <1>1, Keeping
  <2> QED
    BY <1>2, <2>1 DEF Call
<1>6. IF i \in Live
      THEN IF Movable(i) THEN To(c, [call[c] EXCEPT !.at = "restore", !.other = i, !.from = invoice[i].status])
           ELSE Done(c)
      ELSE Go(c, "restore")
  BY DEF Back
<1> QED
  BY <1>1, <1>2, <1>3, <1>4, <1>5, <1>6 DEF Same

LEMMA DoesRestore ==
  ASSUME Shape, NEW c \in Callers, Restore(c)
  PROVE  LET i == call[c].mine IN
         /\ Kept(c) /\ call[c].at = "restore" /\ call'[c].at = "correct" /\ Same(c)
         /\ call[c].moved.from \in Statuses /\ call[c].moved.from # "void"
         /\ \/ UNCHANGED invoice /\ i \notin Here
            \/ Rewrites(i, [invoice[i] EXCEPT !.status = call[c].moved.from, !.moved = None])
<1> DEFINE i == call[c].mine
           v == [invoice[i] EXCEPT !.status = call[c].moved.from, !.moved = None]
<1>1. call[c].at = "restore" /\ Go(c, "correct") /\ UNCHANGED <<desk, faults, raced, hands>>
  BY DEF Restore, Quiet
<1>2. /\ call[c] # Idle /\ call[c].moved \in Moved /\ call[c].moved.from # "void"
  BY <1>1, Being DEF Shaped
<1>3. Kept(c) /\ call'[c].at = "correct" /\ Same(c)
  BY <1>1, <1>2, GoesTo
<1>4. i \notin Here => UNCHANGED invoice
  BY DEF Restore, Shape, TypeOK
<1>5. ASSUME i \in Here
      PROVE  Rewrites(i, v)
  <2>1. invoice[i] \in Invoice
    BY <1>5, Standing
  <2>2. v \in Invoice
    BY <1>2, <2>1 DEF Invoice, Moved
  <2>3. invoice' = [invoice EXCEPT ![i] = v]
    BY <1>5 DEF Restore, Shape, TypeOK, Here
  <2> HIDE DEF v
  <2> QED
    BY <1>5, <2>2, <2>3, Written DEF Rewrites
<1>6. call[c].moved.from \in Statuses
  BY <1>2 DEF Moved
<1> QED
  BY <1>1, <1>2, <1>3, <1>4, <1>5, <1>6

LEMMA DoesCorrect ==
  ASSUME Shape, NEW c \in Callers, Correct(c)
  PROVE  LET i == call[c].mine IN
         /\ Kept(c) /\ call[c].at = "correct" /\ UNCHANGED invoice
         /\ \/ call'[c] = Idle /\ (i \in Live => invoice[i].paid)
            \/ /\ i \in Live /\ call'[c].at = "rewrite" /\ call'[c].mine = i /\ call'[c].org = call[c].org
               /\ call'[c].other = call[c].other /\ call'[c].read.paid = invoice[i].paid
<1> DEFINE i == call[c].mine
<1>1. call[c].at = "correct" /\ UNCHANGED <<invoice, desk, faults, raced, hands>>
  BY DEF Correct, Quiet
<1>2. call[c] \in Call
  BY <1>1, Being
<1>3. Done(c) => Kept(c) /\ call'[c] = Idle
  BY <1>1, Keeping DEF Done
<1>4. ASSUME To(c, [call[c] EXCEPT !.at = "rewrite", !.read = ReadOf(i)])
      PROVE  /\ Kept(c) /\ call'[c].at = "rewrite" /\ call'[c].mine = i /\ call'[c].org = call[c].org
             /\ call'[c].other = call[c].other /\ call'[c].read.paid = invoice[i].paid
  <2>1. Kept(c) /\ call'[c] = [call[c] EXCEPT !.at = "rewrite", !.read = ReadOf(i)]
    BY <1>1, <1>4, Keeping
  <2> QED
    BY <1>2, <2>1 DEF Call, ReadOf
<1>5. \/ i \in Live /\ To(c, [call[c] EXCEPT !.at = "rewrite", !.read = ReadOf(i)])
      \/ (i \in Live => invoice[i].paid) /\ Done(c)
  BY DEF Correct
<1> QED
  BY <1>1, <1>3, <1>4, <1>5

LEMMA DoesRewrite ==
  ASSUME Shape, NEW c \in Callers, Rewrite(c)
  PROVE  LET i == call[c].mine IN
         /\ Kept(c) /\ call[c].at = "rewrite"
         /\ \/ call'[c] = Idle /\ UNCHANGED invoice /\ (i \notin Here \/ invoice[i].paid # call[c].read.paid)
            \/ /\ call'[c].at = "requeue" /\ call'[c].mine = i /\ call'[c].org = call[c].org
               /\ call'[c].other = call[c].other
               /\ \E status \in Statuses :
                    /\ status # "void" \/ status = invoice[i].status
                    /\ Rewrites(i, [invoice[i] EXCEPT !.status = status])
<1> DEFINE i == call[c].mine
           read == call[c].read
<1>1. call[c].at = "rewrite" /\ UNCHANGED <<desk, faults, raced, hands>>
  BY DEF Rewrite, Quiet
<1>2. call[c] \in Call
  BY <1>1, Being
<1>3. Done(c) => Kept(c) /\ call'[c] = Idle
  BY <1>1, Keeping DEF Done
<1>4. ASSUME To(c, [call[c] EXCEPT !.at = "requeue", !.read = None])
      PROVE  /\ Kept(c) /\ call'[c].at = "requeue" /\ call'[c].mine = i /\ call'[c].org = call[c].org
             /\ call'[c].other = call[c].other
  <2>1. Kept(c) /\ call'[c] = [call[c] EXCEPT !.at = "requeue", !.read = None]
    BY <1>1, <1>4, Keeping
  <2> QED
    BY <1>2, <2>1 DEF Call
<1>5. ASSUME i \in Here, NEW status \in Statuses, status # "void",
             invoice' = [invoice EXCEPT ![i].status = IF status # read.status THEN status ELSE @]
      PROVE  \E new \in Statuses : /\ new # "void" \/ new = invoice[i].status
                                   /\ Rewrites(i, [invoice[i] EXCEPT !.status = new])
  <2> DEFINE new == IF status # read.status THEN status ELSE invoice[i].status
             v == [invoice[i] EXCEPT !.status = new]
  <2>1. invoice[i] \in Invoice /\ invoice[i].status \in Statuses
    BY <1>5, Standing
  <2>2. new \in Statuses /\ (new # "void" \/ new = invoice[i].status)
    BY <1>5, <2>1
  <2>3. v \in Invoice
    BY <2>1, <2>2 DEF Invoice
  <2>4. invoice' = [invoice EXCEPT ![i] = v]
    BY <1>5
  <2> HIDE DEF new
  <2>5. Rewrites(i, v)
    BY <1>5, <2>3, <2>4, Written DEF Rewrites
  <2> QED
    BY <2>2, <2>5
<1>6. \/ (i \notin Here \/ invoice[i].paid # read.paid) /\ UNCHANGED invoice /\ Done(c)
      \/ /\ i \in Here
         /\ \E status \in IF read.status = "draft" THEN {"draft"} ELSE StatusAfter(read.paid) :
              invoice' = [invoice EXCEPT ![i].status = IF status # read.status THEN status ELSE @]
         /\ To(c, [call[c] EXCEPT !.at = "requeue", !.read = None])
  BY DEF Rewrite
<1>7. \A status \in IF read.status = "draft" THEN {"draft"} ELSE StatusAfter(read.paid) :
        status \in Statuses /\ status # "void"
  BY DEF StatusAfter, Statuses
<1> QED
  BY <1>1, <1>3, <1>4, <1>5, <1>6, <1>7

LEMMA DoesRequeue ==
  ASSUME Shape, NEW c \in Callers, Requeue(c)
  PROVE  LET i == call[c].mine IN
         /\ Kept(c) /\ call[c].at = "requeue"
         /\ \/ call'[c] = Idle /\ call[c].other = None
            \/ call'[c].at = "moveOut" /\ Same(c) /\ call[c].other # None
         /\ \/ UNCHANGED invoice /\ i \notin Here
            \/ Rewrites(i, [invoice[i] EXCEPT !.approval = "pending"])
<1> DEFINE i == call[c].mine
           v == [invoice[i] EXCEPT !.approval = "pending"]
<1>1. call[c].at = "requeue" /\ UNCHANGED <<desk, faults, raced, hands>>
  BY DEF Requeue, Quiet
<1>2. call[c] # Idle /\ call[c] \in Call
  BY <1>1, Being
<1>3. Done(c) => Kept(c) /\ call'[c] = Idle
  BY <1>1, Keeping DEF Done
<1>4. Go(c, "moveOut") => Kept(c) /\ call'[c].at = "moveOut" /\ Same(c)
  BY <1>1, <1>2, GoesTo
<1>5. i \notin Here => UNCHANGED invoice
  BY DEF Requeue
<1>6. ASSUME i \in Here
      PROVE  Rewrites(i, v)
  <2>1. v \in Invoice
    BY <1>6, Standing DEF Invoice
  <2>2. invoice' = [invoice EXCEPT ![i] = v]
    BY <1>6 DEF Requeue
  <2> HIDE DEF v
  <2> QED
    BY <1>6, <2>1, <2>2, Written DEF Rewrites
<1>7. IF call[c].other # None THEN Go(c, "moveOut") ELSE Done(c)
  BY DEF Requeue
<1> QED
  BY <1>1, <1>3, <1>4, <1>5, <1>6, <1>7
=============================================================================
