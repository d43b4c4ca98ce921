-------------------------- MODULE PaymentLinesProofs --------------------------
(***************************************************************************)
(* What PaymentLines guarantees for every number of payments, lines, late  *)
(* entries and managers.  However their calls interleave: every variable   *)
(* keeps its type, and no late entry is applied by two managers at once.   *)
(* While calls are made one at a time, the invoice voided and restored or  *)
(* not: between calls the lines of the account and what managers are shown *)
(* follow from the payments, a date turned down is gone, and within calls  *)
(* a reconciled line goes only for one that puts the same in the account.  *)
(***************************************************************************)
EXTENDS PaymentLines, TLAPS

(* The inductive invariant. *)

Deciding == {"apply", "saveApplied", "refuse", "refused", "giveBack"}

\* What a call holds, by what it does next.
Shaped(c) ==
    /\ c.at \in {"record", "edit"} => c.value \in Values
    /\ c.at \in {"edit", "line", "make", "saveApplied"} => c.read \in Payment
    /\ c.at \in {"edit", "saveApplied"} => c.p \in c.ids
    /\ c.at \in {"reask", "ask"} => c.entry \in Entries
    /\ c.at = "make" => ~IsAsked(c.read.late)
    /\ c.at \in Deciding \cup {"asked", "claim"} =>
         c.entry \in Entries /\ c.decision \in {"approved", "rejected"}
    /\ c.at \in {"apply", "saveApplied"} /\ c.decision = "rejected" => c.previous \in Dates

CallShape == \A a \in Actors : call[a] # Idle => Shaped(call[a])

\* A late entry a call is about to open is nobody's yet.
Asking(a) == call[a].at \in {"record", "edit", "reask", "ask"} /\ call[a].entry # None

EntriesAreNew ==
    /\ \A e \in Entries : entry[e] # None => e \in used
    /\ \A a \in Actors : Asking(a) => entry[call[a].entry] = None /\ call[a].entry \in used
    /\ \A a, b \in Actors : a # b /\ Asking(a) /\ Asking(b) => call[a].entry # call[b].entry

\* One that is looked at is there, and one that is applied does not wait.
EntriesAreThere ==
    \A a \in Actors :
        /\ call[a].at \in Deciding \cup {"asked", "claim"} => entry[call[a].entry] # None
        /\ call[a].at \in Deciding => entry[call[a].entry].state # "pending"

\* OneDecider, and while an entry is given back too.
OneHolder ==
    \A a, b \in Actors :
        a # b /\ call[a].at \in Deciding /\ call[b].at \in Deciding
        => call[a].entry # call[b].entry

IInv == TypeOK /\ CallShape /\ EntriesAreNew /\ EntriesAreThere /\ OneHolder

----------------------------------------------------------------------------
LEMMA InitIInv == Init => IInv
<1> SUFFICES ASSUME Init PROVE IInv
  OBVIOUS
<1>1. TypeOK
  BY DEF Init, TypeOK
<1>2. \A a \in Actors : call[a] = Idle
  BY DEF Init
<1>3. CallShape
  BY <1>2 DEF CallShape
<1>4. EntriesAreNew /\ EntriesAreThere /\ OneHolder
  BY <1>2 DEF Init, EntriesAreNew, EntriesAreThere, OneHolder, Asking, Deciding, Idle
<1> QED
  BY <1>1, <1>3, <1>4 DEF IInv

LEMMA AboutIsCall == \A p \in Payments : \A at \in Steps : About(p, at) \in Call
  BY BoundsAssumption DEF About, Call, Dates

\* A call that begins: it asks for an entry nobody was given, or decides one
\* that is there.
LEMMA Beginning ==
  ASSUME IInv, NEW a \in Actors, NEW r \in Call, Begin(a, r), Shaped(r),
         UNCHANGED <<void, payment, bank, entry, undone>>,
         used \subseteq used', used' \subseteq Payments \cup Lines \cup Entries,
         r.at \in {"record", "edit", "delete", "asked"},
         r.at \in {"record", "edit"} /\ r.entry # None =>
           r.entry \in Entries /\ r.entry \in used' /\ r.entry \notin used,
         r.at = "asked" => entry[r.entry] # None
  PROVE  IInv'
<1>1. call[a] = Idle /\ call' = [call EXCEPT ![a] = r] /\ raced' \in BOOLEAN
  BY DEF Begin, IInv, TypeOK
<1>2. TypeOK'
  BY <1>1 DEF IInv, TypeOK
<1>3. CallShape'
  BY <1>1 DEF IInv, TypeOK, CallShape, Shaped
<1>4. EntriesAreNew'
  BY <1>1 DEF IInv, TypeOK, EntriesAreNew, Asking
<1>5. EntriesAreThere' /\ OneHolder'
  BY <1>1 DEF IInv, TypeOK, EntriesAreThere, OneHolder, Deciding
<1> QED
  BY <1>2, <1>3, <1>4, <1>5 DEF IInv

LEMMA StepRecord ==
  ASSUME IInv, NEW a \in Actors, NEW p \in Payments, NEW value \in Values, NEW date \in Dates,
         Record(a, p, value, date)
  PROVE  IInv'
<1> DEFINE r == [About(p, "record") EXCEPT !.value = value, !.date = date]
<1>1. Begin(a, r) /\ used' = used \cup {p} /\ UNCHANGED <<void, payment, bank, entry, undone>>
  BY DEF Record
<1>2. r \in Call /\ r.at = "record" /\ r.value = value /\ r.entry = None
  BY BoundsAssumption DEF About, Call, Steps, Dates
<1> HIDE DEF r
<1>3. Shaped(r)
  BY <1>2 DEF Shaped, Deciding
<1>4. used \subseteq Payments \cup Lines \cup Entries
  BY DEF IInv, TypeOK
<1> QED
  BY <1>1, <1>2, <1>3, <1>4, Beginning

LEMMA StepRecordLate ==
  ASSUME IInv, NEW a \in Actors, NEW p \in Payments, NEW e \in Entries, NEW value \in Values,
         NEW date \in Dates, RecordLate(a, p, e, value, date)
  PROVE  IInv'
<1> DEFINE r == [About(p, "record") EXCEPT !.value = value, !.date = date, !.entry = e]
<1>1. /\ Begin(a, r) /\ e \notin used /\ used' = used \cup {p, e}
      /\ UNCHANGED <<void, payment, bank, entry, undone>>
  BY DEF RecordLate
<1>2. r \in Call /\ r.at = "record" /\ r.value = value /\ r.entry = e
  BY BoundsAssumption DEF About, Call, Steps, Dates
<1> HIDE DEF r
<1>3. Shaped(r)
  BY <1>2 DEF Shaped, Deciding
<1>4. used \subseteq Payments \cup Lines \cup Entries
  BY DEF IInv, TypeOK
<1> QED
  BY <1>1, <1>2, <1>3, <1>4, Beginning

LEMMA EditingIsCall ==
  ASSUME IInv, NEW p \in Payments, NEW value \in Values, NEW date \in Dates, p \in Here
  PROVE  LET r == Editing(p, value, date) IN
           /\ payment[p] \in Payment
           /\ r \in Call /\ r.at = "edit" /\ r.value = value /\ r.read = payment[p]
           /\ r.p = p /\ r.ids = Here /\ r.entry = None
<1>1. payment[p] \in Payment
  BY DEF Here, IInv, TypeOK
<1>2. Here \in SUBSET Payments
  BY DEF Here
<1>3. About(p, "edit") \in Call /\ About(p, "edit").at = "edit" /\ About(p, "edit").p = p
      /\ About(p, "edit").entry = None
  BY AboutIsCall DEF Steps, About
<1> DEFINE was == About(p, "edit")
<1> HIDE DEF was
<1>4. was \in Call /\ was.at = "edit" /\ was.p = p /\ was.entry = None
  BY <1>3 DEF was
<1>5. [was EXCEPT !.value = value, !.date = date] \in Call
  BY <1>4 DEF Call
<1>6. [was EXCEPT !.value = value, !.date = date, !.read = payment[p], !.ids = Here] \in Call
  BY <1>1, <1>2, <1>5 DEF Call
<1> QED
  BY <1>1, <1>4, <1>6 DEF Editing, Call, was

LEMMA StepEdit ==
  ASSUME IInv, NEW a \in Actors, NEW p \in Payments, NEW value \in Values, NEW date \in Dates,
         Edit(a, p, value, date)
  PROVE  IInv'
<1> DEFINE gone == /\ date # payment[p].date
                   /\ payment[p].late # None /\ payment[p].late.state # "approved"
           was  == Editing(p, value, date)
           r    == [was EXCEPT !.cleared = gone]
<1>1. Begin(a, r) /\ p \in Here /\ UNCHANGED <<void, payment, bank, entry, used, undone>>
  BY DEF Edit, MayEdit
<1>2. /\ payment[p] \in Payment
      /\ was \in Call /\ was.at = "edit" /\ was.value = value /\ was.read = payment[p]
      /\ was.p = p /\ was.ids = Here /\ was.entry = None
  BY <1>1, EditingIsCall
<1>3. gone \in BOOLEAN
  OBVIOUS
<1> HIDE DEF was, gone
<1>4. r \in Call /\ r.at = "edit" /\ r.value = value /\ r.read = payment[p]
      /\ r.p = p /\ r.ids = Here /\ r.entry = None
  BY <1>2, <1>3 DEF Call
<1> HIDE DEF r
<1>5. Shaped(r)
  BY <1>1, <1>2, <1>4 DEF Shaped, Deciding
<1>6. used \subseteq Payments \cup Lines \cup Entries
  BY DEF IInv, TypeOK
<1> QED
  BY <1>1, <1>4, <1>5, <1>6, Beginning

LEMMA StepEditLate ==
  ASSUME IInv, NEW a \in Actors, NEW p \in Payments, NEW e \in Entries, NEW value \in Values,
         NEW date \in Dates, EditLate(a, p, e, value, date)
  PROVE  IInv'
<1> DEFINE was == Editing(p, value, date)
           sub == [state |-> "pending", entry |-> e]
           r   == [was EXCEPT !.entry = e, !.late = sub, !.previous = Before(p)]
<1>1. /\ Begin(a, r) /\ p \in Here /\ e \notin used /\ used' = used \cup {e}
      /\ UNCHANGED <<void, payment, bank, entry, undone>>
  BY DEF EditLate, MayEdit
<1>2. /\ payment[p] \in Payment
      /\ was \in Call /\ was.at = "edit" /\ was.value = value /\ was.read = payment[p]
      /\ was.p = p /\ was.ids = Here /\ was.entry = None
  BY <1>1, EditingIsCall
<1>3. Before(p) \in Dates \cup {None}
  BY <1>2 DEF Before, IInv, TypeOK, Payment, Entry, Asked, IsAsked
<1>4. sub \in Asked
  BY DEF Asked
<1> HIDE DEF was, sub
<1>5. [was EXCEPT !.entry = e, !.late = sub] \in Call
  BY <1>2, <1>4 DEF Call
<1>6. r \in Call
  BY <1>3, <1>5 DEF Call
<1>7. r.at = was.at /\ r.value = was.value /\ r.read = was.read /\ r.p = was.p /\ r.ids = was.ids
      /\ r.entry = e
  BY <1>2 DEF Call
<1>8. r \in Call /\ r.at = "edit" /\ r.value = value /\ r.read = payment[p]
      /\ r.p = p /\ r.ids = Here /\ r.entry = e
  BY <1>2, <1>6, <1>7
<1> HIDE DEF r
<1>9. Shaped(r)
  BY <1>1, <1>2, <1>8 DEF Shaped, Deciding
<1>10. used \subseteq Payments \cup Lines \cup Entries
  BY DEF IInv, TypeOK
<1> QED
  BY <1>1, <1>8, <1>9, <1>10, Beginning

LEMMA StepDelete == ASSUME IInv, NEW a \in Actors, NEW p \in Payments, Delete(a, p) PROVE IInv'
<1> DEFINE r == [About(p, "delete") EXCEPT !.read = payment[p]]
<1>1. Begin(a, r) /\ UNCHANGED <<void, payment, bank, entry, used, undone>>
  BY DEF Delete
<1>2. About(p, "delete") \in Call /\ About(p, "delete").at = "delete"
  BY AboutIsCall DEF Steps, About
<1>3. payment[p] \in Payment \cup {None} /\ used \subseteq Payments \cup Lines \cup Entries
  BY DEF IInv, TypeOK
<1>4. r \in Call /\ r.at = "delete"
  BY <1>2, <1>3 DEF Call
<1>5. Shaped(r)
  BY <1>4 DEF Shaped, Deciding
<1> HIDE DEF r
<1> QED
  BY <1>1, <1>3, <1>4, <1>5, Beginning

LEMMA StepDecide ==
  ASSUME IInv, NEW a \in Actors, NEW e \in Entries, NEW decision \in {"approved", "rejected"},
         Decide(a, e, decision)
  PROVE  IInv'
<1> DEFINE r == [About(entry[e].of, "asked") EXCEPT !.entry = e, !.decision = decision,
                                                    !.previous = entry[e].previous]
<1>1. Begin(a, r) /\ UNCHANGED <<void, payment, bank, entry, used, undone>> /\ entry[e] # None
  BY DEF Decide
<1>2. entry[e] \in Entry /\ used \subseteq Payments \cup Lines \cup Entries
  BY <1>1 DEF IInv, TypeOK
<1>3. entry[e].of \in Payments /\ entry[e].previous \in Dates \cup {None}
  BY <1>2 DEF Entry
<1>4. About(entry[e].of, "asked") \in Call /\ About(entry[e].of, "asked").at = "asked"
  BY <1>3, AboutIsCall DEF Steps, About
<1>5. r \in Call /\ r.at = "asked" /\ r.entry = e /\ r.decision = decision
  BY <1>3, <1>4 DEF Call
<1>6. Shaped(r)
  BY <1>5 DEF Shaped
<1> HIDE DEF r
<1> QED
  BY <1>1, <1>2, <1>5, <1>6, Beginning

----------------------------------------------------------------------------
(* A call that goes on: it is r next, or done. *)

Opening == {"record", "edit", "reask", "ask"}

\* It keeps the late entry it holds, and takes no other.
Keeps(c, r) ==
    /\ r.at \in Opening /\ r.entry # None => c.at \in Opening /\ r.entry = c.entry
    /\ r.at \in Deciding \cup {"asked", "claim"} =>
         c.at \in Deciding \cup {"asked", "claim"} /\ r.entry = c.entry

\* None comes or goes, and one decided stays so, unless its call gives it back;
\* a call that decides one finds it waiting.
Decides(c, r) ==
    /\ \A e \in Entries : entry'[e] = None <=> entry[e] = None
    /\ \A e \in Entries :
         entry[e] # None /\ entry[e].state # "pending" =>
           \/ entry'[e].state # "pending"
           \/ c.at \in Deciding /\ r.at \notin Deciding /\ e = c.entry
    /\ r.at \in Deciding /\ c.at \notin Deciding =>
         entry[c.entry].state = "pending" /\ entry'[c.entry].state # "pending"

LEMMA Going ==
  ASSUME IInv, NEW a \in Actors, call[a] # Idle, NEW r \in Call \cup {Idle},
         To(a, r), r # Idle => Shaped(r), UNCHANGED <<void, raced>>, undone' \subseteq Entries \/ UNCHANGED undone,
         payment' \in [Payments -> Payment \cup {None}],
         bank' \in [Lines -> Line \cup {None}],
         entry' \in [Entries -> Entry \cup {None}],
         used \subseteq used', used' \subseteq Payments \cup Lines \cup Entries,
         Keeps(call[a], r), Decides(call[a], r)
  PROVE  IInv'
<1>1. /\ call' = [call EXCEPT ![a] = r] /\ call \in [Actors -> Call \cup {Idle}]
      /\ call' \in [Actors -> Call \cup {Idle}]
      /\ call'[a] = r /\ \A b \in Actors : b # a => call'[b] = call[b]
  BY DEF To, IInv, TypeOK
<1>2. TypeOK'
  BY <1>1 DEF IInv, TypeOK
<1>3. CallShape'
  BY <1>1 DEF IInv, CallShape, Shaped
<1>4. \A b \in Actors : Asking(b)' =>
         Asking(b) /\ call'[b].entry = call[b].entry /\ call[b].entry \in Entries
  <2> SUFFICES ASSUME NEW b \in Actors, Asking(b)'
               PROVE  Asking(b) /\ call'[b].entry = call[b].entry /\ call[b].entry \in Entries
    OBVIOUS
  <2>1. Asking(b) /\ call'[b].entry = call[b].entry
    BY <1>1 DEF Asking, Keeps, Opening
  <2>2. call[b].entry \in Entries
    BY <1>1, <2>1 DEF Asking, Call, Idle
  <2> QED
    BY <2>1, <2>2
<1>5. EntriesAreNew'
  BY <1>4 DEF IInv, EntriesAreNew, Decides
<1>6. \A b \in Actors : call[b].at \in Deciding \cup {"asked", "claim"} => call[b].entry \in Entries
  BY DEF IInv, CallShape, Shaped, Idle, Deciding
<1>7. EntriesAreThere'
  BY <1>1, <1>6 DEF IInv, EntriesAreThere, OneHolder, Keeps, Decides, Deciding
<1>8. OneHolder'
  BY <1>1, <1>6 DEF IInv, EntriesAreThere, OneHolder, Keeps, Decides, Deciding
<1> QED
  BY <1>2, <1>3, <1>5, <1>7, <1>8 DEF IInv

LEMMA Running ==
  ASSUME IInv, NEW a \in Actors, call[a].at \in Steps
  PROVE  /\ call[a] \in Call /\ call[a] # Idle /\ Shaped(call[a])
         /\ call[a].p \in Payments /\ call[a].entry \in Entries \cup {None}
         /\ call[a].decision \in {"approved", "rejected", None}
<1>1. call[a] # Idle
  BY DEF Idle, Steps
<1>2. call[a] \in Call
  BY <1>1 DEF IInv, TypeOK
<1> QED
  BY <1>1, <1>2 DEF IInv, CallShape, Call

LEMMA Went ==
  ASSUME IInv, NEW a \in Actors, NEW at \in Steps, call[a] \in Call
  PROVE  LET r == [call[a] EXCEPT !.at = at] IN
           /\ Go(a, at) => To(a, r)
           /\ r \in Call /\ r # Idle /\ r.at = at
           /\ r.entry = call[a].entry /\ r.read = call[a].read /\ r.ids = call[a].ids
           /\ r.p = call[a].p /\ r.decision = call[a].decision /\ r.previous = call[a].previous
<1> DEFINE r == [call[a] EXCEPT !.at = at]
<1>1. r \in Call /\ r.at = at
  BY DEF Call
<1>2. r # Idle
  BY <1>1 DEF Idle, Steps
<1>3. Go(a, at) => To(a, r)
  BY DEF Go, To
<1> QED
  BY <1>1, <1>2, <1>3 DEF Call

LEMMA AboutIs ==
  ASSUME NEW p \in Payments, NEW at \in Steps
  PROVE  /\ About(p, at) \in Call /\ About(p, at) # Idle
         /\ About(p, at).at = at /\ About(p, at).p = p /\ About(p, at).entry = None
<1>1. About(p, at).at = at /\ About(p, at).p = p /\ About(p, at).entry = None
  BY DEF About
<1>2. About(p, at) # Idle
  BY <1>1 DEF Idle, Steps
<1> QED
  BY <1>1, <1>2, AboutIsCall

\* A step that leaves the late entries alone.
LEMMA EntryStays ==
  ASSUME UNCHANGED entry, NEW c, NEW r, r.at \in Deciding => c.at \in Deciding
  PROVE  Decides(c, r)
  BY DEF Decides

\* It goes on with nothing held.
LEMMA Resting ==
  ASSUME NEW c, NEW r,
         r = Idle \/ r.at \in {"unask", "delete", "removeLine", "forget", "sync", "link"}
  PROVE  Keeps(c, r) /\ Shaped(r) /\ r.at \notin Deciding
<1>1. r.at \in {"idle", "unask", "delete", "removeLine", "forget", "sync", "link"}
  BY DEF Idle
<1> QED
  BY <1>1 DEF Keeps, Shaped, Opening, Deciding

----------------------------------------------------------------------------
(* A payment's own steps. *)

LEMMA StepSaveRecord == ASSUME IInv, NEW a \in Actors, SaveRecord(a) PROVE IInv'
<1> DEFINE c == call[a]
           sub == [state |-> "pending", entry |-> c.entry]
           late == IF c.entry = None THEN None ELSE sub
           new == [value |-> c.value, date |-> c.date, line |-> None, late |-> late]
<1>1. /\ c \in Call /\ c # Idle /\ Shaped(c) /\ c.at = "record"
      /\ c.p \in Payments /\ c.entry \in Entries \cup {None}
  BY Running DEF SaveRecord, Steps
<1>2. /\ payment' = [payment EXCEPT ![c.p] = new]
      /\ UNCHANGED <<void, bank, entry, used, raced, undone>>
  BY DEF SaveRecord
<1>3. late \in Asked \cup {None}
  BY <1>1 DEF Asked
<1>4. c.value \in Values /\ c.date \in Dates
  BY <1>1 DEF Shaped, Call
<1> HIDE DEF late
<1>5. new \in Payment
  BY <1>3, <1>4 DEF Payment
<1>6. /\ payment' \in [Payments -> Payment \cup {None}] /\ bank' \in [Lines -> Line \cup {None}]
      /\ entry' \in [Entries -> Entry \cup {None}]
      /\ used' \subseteq Payments \cup Lines \cup Entries
  BY <1>2, <1>5 DEF IInv, TypeOK
<1>7. CASE c.entry = None
  <2> DEFINE r == About(c.p, "sync")
  <2>1. To(a, r) /\ r \in Call /\ r.at = "sync"
    BY <1>1, <1>7, AboutIs DEF SaveRecord, GoSync, Steps
  <2> HIDE DEF r, c, new
  <2> QED
    BY <1>1, <1>2, <1>6, <2>1, Resting, EntryStays, Going DEF c
<1>8. CASE c.entry # None
  <2> DEFINE was == About(c.p, "reask")
             r == [was EXCEPT !.entry = c.entry]
  <2>1. was \in Call /\ was.at = "reask"
    BY <1>1, AboutIs DEF Steps
  <2>2. To(a, r)
    BY <1>8 DEF SaveRecord
  <2> HIDE DEF was
  <2>3. r \in Call /\ r.at = "reask" /\ r.entry = c.entry
    BY <1>1, <2>1 DEF Call
  <2> HIDE DEF r, new
  <2>4. Shaped(r) /\ Keeps(c, r) /\ r.at \notin Deciding
    BY <1>1, <1>8, <2>3 DEF Shaped, Keeps, Deciding, Opening
  <2> QED
    BY <1>1, <1>2, <1>6, <2>2, <2>3, <2>4, EntryStays, Going
<1> QED
  BY <1>7, <1>8

LEMMA StepSaveEdit == ASSUME IInv, NEW a \in Actors, SaveEdit(a) PROVE IInv'
<1> DEFINE c == call[a]
           old == payment[c.p]
           value == IF c.value # c.read.value THEN c.value ELSE old.value
           date == IF c.date # c.read.date THEN c.date ELSE old.date
           late == IF c.cleared THEN None ELSE IF c.late = None THEN old.late ELSE c.late
           new == [old EXCEPT !.value = value, !.date = date, !.late = late]
<1>1. /\ c \in Call /\ c # Idle /\ Shaped(c) /\ c.at = "edit"
      /\ c.p \in Payments /\ c.entry \in Entries \cup {None}
  BY Running DEF SaveEdit, Steps
<1>2. /\ UNCHANGED <<void, bank, entry, used, raced, undone>>
      /\ bank' \in [Lines -> Line \cup {None}] /\ entry' \in [Entries -> Entry \cup {None}]
      /\ used' \subseteq Payments \cup Lines \cup Entries
  BY DEF SaveEdit, IInv, TypeOK
<1>3. CASE Here # c.ids
  <2>1. To(a, Idle) /\ payment' = payment
    BY <1>3 DEF SaveEdit, Done
  <2>2. payment' \in [Payments -> Payment \cup {None}]
    BY <2>1 DEF IInv, TypeOK
  <2> QED
    BY <1>1, <1>2, <2>1, <2>2, Resting, EntryStays, Going
<1>4. CASE Here = c.ids
  <2>1. payment' = [payment EXCEPT ![c.p] = new]
    BY <1>4 DEF SaveEdit
  <2>2. old \in Payment
    BY <1>1, <1>4 DEF Shaped, Here, IInv, TypeOK
  <2>3. c.value \in Values /\ c.date \in Dates /\ c.late \in Asked \cup {None}
    BY <1>1 DEF Shaped, Call
  <2>4. value \in Values /\ date \in Dates /\ late \in Asked \cup {None}
    BY <2>2, <2>3 DEF Payment
  <2> HIDE DEF old, value, date, late
  <2>5. new \in Payment
    BY <2>2, <2>4 DEF Payment
  <2> HIDE DEF new
  <2>6. payment' \in [Payments -> Payment \cup {None}]
    BY <2>1, <2>5 DEF IInv, TypeOK
  <2>7. CASE c.entry # None
    <3> DEFINE was == About(c.p, "reask")
               r == [was EXCEPT !.entry = c.entry, !.previous = c.previous]
    <3>1. was \in Call /\ was.at = "reask"
      BY <1>1, AboutIs DEF Steps
    <3>2. To(a, r)
      BY <1>4, <2>7 DEF SaveEdit
    <3> HIDE DEF was
    <3>3. r \in Call /\ r.at = "reask" /\ r.entry = c.entry
      BY <1>1, <3>1 DEF Call
    <3> HIDE DEF r
    <3>4. Shaped(r) /\ Keeps(c, r) /\ r.at \notin Deciding
      BY <1>1, <2>7, <3>3 DEF Shaped, Keeps, Deciding, Opening
    <3> QED
      BY <1>1, <1>2, <2>6, <3>2, <3>3, <3>4, EntryStays, Going
  <2>8. CASE c.entry = None
    <3>1. PICK at \in {"unask", "sync"} : To(a, About(c.p, at))
      BY <1>4, <2>8 DEF SaveEdit, GoSync
    <3> DEFINE r == About(c.p, at)
    <3>2. r \in Call /\ r.at = at
      BY <1>1, AboutIs DEF Steps
    <3> HIDE DEF r
    <3>3. To(a, r)
      BY <3>1 DEF r
    <3> QED
      BY <1>1, <1>2, <2>6, <3>2, <3>3, Resting, EntryStays, Going
  <2> QED
    BY <2>7, <2>8
<1> QED
  BY <1>3, <1>4

LEMMA StepSaveDelete == ASSUME IInv, NEW a \in Actors, SaveDelete(a) PROVE IInv'
<1> DEFINE c == call[a]
           r == [c EXCEPT !.at = "removeLine"]
<1>1. c \in Call /\ c # Idle /\ c.p \in Payments
  BY Running DEF SaveDelete, Steps
<1>2. To(a, r) /\ r \in Call /\ r.at = "removeLine"
  <2>1. Go(a, "removeLine") /\ "removeLine" \in Steps
    BY DEF SaveDelete, Steps
  <2> QED
    BY <1>1, <2>1, Went
<1>3. /\ payment' \in [Payments -> Payment \cup {None}] /\ bank' \in [Lines -> Line \cup {None}]
      /\ entry' \in [Entries -> Entry \cup {None}]
      /\ used' \subseteq Payments \cup Lines \cup Entries
      /\ UNCHANGED <<void, entry, used, raced, undone>>
  BY <1>1 DEF SaveDelete, IInv, TypeOK
<1> HIDE DEF r
<1> QED
  BY <1>1, <1>2, <1>3, Resting, EntryStays, Going

LEMMA StepRemoveLine == ASSUME IInv, NEW a \in Actors, RemoveLine(a) PROVE IInv'
<1> DEFINE c == call[a]
           r == About(c.p, "forget")
<1>1. c \in Call /\ c # Idle /\ c.p \in Payments
  BY Running DEF RemoveLine, Steps
<1>2. To(a, r) /\ r \in Call /\ r.at = "forget"
  BY <1>1, AboutIs DEF RemoveLine, Steps
<1>3. /\ payment' \in [Payments -> Payment \cup {None}] /\ bank' \in [Lines -> Line \cup {None}]
      /\ entry' \in [Entries -> Entry \cup {None}]
      /\ used' \subseteq Payments \cup Lines \cup Entries
      /\ UNCHANGED <<void, entry, used, raced, undone>>
  BY DEF RemoveLine, IInv, TypeOK
<1> HIDE DEF r
<1> QED
  BY <1>1, <1>2, <1>3, Resting, EntryStays, Going

----------------------------------------------------------------------------
(* Late entries opened and withdrawn. *)

LEMMA Withdrawing ==
  ASSUME IInv, NEW p \in Payments, entry' = Withdrawn(p)
  PROVE  /\ entry' \in [Entries -> Entry \cup {None}]
         /\ \A c, r : r.at \notin Deciding => Decides(c, r)
<1>1. \A e \in Entries : entry[e] # None =>
        entry[e] \in Entry /\ [entry[e] EXCEPT !.state = "withdrawn"] \in Entry
  BY DEF IInv, TypeOK, Entry
<1>2. \A e \in Entries :
        IF entry[e] # None /\ entry[e].of = p /\ entry[e].state = "pending"
        THEN entry'[e] = [entry[e] EXCEPT !.state = "withdrawn"] ELSE entry'[e] = entry[e]
  BY DEF Withdrawn
<1>3. entry' \in [Entries -> Entry \cup {None}]
  <2>1. \A e \in Entries : entry'[e] \in Entry \cup {None}
    BY <1>1, <1>2 DEF IInv, TypeOK
  <2> QED
    BY <2>1 DEF Withdrawn
<1>4. \A e \in Entries : entry'[e] = None <=> entry[e] = None
  BY <1>1, <1>2, NoneAssumption
<1> QED
  BY <1>2, <1>3, <1>4 DEF Decides

LEMMA StepReask == ASSUME IInv, NEW a \in Actors, Reask(a) PROVE IInv'
<1> DEFINE c == call[a]
           r == [c EXCEPT !.at = "ask"]
<1>1. c \in Call /\ c # Idle /\ Shaped(c) /\ c.p \in Payments /\ c.at = "reask"
  BY Running DEF Reask, Steps
<1>2. To(a, r) /\ r \in Call /\ r.at = "ask" /\ r.entry = c.entry
  <2>1. Go(a, "ask") /\ "ask" \in Steps
    BY DEF Reask, Steps
  <2> QED
    BY <1>1, <2>1, Went
<1> HIDE DEF r
<1>3. Shaped(r) /\ Keeps(c, r) /\ r.at \notin Deciding
  BY <1>1, <1>2 DEF Shaped, Keeps, Opening, Deciding
<1>4. entry' \in [Entries -> Entry \cup {None}] /\ Decides(c, r)
  BY <1>1, <1>3, Withdrawing DEF Reask
<1>5. /\ payment' \in [Payments -> Payment \cup {None}] /\ bank' \in [Lines -> Line \cup {None}]
      /\ used' \subseteq Payments \cup Lines \cup Entries /\ UNCHANGED <<void, used, raced, undone>>
  BY DEF Reask, IInv, TypeOK
<1> QED
  BY <1>1, <1>2, <1>3, <1>4, <1>5, Going

LEMMA StepAsk == ASSUME IInv, NEW a \in Actors, Ask(a) PROVE IInv'
<1> DEFINE c == call[a]
           new == [of |-> c.p, previous |-> c.previous, state |-> "pending"]
           r == About(c.p, "sync")
<1>1. c \in Call /\ c # Idle /\ c.p \in Payments /\ c.at = "ask" /\ c.entry \in Entries
  BY Running DEF Ask, Steps, Shaped
<1>2. new \in Entry
  BY <1>1 DEF Call, Entry
<1>3. Asking(a) /\ entry[c.entry] = None /\ c.entry \in used
  BY <1>1, NoneAssumption DEF Asking, IInv, EntriesAreNew
<1>4. call' = [call EXCEPT ![a] = r] /\ r \in Call /\ r # Idle /\ r.at = "sync" /\ Shaped(r)
  <2>1. r \in Call /\ r # Idle /\ r.at = "sync"
    BY <1>1, AboutIs DEF Steps
  <2> QED
    BY <2>1, Resting DEF Ask, GoSync, To
<1> HIDE DEF r, new
<1>5. entry' = [entry EXCEPT ![c.entry] = new] /\ UNCHANGED <<void, payment, bank, used, raced, undone>>
  BY DEF Ask, new
<1>6. /\ call' \in [Actors -> Call \cup {Idle}] /\ entry' \in [Entries -> Entry \cup {None}]
      /\ call'[a] = r /\ \A b \in Actors : b # a => call'[b] = call[b]
      /\ entry'[c.entry] # None /\ \A e \in Entries : e # c.entry => entry'[e] = entry[e]
  BY <1>1, <1>2, <1>4, <1>5, NoneAssumption DEF IInv, TypeOK
<1>7. TypeOK'
  BY <1>5, <1>6 DEF IInv, TypeOK
<1>8. CallShape'
  BY <1>4, <1>6 DEF IInv, CallShape
<1>9. EntriesAreNew'
  <2>1. \A b \in Actors : Asking(b)' =>
          Asking(b) /\ b # a /\ call'[b] = call[b] /\ call[b].entry \in Entries
    BY <1>4, <1>6 DEF Asking, IInv, TypeOK, Call, Idle
  <2>2. \A e \in Entries : entry'[e] # None => e \in used
    BY <1>3, <1>6 DEF IInv, EntriesAreNew
  <2> QED
    BY <1>3, <1>5, <1>6, <2>1, <2>2 DEF IInv, EntriesAreNew
<1>10. EntriesAreThere' /\ OneHolder'
  <2>1. \A b \in Actors : call'[b].at \in Deciding \cup {"asked", "claim"} =>
          /\ call'[b] = call[b] /\ b # a /\ call[b].entry \in Entries
          /\ entry[call[b].entry] # None
    BY <1>4, <1>6 DEF IInv, EntriesAreThere, CallShape, Shaped, Deciding, Idle
  <2>2. \A b \in Actors : call'[b].at \in Deciding \cup {"asked", "claim"} =>
          entry'[call[b].entry] = entry[call[b].entry]
    BY <1>3, <1>6, <2>1
  <2> QED
    BY <2>1, <2>2 DEF IInv, EntriesAreThere, OneHolder
<1> QED
  BY <1>7, <1>8, <1>9, <1>10 DEF IInv

LEMMA StepUnask == ASSUME IInv, NEW a \in Actors, Unask(a) PROVE IInv'
<1> DEFINE c == call[a]
<1>1. c \in Call /\ c # Idle /\ c.p \in Payments
  BY Running DEF Unask, Steps
<1>2. PICK r \in {About(c.p, "sync"), Idle} : To(a, r)
  BY DEF Unask, GoSync, Done
<1>3. r \in Call \cup {Idle} /\ (r = Idle \/ r.at = "sync")
  BY <1>1, AboutIs DEF Steps
<1>4. Shaped(r) /\ Keeps(c, r) /\ r.at \notin Deciding
  BY <1>3, Resting
<1>5. entry' \in [Entries -> Entry \cup {None}] /\ Decides(c, r)
  BY <1>1, <1>4, Withdrawing DEF Unask
<1>6. /\ payment' \in [Payments -> Payment \cup {None}] /\ bank' \in [Lines -> Line \cup {None}]
      /\ used' \subseteq Payments \cup Lines \cup Entries /\ UNCHANGED <<void, used, raced, undone>>
  BY DEF Unask, IInv, TypeOK
<1> QED
  BY <1>1, <1>2, <1>3, <1>4, <1>5, <1>6, Going

----------------------------------------------------------------------------
(* The line. *)

LEMMA StepSync == ASSUME IInv, NEW a \in Actors, Sync(a) PROVE IInv'
<1> DEFINE c == call[a]
<1>1. c \in Call /\ c # Idle /\ c.p \in Payments
  BY Running DEF Sync, Steps
<1>2. /\ payment' \in [Payments -> Payment \cup {None}] /\ bank' \in [Lines -> Line \cup {None}]
      /\ entry' \in [Entries -> Entry \cup {None}]
      /\ used' \subseteq Payments \cup Lines \cup Entries
      /\ UNCHANGED <<void, entry, used, raced, undone>>
  BY DEF Sync, IInv, TypeOK
<1>3. CASE c.p \in Here
  <2> DEFINE r == [c EXCEPT !.at = "line", !.read = payment[c.p]]
  <2>1. payment[c.p] \in Payment
    BY <1>1, <1>3 DEF Here, IInv, TypeOK
  <2>2. r \in Call /\ r.at = "line" /\ r.read \in Payment
    BY <1>1, <2>1 DEF Call, Steps
  <2>3. To(a, r)
    BY <1>3 DEF Sync
  <2> HIDE DEF r
  <2>4. Shaped(r) /\ Keeps(c, r) /\ r.at \notin Deciding
    BY <2>2 DEF Shaped, Keeps, Opening, Deciding
  <2> QED
    BY <1>1, <1>2, <2>2, <2>3, <2>4, EntryStays, Going
<1>4. CASE c.p \notin Here
  <2>1. To(a, Idle)
    BY <1>4 DEF Sync, Done
  <2> QED
    BY <1>1, <1>2, <2>1, Resting, EntryStays, Going
<1> QED
  BY <1>3, <1>4

LEMMA StepKeepOrRemove == ASSUME IInv, NEW a \in Actors, KeepOrRemove(a) PROVE IInv'
<1> DEFINE c == call[a]
           want == Wanted(c.read)
<1>1. c \in Call /\ c # Idle /\ c.p \in Payments /\ c.at = "line" /\ c.read \in Payment
  BY Running DEF KeepOrRemove, Steps, Shaped
<1>2. /\ payment' \in [Payments -> Payment \cup {None}]
      /\ entry' \in [Entries -> Entry \cup {None}]
      /\ used' \subseteq Payments \cup Lines \cup Entries
      /\ UNCHANGED <<void, entry, used, raced, undone>>
  BY DEF KeepOrRemove, IInv, TypeOK
<1>3. \/ UNCHANGED bank
      \/ bank' = [l \in Lines |-> IF l = c.read.line THEN None ELSE bank[l]]
  BY DEF KeepOrRemove
<1>4. bank' \in [Lines -> Line \cup {None}]
  BY <1>3 DEF IInv, TypeOK
<1>5. Done(a) \/ To(a, About(c.p, "link")) \/ (want # None /\ Go(a, "make"))
  BY Zenon DEF KeepOrRemove
<1>6. CASE Done(a)
  BY <1>1, <1>2, <1>4, <1>6, Resting, EntryStays, Going DEF Done
<1>7. CASE To(a, About(c.p, "link"))
  <2> DEFINE r == About(c.p, "link")
  <2>1. r \in Call /\ r.at = "link"
    BY <1>1, AboutIs DEF Steps
  <2> HIDE DEF r
  <2>2. To(a, r)
    BY <1>7 DEF r
  <2> QED
    BY <1>1, <1>2, <1>4, <2>1, <2>2, Resting, EntryStays, Going
<1>8. CASE want # None /\ Go(a, "make")
  <2> DEFINE r == [c EXCEPT !.at = "make"]
  <2>1. To(a, r) /\ r \in Call /\ r.at = "make" /\ r.read = c.read
    <3>1. "make" \in Steps
      BY DEF Steps
    <3> QED
      BY <1>1, <1>8, <3>1, Went
  <2>2. ~IsAsked(c.read.late)
    BY <1>8 DEF Wanted
  <2> HIDE DEF r
  <2>3. Shaped(r) /\ Keeps(c, r) /\ r.at \notin Deciding
    BY <1>1, <2>1, <2>2 DEF Shaped, Keeps, Opening, Deciding
  <2> QED
    BY <1>1, <1>2, <1>4, <2>1, <2>3, EntryStays, Going
<1> QED
  BY <1>5, <1>6, <1>7, <1>8

LEMMA StepMake == ASSUME IInv, NEW a \in Actors, Make(a) PROVE IInv'
<1> DEFINE c == call[a]
<1>1. /\ c \in Call /\ c # Idle /\ c.p \in Payments
      /\ c.read \in Payment /\ ~IsAsked(c.read.late)
  BY Running DEF Make, Steps, Shaped
<1>2. PICK l \in Lines : /\ bank' = [bank EXCEPT ![l] = Wanted(c.read)]
                         /\ used' = used \cup {l}
                         /\ To(a, [About(c.p, "link") EXCEPT !.line = l])
  BY DEF Make
<1>3. Wanted(c.read) \in Line
  BY <1>1 DEF Wanted, Payment, Line
<1>4. /\ payment' \in [Payments -> Payment \cup {None}] /\ bank' \in [Lines -> Line \cup {None}]
      /\ entry' \in [Entries -> Entry \cup {None}] /\ used \subseteq used'
      /\ used' \subseteq Payments \cup Lines \cup Entries /\ UNCHANGED <<void, entry, raced, undone>>
  BY <1>2, <1>3 DEF Make, IInv, TypeOK
<1> DEFINE was == About(c.p, "link")
           r == [was EXCEPT !.line = l]
<1>5. was \in Call /\ was.at = "link"
  BY <1>1, AboutIs DEF Steps
<1>6. To(a, r)
  BY <1>2
<1> HIDE DEF was
<1>7. r \in Call /\ r.at = "link"
  BY <1>5 DEF Call
<1> HIDE DEF r
<1> QED
  BY <1>1, <1>4, <1>6, <1>7, Resting, EntryStays, Going

LEMMA StepLink == ASSUME IInv, NEW a \in Actors, Link(a) PROVE IInv'
<1> DEFINE c == call[a]
<1>1. c \in Call /\ c # Idle /\ c.line \in Lines \cup {None}
  <2>1. c \in Call /\ c # Idle
    BY Running DEF Link, Steps
  <2> QED
    BY <2>1 DEF Call
<1>2. \A p \in Payments : payment[p] # None => [payment[p] EXCEPT !.line = c.line] \in Payment
  BY <1>1 DEF IInv, TypeOK, Payment
<1>3. payment' \in [Payments -> Payment \cup {None}]
  <2>1. \A p \in Payments : payment'[p] \in Payment \cup {None}
    BY <1>2 DEF Link, Here, IInv, TypeOK
  <2> QED
    BY <2>1 DEF Link
<1>4. /\ bank' \in [Lines -> Line \cup {None}]
      /\ entry' \in [Entries -> Entry \cup {None}]
      /\ used' \subseteq Payments \cup Lines \cup Entries
      /\ UNCHANGED <<void, entry, used, raced, undone>> /\ To(a, Idle)
  BY DEF Link, Done, IInv, TypeOK
<1> QED
  BY <1>1, <1>3, <1>4, Resting, EntryStays, Going

----------------------------------------------------------------------------
(* A late entry is decided. *)

LEMMA Marking ==
  ASSUME IInv, NEW e \in Entries, entry[e] # None,
         NEW state \in {"pending", "approved", "rejected", "withdrawn"},
         entry' = [entry EXCEPT ![e].state = state]
  PROVE  /\ entry' \in [Entries -> Entry \cup {None}]
         /\ \A f \in Entries : entry'[f] = None <=> entry[f] = None
         /\ entry'[e].state = state /\ \A f \in Entries : f # e => entry'[f] = entry[f]
<1> DEFINE new == [entry[e] EXCEPT !.state = state]
<1>1. entry[e] \in Entry /\ entry' = [entry EXCEPT ![e] = new]
  BY DEF IInv, TypeOK
<1>2. new \in Entry /\ new.state = state
  BY <1>1 DEF Entry
<1> HIDE DEF new
<1> QED
  BY <1>1, <1>2, NoneAssumption DEF IInv, TypeOK

LEMMA StepStillAsked == ASSUME IInv, NEW a \in Actors, StillAsked(a) PROVE IInv'
<1> DEFINE c == call[a]
           r == [c EXCEPT !.at = "claim"]
<1>1. c \in Call /\ c # Idle /\ Shaped(c) /\ c.at = "asked" /\ c.entry \in Entries
  BY Running DEF StillAsked, Steps, Shaped
<1>2. /\ payment' \in [Payments -> Payment \cup {None}] /\ bank' \in [Lines -> Line \cup {None}]
      /\ used' \subseteq Payments \cup Lines \cup Entries
      /\ UNCHANGED <<void, used, raced, undone>>
  BY DEF StillAsked, IInv, TypeOK
<1>3. CASE Go(a, "claim") /\ UNCHANGED entry
  <2>1. To(a, r) /\ r \in Call /\ r.at = "claim" /\ r.entry = c.entry /\ r.decision = c.decision
    <3>1. "claim" \in Steps
      BY DEF Steps
    <3> QED
      BY <1>1, <1>3, <3>1, Went
  <2> HIDE DEF r
  <2>2. Shaped(r) /\ Keeps(c, r) /\ r.at \notin Deciding
    BY <1>1, <2>1 DEF Shaped, Keeps, Opening, Deciding
  <2>3. entry' \in [Entries -> Entry \cup {None}]
    BY <1>3 DEF IInv, TypeOK
  <2> QED
    BY <1>1, <1>2, <1>3, <2>1, <2>2, <2>3, EntryStays, Going
<1>4. CASE Done(a) /\ entry' = [entry EXCEPT ![c.entry].state = "withdrawn"]
  <2>1. entry[c.entry] # None
    BY <1>1 DEF IInv, EntriesAreThere
  <2>2. entry' \in [Entries -> Entry \cup {None}] /\ Decides(c, Idle)
    BY <1>1, <1>4, <2>1, Marking, Resting DEF Decides
  <2> QED
    BY <1>1, <1>2, <1>4, <2>2, Resting, Going DEF Done
<1> QED
  BY <1>3, <1>4 DEF StillAsked

LEMMA StepClaim == ASSUME IInv, NEW a \in Actors, Claim(a) PROVE IInv'
<1> DEFINE c == call[a]
           at == Applying(c)
           r == [c EXCEPT !.at = at]
<1>1. /\ c \in Call /\ c # Idle /\ Shaped(c) /\ c.at = "claim" /\ c.entry \in Entries
      /\ c.decision \in {"approved", "rejected"}
  BY Running DEF Claim, Steps, Shaped
<1>2. /\ payment' \in [Payments -> Payment \cup {None}] /\ bank' \in [Lines -> Line \cup {None}]
      /\ used' \subseteq Payments \cup Lines \cup Entries
      /\ UNCHANGED <<void, used, raced, undone>>
  BY DEF Claim, IInv, TypeOK
<1>3. CASE entry[c.entry].state # "pending"
  <2>1. To(a, Idle) /\ UNCHANGED entry /\ entry' \in [Entries -> Entry \cup {None}]
    BY <1>3 DEF Claim, Done, IInv, TypeOK
  <2> QED
    BY <1>1, <1>2, <2>1, Resting, EntryStays, Going
<1>4. CASE entry[c.entry].state = "pending"
  <2>1. /\ at \in {"refuse", "apply"}
        /\ at = "apply" /\ c.decision = "rejected" => c.previous \in Dates
    BY <1>1 DEF Applying, Call
  <2>2. Go(a, at) /\ at \in Steps /\ entry' = [entry EXCEPT ![c.entry].state = c.decision]
    BY <1>4, <2>1 DEF Claim, Steps
  <2>3. entry[c.entry] # None
    BY <1>1 DEF IInv, EntriesAreThere
  <2> HIDE DEF at
  <2>4. /\ To(a, r) /\ r \in Call /\ r # Idle /\ r.at = at /\ r.entry = c.entry
        /\ r.decision = c.decision /\ r.previous = c.previous
    BY <1>1, <2>2, Went
  <2> HIDE DEF r
  <2>5. Shaped(r) /\ Keeps(c, r) /\ r.at \in Deciding
    BY <1>1, <2>1, <2>4 DEF Shaped, Keeps, Opening, Deciding
  <2>6. entry' \in [Entries -> Entry \cup {None}] /\ Decides(c, r)
    BY <1>1, <1>4, <2>2, <2>3, Marking DEF Decides
  <2> QED
    BY <1>1, <1>2, <2>4, <2>5, <2>6, Going
<1> QED
  BY <1>3, <1>4

LEMMA StepApply == ASSUME IInv, NEW a \in Actors, Apply(a) PROVE IInv'
<1> DEFINE c == call[a]
<1>1. c \in Call /\ c # Idle /\ Shaped(c) /\ c.at = "apply" /\ c.p \in Payments
  BY Running DEF Apply, Steps
<1>2. /\ payment' \in [Payments -> Payment \cup {None}] /\ bank' \in [Lines -> Line \cup {None}]
      /\ entry' \in [Entries -> Entry \cup {None}]
      /\ used' \subseteq Payments \cup Lines \cup Entries
      /\ UNCHANGED <<void, entry, used, raced, undone>>
  BY DEF Apply, IInv, TypeOK
<1>3. CASE c.p \in Here
  <2> DEFINE r == [c EXCEPT !.at = "saveApplied", !.ids = Here, !.read = payment[c.p]]
  <2>1. payment[c.p] \in Payment /\ Here \in SUBSET Payments
    BY <1>1, <1>3 DEF Here, IInv, TypeOK
  <2>2. /\ r \in Call /\ r.at = "saveApplied" /\ r.read \in Payment /\ r.ids = Here /\ r.p = c.p
        /\ r.entry = c.entry /\ r.decision = c.decision /\ r.previous = c.previous
    BY <1>1, <2>1 DEF Call, Steps
  <2>3. To(a, r)
    BY <1>3 DEF Apply
  <2> HIDE DEF r
  <2>4. Shaped(r) /\ Keeps(c, r) /\ c.at \in Deciding
    BY <1>1, <1>3, <2>2 DEF Shaped, Keeps, Opening, Deciding
  <2> QED
    BY <1>1, <1>2, <2>2, <2>3, <2>4, EntryStays, Going
<1>4. CASE c.p \notin Here
  <2>1. To(a, Idle)
    BY <1>4 DEF Apply, Done
  <2> QED
    BY <1>1, <1>2, <2>1, Resting, EntryStays, Going
<1> QED
  BY <1>3, <1>4

\* It threw, and goes on to give the entry back.
LEMMA Throwing ==
  ASSUME IInv, NEW a \in Actors, call[a].at \in Deciding, Go(a, "giveBack"),
         UNCHANGED <<void, payment, bank, entry, used, raced, undone>>
  PROVE  IInv'
<1> DEFINE c == call[a]
           r == [c EXCEPT !.at = "giveBack"]
<1>1. c \in Call /\ c # Idle /\ Shaped(c)
  BY Running DEF Steps, Deciding
<1>2. To(a, r) /\ r \in Call /\ r.at = "giveBack" /\ r.entry = c.entry /\ r.decision = c.decision
  <2>1. "giveBack" \in Steps
    BY DEF Steps
  <2> QED
    BY <1>1, <2>1, Went
<1> HIDE DEF r
<1>3. Shaped(r) /\ Keeps(c, r)
  BY <1>1, <1>2 DEF Shaped, Keeps, Opening, Deciding
<1>4. /\ payment' \in [Payments -> Payment \cup {None}] /\ bank' \in [Lines -> Line \cup {None}]
      /\ entry' \in [Entries -> Entry \cup {None}]
      /\ used' \subseteq Payments \cup Lines \cup Entries
  BY DEF IInv, TypeOK
<1> QED
  BY <1>1, <1>2, <1>3, <1>4, EntryStays, Going

LEMMA StepSaveApplied == ASSUME IInv, NEW a \in Actors, SaveApplied(a) PROVE IInv'
<1> DEFINE c == call[a]
           old == payment[c.p]
           late == [state |-> c.decision, entry |-> c.entry]
           date == IF c.decision = "rejected" /\ c.previous # c.read.date THEN c.previous
                   ELSE old.date
           new == [old EXCEPT !.late = late, !.date = date]
           r == About(c.p, "sync")
<1>1. /\ c \in Call /\ c # Idle /\ Shaped(c) /\ c.at = "saveApplied" /\ c.p \in Payments
      /\ c.entry \in Entries /\ c.decision \in {"approved", "rejected"}
  BY Running DEF SaveApplied, Steps, Shaped, Deciding
<1>2. CASE Here # c.ids
  <2>1. Go(a, "giveBack") /\ UNCHANGED <<void, payment, bank, entry, used, raced, undone>>
    BY <1>2 DEF SaveApplied
  <2> QED
    BY <1>1, <2>1, Throwing DEF Deciding
<1>3. CASE Here = c.ids
  <2>1. To(a, r) /\ payment' = [payment EXCEPT ![c.p] = new]
    BY <1>3 DEF SaveApplied, GoSync
  <2>2. old \in Payment
    BY <1>1, <1>3 DEF Shaped, Here, IInv, TypeOK
  <2>3. late \in Asked
    BY <1>1 DEF Asked
  <2>4. date \in Dates
    BY <1>1, <2>2 DEF Shaped, Payment
  <2> HIDE DEF old, late, date
  <2>5. new \in Payment
    BY <2>2, <2>3, <2>4 DEF Payment
  <2> HIDE DEF new
  <2>6. /\ payment' \in [Payments -> Payment \cup {None}] /\ bank' \in [Lines -> Line \cup {None}]
        /\ entry' \in [Entries -> Entry \cup {None}]
        /\ used' \subseteq Payments \cup Lines \cup Entries
        /\ UNCHANGED <<void, entry, used, raced, undone>>
    BY <2>1, <2>5 DEF SaveApplied, IInv, TypeOK
  <2>7. r \in Call /\ r.at = "sync"
    BY <1>1, AboutIs DEF Steps
  <2> HIDE DEF r
  <2> QED
    BY <1>1, <2>1, <2>6, <2>7, Resting, EntryStays, Going
<1> QED
  BY <1>2, <1>3

LEMMA StepRefuse == ASSUME IInv, NEW a \in Actors, Refuse(a) PROVE IInv'
<1> DEFINE c == call[a]
           late == [state |-> "rejected", entry |-> c.entry]
           r == [c EXCEPT !.at = "refused"]
<1>1. c \in Call /\ c # Idle /\ Shaped(c) /\ c.at = "refuse" /\ c.entry \in Entries
  BY Running DEF Refuse, Steps, Shaped, Deciding
<1>2. late \in Asked
  BY <1>1 DEF Asked
<1>3. \A p \in Payments :
        IF p = c.p /\ p \in Here THEN payment'[p] = [payment[p] EXCEPT !.late = late]
                          ELSE payment'[p] = payment[p]
  BY DEF Refuse
<1> HIDE DEF late
<1>4. payment' \in [Payments -> Payment \cup {None}]
  <2>1. \A p \in Payments : payment[p] # None => [payment[p] EXCEPT !.late = late] \in Payment
    BY <1>2 DEF IInv, TypeOK, Payment
  <2>2. \A p \in Payments : payment'[p] \in Payment \cup {None}
    BY <1>3, <2>1 DEF Here, IInv, TypeOK
  <2> QED
    BY <2>2 DEF Refuse
<1>5. /\ Go(a, "refused") /\ UNCHANGED <<void, entry, used, raced, undone>>
      /\ bank' \in [Lines -> Line \cup {None}] /\ entry' \in [Entries -> Entry \cup {None}]
      /\ used' \subseteq Payments \cup Lines \cup Entries
  BY DEF Refuse, IInv, TypeOK
<1>6. To(a, r) /\ r \in Call /\ r.at = "refused" /\ r.entry = c.entry /\ r.decision = c.decision
  <2>1. "refused" \in Steps
    BY DEF Steps
  <2> QED
    BY <1>1, <1>5, <2>1, Went
<1> HIDE DEF r
<1>7. Shaped(r) /\ Keeps(c, r) /\ c.at \in Deciding
  BY <1>1, <1>6 DEF Shaped, Keeps, Opening, Deciding
<1> QED
  BY <1>1, <1>4, <1>5, <1>6, <1>7, EntryStays, Going

LEMMA StepDeleteRefused == ASSUME IInv, NEW a \in Actors, DeleteRefused(a) PROVE IInv'
<1> DEFINE c == call[a]
           r == [c EXCEPT !.at = "delete", !.read = payment[c.p]]
<1>1. c \in Call /\ c # Idle /\ c.at = "refused" /\ c.p \in Payments
  BY Running DEF DeleteRefused, Steps
<1>2. UNCHANGED <<void, payment, bank, entry, used, raced, undone>> /\ (To(a, r) \/ Go(a, "giveBack"))
  BY Zenon DEF DeleteRefused
<1>3. CASE Go(a, "giveBack")
  BY <1>1, <1>2, <1>3, Throwing DEF Deciding
<1>4. CASE To(a, r)
  <2>1. payment[c.p] \in Payment \cup {None}
    BY <1>1 DEF IInv, TypeOK
  <2> DEFINE q == payment[c.p]
  <2> HIDE DEF q, c
  <2>2. [c EXCEPT !.at = "delete", !.read = q] \in Call
    BY <1>1, <2>1 DEF Call, Steps, q
  <2>3. r \in Call /\ r.at = "delete"
    BY <1>1, <2>2 DEF Call, q
  <2> USE DEF c
  <2> HIDE DEF r
  <2>4. /\ payment' \in [Payments -> Payment \cup {None}] /\ bank' \in [Lines -> Line \cup {None}]
        /\ entry' \in [Entries -> Entry \cup {None}]
        /\ used' \subseteq Payments \cup Lines \cup Entries
    BY <1>2 DEF IInv, TypeOK
  <2> QED
    BY <1>1, <1>2, <1>4, <2>3, <2>4, Resting, EntryStays, Going
<1> QED
  BY <1>2, <1>3, <1>4

LEMMA StepGiveBack == ASSUME IInv, NEW a \in Actors, GiveBack(a) PROVE IInv'
<1> DEFINE c == call[a]
<1>1. c \in Call /\ c # Idle /\ c.at = "giveBack" /\ c.entry \in Entries
  BY Running DEF GiveBack, Steps, Shaped, Deciding
<1>2. entry[c.entry] # None
  BY <1>1 DEF IInv, EntriesAreThere, Deciding
<1>3. To(a, Idle) /\ entry' = [entry EXCEPT ![c.entry].state = "pending"]
  BY DEF GiveBack, Done
<1>4. entry' \in [Entries -> Entry \cup {None}] /\ Decides(c, Idle)
  BY <1>1, <1>2, <1>3, Marking, Resting DEF Decides, Deciding
<1>5. /\ payment' \in [Payments -> Payment \cup {None}] /\ bank' \in [Lines -> Line \cup {None}]
      /\ used' \subseteq Payments \cup Lines \cup Entries
      /\ UNCHANGED <<void, used, raced>> /\ undone' \subseteq Entries
  BY <1>1 DEF GiveBack, IInv, TypeOK
<1> QED
  BY <1>1, <1>3, <1>4, <1>5, Resting, Going

----------------------------------------------------------------------------
(* All together. *)

\* A step that no call takes.
LEMMA Around ==
  ASSUME IInv, void' \in BOOLEAN, raced' \in BOOLEAN, bank' \in [Lines -> Line \cup {None}],
         UNCHANGED <<payment, entry, used, call, undone>>
  PROVE  IInv'
<1>1. TypeOK'
  BY DEF IInv, TypeOK
<1> QED
  BY <1>1 DEF IInv, CallShape, Shaped, EntriesAreNew, Asking, EntriesAreThere, OneHolder

LEMMA StepVoid == ASSUME IInv, Void PROVE IInv'
<1>1. void' \in BOOLEAN /\ raced' \in BOOLEAN /\ bank' \in [Lines -> Line \cup {None}]
  BY DEF Void, IInv, TypeOK, Together
<1> QED
  BY <1>1, Around DEF Void

LEMMA StepRestore == ASSUME IInv, Restore PROVE IInv'
<1>1. void' \in BOOLEAN /\ raced' \in BOOLEAN /\ bank' \in [Lines -> Line \cup {None}]
  BY DEF Restore, IInv, TypeOK, Together
<1> QED
  BY <1>1, Around DEF Restore

LEMMA StepReconcile == ASSUME IInv, NEW l \in Lines, Reconcile(l) PROVE IInv'
<1> DEFINE new == [bank[l] EXCEPT !.reconciled = ~@]
<1>1. bank[l] \in Line /\ bank' = [bank EXCEPT ![l] = new]
  BY DEF Reconcile, IInv, TypeOK
<1>2. new \in Line
  BY <1>1 DEF Line
<1> HIDE DEF new
<1>3. bank' \in [Lines -> Line \cup {None}]
  BY <1>1, <1>2 DEF IInv, TypeOK
<1>4. void' \in BOOLEAN /\ raced' \in BOOLEAN
  BY DEF Reconcile, IInv, TypeOK, Together
<1> QED
  BY <1>3, <1>4, Around DEF Reconcile

LEMMA StepSweep == ASSUME IInv, NEW e \in Entries, Sweep(e) PROVE IInv'
<1>1. entry[e] # None /\ entry[e].state = "pending"
  BY DEF Sweep
<1>2. /\ entry' \in [Entries -> Entry \cup {None}]
      /\ \A f \in Entries : entry'[f] = None <=> entry[f] = None
      /\ \A f \in Entries : f # e => entry'[f] = entry[f]
  BY <1>1, Marking DEF Sweep
<1>3. TypeOK'
  BY <1>2 DEF Sweep, IInv, TypeOK, Together
<1>4. CallShape' /\ OneHolder'
  BY DEF Sweep, IInv, CallShape, Shaped, OneHolder
<1>5. \A a \in Actors : Asking(a) => call[a].entry \in Entries
  BY DEF IInv, TypeOK, Asking, Call, Idle
<1>6. EntriesAreNew'
  BY <1>2, <1>5 DEF Sweep, IInv, EntriesAreNew, Asking
<1>7. \A a \in Actors : call[a].at \in Deciding \cup {"asked", "claim"} => call[a].entry \in Entries
  BY DEF IInv, CallShape, Shaped, Idle, Deciding
<1>8. EntriesAreThere'
  BY <1>1, <1>2, <1>7 DEF Sweep, IInv, EntriesAreThere, Deciding
<1> QED
  BY <1>3, <1>4, <1>6, <1>8 DEF IInv

LEMMA NextIInv == IInv /\ [Next]_vars => IInv'
<1> SUFFICES ASSUME IInv, [Next]_vars PROVE IInv'
  OBVIOUS
<1>1. ASSUME NEW a \in Actors, Start(a) PROVE IInv'
  BY <1>1, StepRecord, StepRecordLate, StepEdit, StepEditLate, StepDelete, StepDecide DEF Start
<1>2. ASSUME NEW a \in Actors, Continue(a) PROVE IInv'
  BY <1>2, StepSaveRecord, StepSaveEdit, StepSaveDelete, StepRemoveLine, StepReask, StepAsk,
     StepUnask, StepSync, StepKeepOrRemove, StepMake, StepLink, StepStillAsked, StepClaim,
     StepApply, StepSaveApplied, StepRefuse, StepDeleteRefused, StepGiveBack
     DEF Continue
<1>3. CASE UNCHANGED vars
  <2>1. void' \in BOOLEAN /\ raced' \in BOOLEAN /\ bank' \in [Lines -> Line \cup {None}]
    BY <1>3 DEF vars, IInv, TypeOK
  <2> QED
    BY <1>3, <2>1, Around DEF vars
<1> QED
  BY <1>1, <1>2, <1>3, StepVoid, StepRestore, StepReconcile, StepSweep DEF Next

LEMMA Invariance == Spec => []IInv
  BY InitIInv, NextIInv, PTL DEF Spec

\* Every variable keeps its type, whatever calls overlap.
THEOREM TypeCorrect == Spec => []TypeOK
<1>1. IInv => TypeOK
  BY DEF IInv
<1> QED
  BY <1>1, Invariance, PTL

\* decideLateEntry's claim holds back every manager but one: of any number who
\* decide the same late entry, and of all who edit, delete, move or reconcile
\* around them, no two apply it together.
THEOREM DecidedByOne == Spec => []OneDecider
<1>1. IInv => OneDecider
  BY DEF IInv, OneHolder, OneDecider, Deciding
<1> QED
  BY <1>1, Invariance, PTL

----------------------------------------------------------------------------
(* One call at a time. *)

Waits(e) == entry[e] # None /\ entry[e].state = "pending"

\* A line that may be removed.
Loose(l) == l # None /\ bank[l] # None => ~bank[l].reconciled
Gone(l) == l # None => bank[l] = None

\* The line and the late entry of a payment, when nobody works on it.
LineRests(p) ==
    IF IsAsked(payment[p].late) THEN payment[p].line = None
    ELSE IF payment[p].line = None THEN TurnedDown(p)
    ELSE bank[payment[p].line] # None /\ Same(bank[payment[p].line], payment[p])

\* Its date is the one it had, or it had none and could not be deleted.
Returned(p, e) ==
    payment[p].date = entry[e].previous \/ (entry[e].previous = None /\ e \in undone)

LateRests(p) ==
    payment[p].late # None =>
        LET e == payment[p].late.entry IN
          /\ payment[p].late.state = "pending" => Waits(e) /\ entry[e].of = p
          /\ payment[p].late.state = "rejected" =>
               entry[e] # None /\ Returned(p, e)

Rests(p) == LineRests(p) /\ LateRests(p)

\* Its line puts in the account what it says.
Lands(p) ==
    LET l == payment[p].line IN
      /\ l # None /\ bank[l] # None /\ ~IsAsked(payment[p].late)
      /\ payment[p].date = bank[l].date /\ payment[p].value.lands = bank[l].value.lands

\* Its line is to be brought in line with it.
Syncs(p) == p \in Here /\ LateRests(p) /\ (Loose(payment[p].line) \/ Lands(p))

Marked(p, state, e) == p \in Here /\ payment[p].late = [state |-> state, entry |-> e]

\* Of one being decided.
Decided(c) ==
    entry[c.entry] # None /\ entry[c.entry].of = c.p /\ c.previous = entry[c.entry].previous

\* What an edit found, and what it asks.
EditReads(c) ==
    LET old == payment[c.p] IN
      /\ c.p \in Here /\ Rests(c.p) /\ c.ids = Here /\ c.read = old
      /\ c.value.lands # old.value.lands \/ c.date # old.date => Loose(old.line)
      /\ IF c.entry # None
         THEN /\ c.late = [state |-> "pending", entry |-> c.entry] /\ ~c.cleared
              /\ c.date # old.date /\ ~(old.late # None /\ old.late.state = "rejected")
         ELSE /\ c.late = None
              /\ c.cleared <=> c.date # old.date /\ old.late # None /\ old.late.state # "approved"

Apart(p) == \A q \in Here : q # p /\ payment[q].line # None => payment[q].line # payment[p].line

\* What the one call has done so far, by what it does next.
Work(c) ==
    /\ c.at = "record" => c.p \notin Here /\ \A e \in Entries : entry[e] # None => entry[e].of # c.p
    /\ c.at = "edit" => EditReads(c)
    /\ c.at = "delete" => c.p \in Here /\ c.read = payment[c.p] /\ Loose(c.read.line)
    /\ c.at = "removeLine" => /\ c.p \notin Here /\ Loose(c.read.line)
                              /\ \A q \in Here : payment[q].line # None =>
                                   payment[q].line # c.read.line
    /\ c.at = "forget" => c.p \notin Here
    /\ c.at \in {"reask", "ask"} => Marked(c.p, "pending", c.entry) /\ Loose(payment[c.p].line)
    /\ c.at = "ask" => \A e \in Entries : Waits(e) => entry[e].of # c.p
    /\ c.at = "unask" => c.p \in Here /\ payment[c.p].late = None /\ Loose(payment[c.p].line)
    /\ c.at \in {"sync", "line"} => Syncs(c.p)
    /\ c.at \in {"line", "make"} => c.read = payment[c.p]
    /\ c.at \in {"make", "link"} => c.p \in Here /\ LateRests(c.p) /\ Gone(payment[c.p].line)
    /\ c.at = "make" => ~IsAsked(payment[c.p].late)
    /\ c.at = "link" =>
         IF IsAsked(payment[c.p].late) THEN c.line = None
         ELSE /\ c.line # None /\ bank[c.line] # None /\ Same(bank[c.line], payment[c.p])
              /\ \A q \in Here : payment[q].line # c.line
    /\ c.at \in {"asked", "claim"} => Decided(c) /\ Waits(c.entry) /\ (c.p \in Here => Rests(c.p))
    /\ c.at \in {"claim", "apply", "saveApplied", "refuse"} => Marked(c.p, "pending", c.entry)
    /\ c.at \in {"apply", "saveApplied", "refuse"} => Decided(c) /\ payment[c.p].line = None
    /\ c.at \in {"apply", "saveApplied"} /\ c.decision = "rejected" => c.previous # None
    /\ c.at = "saveApplied" => c.ids = Here /\ c.read = payment[c.p]
    /\ c.at \in {"refused", "giveBack"} =>
         Marked(c.p, "rejected", c.entry) /\ Decided(c) /\ payment[c.p].line = None
    /\ c.at \in {"refuse", "refused", "giveBack"} => c.previous = None

Ids ==
    /\ \A l \in Lines : bank[l] # None => l \in used
    /\ \A p \in Here : p \in used /\ (payment[p].line # None => payment[p].line \in used)
    /\ \A e \in Entries : entry[e] # None => entry[e].of \in used
    /\ \A a \in Actors : call[a] # Idle =>
         call[a].p \in used /\ (call[a].at = "link" /\ call[a].line # None => call[a].line \in used)

Alone == \A a, b \in Actors : call[a] # Idle /\ call[b] # Idle => a = b
Untouched(p) == \A a \in Actors : call[a] # Idle => call[a].p # p

Lone ==
    /\ Alone
    /\ \A a \in Actors : call[a] # Idle => Work(call[a])
    /\ \A p \in Here : Apart(p) /\ (Untouched(p) => Rests(p))
    /\ \A l \in Lines : bank[l] # None =>
         \/ \E p \in Here : payment[p].line = l
         \/ \E a \in Actors : \/ call[a].at = "removeLine" /\ call[a].read.line = l
                              \/ call[a].at = "link" /\ call[a].line = l
    /\ \A e \in Entries : Waits(e) =>
         \/ e \in undone \/ WaitsOn(entry[e].of, e)
         \/ \E a \in Actors : call[a].at \in {"removeLine", "forget", "reask", "unask"}
                              /\ call[a].p = entry[e].of

OneInv == ~raced => Lone

----------------------------------------------------------------------------
(* What each step of a call does. *)

Others(a) == \A b \in Actors : b # a => call'[b] = call[b]
OtherPayments(p) == \A q \in Payments : q # p => payment'[q] = payment[q]

Busy(a, p) == call[a] # Idle /\ call[a] \in Call /\ p = call[a].p /\ p \in Payments
Ends(a) == call'[a] = Idle /\ Others(a)
Turns(a, at) == call'[a] # Idle /\ call'[a].at = at /\ call'[a].p = call[a].p /\ Others(a)
Carries(a, at) ==
    /\ Turns(a, at) /\ call'[a].entry = call[a].entry /\ call'[a].decision = call[a].decision
    /\ call'[a].previous = call[a].previous /\ call'[a].ids = call[a].ids
    /\ call'[a].read = call[a].read /\ call'[a].line = call[a].line

PaymentIs(p, value, date, late, line) ==
    /\ payment'[p] # None /\ payment'[p].value = value /\ payment'[p].date = date
    /\ payment'[p].late = late /\ payment'[p].line = line /\ OtherPayments(p)

\* One late entry takes another state; or all that wait on a payment do.
Marks(e, state) ==
    /\ entry'[e] # None /\ entry'[e].state = state /\ entry'[e].of = entry[e].of
    /\ entry'[e].previous = entry[e].previous
    /\ \A f \in Entries : f # e => entry'[f] = entry[f]

Withdraws(p) ==
    \A e \in Entries :
        /\ entry'[e] = None <=> entry[e] = None
        /\ entry[e] # None =>
             /\ entry'[e].of = entry[e].of /\ entry'[e].previous = entry[e].previous
             /\ entry[e].of # p => entry'[e] = entry[e]
             /\ entry[e].of = p => entry'[e].state # "pending"

LEMMA BusyAt ==
  ASSUME IInv, NEW a \in Actors, call[a].at \in Steps PROVE Busy(a, call[a].p) /\ Shaped(call[a])
BY Running DEF Busy

LEMMA CallSet ==
  ASSUME IInv, NEW a \in Actors, NEW r, To(a, r) PROVE call'[a] = r /\ Others(a)
BY DEF To, IInv, TypeOK, Others

LEMMA Ending == ASSUME IInv, NEW a \in Actors, Done(a) PROVE Ends(a)
BY CallSet DEF Done, Ends

LEMMA Turning ==
  ASSUME IInv, NEW a \in Actors, NEW p, Busy(a, p), NEW at \in Steps, To(a, About(p, at))
  PROVE  Turns(a, at) /\ call'[a].line = None
<1>1. call'[a] = About(p, at) /\ Others(a)
  BY CallSet
<1> QED
  BY <1>1 DEF Turns, Busy, About, Idle

LEMMA Syncing ==
  ASSUME IInv, NEW a \in Actors, NEW p, Busy(a, p), GoSync(a)
  PROVE  Turns(a, "sync")
BY Turning DEF GoSync, Steps, Busy

LEMMA Carrying ==
  ASSUME IInv, NEW a \in Actors, NEW p, Busy(a, p), NEW at \in Steps, Go(a, at)
  PROVE  Carries(a, at)
<1>1. call'[a] = [call[a] EXCEPT !.at = at] /\ Others(a)
  BY DEF Go, IInv, TypeOK, Others
<1> QED
  BY <1>1 DEF Carries, Turns, Busy, Idle, Call, Steps

LEMMA PaymentSet ==
  ASSUME IInv, NEW p \in Payments, NEW new, payment' = [payment EXCEPT ![p] = new]
  PROVE  payment'[p] = new /\ OtherPayments(p)
BY DEF IInv, TypeOK, OtherPayments

LEMMA PaymentFields ==
  ASSUME IInv, NEW p \in Here PROVE p \in Payments /\ payment[p] \in Payment /\ payment[p] # None
BY DEF IInv, TypeOK, Here

LEMMA EntryFields ==
  ASSUME IInv, NEW e \in Entries, entry[e] # None PROVE entry[e] \in Entry
BY DEF IInv, TypeOK

LEMMA MarkingIs ==
  ASSUME IInv, NEW e \in Entries, entry[e] # None, NEW state,
         entry' = [entry EXCEPT ![e].state = state], entry'[e] # None
  PROVE  Marks(e, state)
<1>1. entry[e] \in Entry
  BY EntryFields
<1>2. entry'[e] = [entry[e] EXCEPT !.state = state]
  BY DEF IInv, TypeOK
<1>3. \A f \in Entries : f # e => entry'[f] = entry[f]
  BY DEF IInv, TypeOK
<1> QED
  BY <1>1, <1>2, <1>3 DEF Marks, Entry

LEMMA WithdrawingIs ==
  ASSUME IInv, NEW p, entry' = Withdrawn(p) PROVE Withdraws(p)
<1> SUFFICES ASSUME NEW e \in Entries
             PROVE  /\ entry'[e] = None <=> entry[e] = None
                    /\ entry[e] # None =>
                         /\ entry'[e].of = entry[e].of /\ entry'[e].previous = entry[e].previous
                         /\ entry[e].of # p => entry'[e] = entry[e]
                         /\ entry[e].of = p => entry'[e].state # "pending"
  BY DEF Withdraws
<1>1. entry'[e] = IF entry[e] # None /\ entry[e].of = p /\ entry[e].state = "pending"
                  THEN [entry[e] EXCEPT !.state = "withdrawn"] ELSE entry[e]
  BY DEF Withdrawn
<1>2. CASE entry[e] # None /\ entry[e].of = p /\ entry[e].state = "pending"
  <2>1. entry[e] \in Entry
    BY <1>2, EntryFields
  <2> DEFINE new == [entry[e] EXCEPT !.state = "withdrawn"]
  <2>2. new \in Entry /\ new.of = entry[e].of /\ new.previous = entry[e].previous
        /\ new.state = "withdrawn"
    BY <2>1 DEF Entry
  <2>3. entry'[e] = new
    BY <1>1, <1>2
  <2> QED
    BY <1>2, <2>2, <2>3, NoneAssumption
<1>3. CASE ~(entry[e] # None /\ entry[e].of = p /\ entry[e].state = "pending")
  BY <1>1, <1>3
<1> QED
  BY <1>2, <1>3

SaveRecordIs(a, p) ==
    /\ Busy(a, p) /\ call[a].at = "record"
    /\ payment'[p] # None /\ payment'[p].line = None /\ OtherPayments(p)
    /\ \/ call[a].entry = None /\ payment'[p].late = None /\ Turns(a, "sync")
       \/ /\ call[a].entry # None
          /\ payment'[p].late = [state |-> "pending", entry |-> call[a].entry]
          /\ Turns(a, "reask") /\ call'[a].entry = call[a].entry
    /\ UNCHANGED <<void, bank, entry, used, raced, undone>>

LEMMA SaveRecordDoes ==
  ASSUME IInv, NEW a \in Actors, NEW p, p = call[a].p, SaveRecord(a) PROVE SaveRecordIs(a, p)
<1>1. call[a].at \in Steps /\ call[a].at = "record"
  BY DEF SaveRecord, Steps
<1>2. Busy(a, p) /\ Shaped(call[a])
  BY <1>1, BusyAt
<1> DEFINE c == call[a]
           asked == [state |-> "pending", entry |-> c.entry]
           late == IF c.entry = None THEN None ELSE asked
           new == [value |-> c.value, date |-> c.date, line |-> None, late |-> late]
<1>3. payment' = [payment EXCEPT ![p] = new] /\ p \in Payments
  BY <1>2 DEF SaveRecord, Busy
<1>4. c.value \in Values /\ c.date \in Dates /\ c.entry \in Entries \cup {None}
  BY <1>1, <1>2 DEF Busy, Shaped, Call
<1>5. late \in Asked \cup {None}
  BY <1>4 DEF Asked
<1> HIDE DEF late
<1>6. new \in Payment
  BY <1>4, <1>5 DEF Payment
<1>7. new.line = None /\ new.late = late
  OBVIOUS
<1> HIDE DEF new
<1>10. payment'[p] = new /\ OtherPayments(p)
  BY <1>3, PaymentSet
<1>11. payment'[p] # None /\ payment'[p].line = None /\ payment'[p].late = late
  BY <1>6, <1>7, <1>10, NoneAssumption
<1>8. CASE c.entry = None
  <2>1. Turns(a, "sync")
    BY <1>2, <1>8, Syncing DEF SaveRecord
  <2> QED
    BY <1>1, <1>2, <1>8, <1>10, <1>11, <2>1 DEF SaveRecordIs, SaveRecord, late
<1>9. CASE c.entry # None
  <2>1. call'[a] = [About(p, "reask") EXCEPT !.entry = c.entry] /\ Others(a)
    BY <1>2, <1>9, CallSet DEF SaveRecord, Busy
  <2>2. Turns(a, "reask") /\ call'[a].entry = c.entry
    BY <1>2, <2>1 DEF Turns, Busy, About, Idle
  <2> QED
    BY <1>1, <1>2, <1>9, <1>10, <1>11, <2>2 DEF SaveRecordIs, SaveRecord, late
<1> QED
  BY <1>8, <1>9

SaveEditIs(a, p) ==
    LET c == call[a] old == payment[p] IN
    /\ Busy(a, p) /\ c.at = "edit"
    /\ \/ Here # c.ids /\ Ends(a) /\ payment' = payment
       \/ /\ Here = c.ids
          /\ PaymentIs(p, IF c.value # c.read.value THEN c.value ELSE old.value,
                          IF c.date # c.read.date THEN c.date ELSE old.date,
                          IF c.cleared THEN None ELSE IF c.late = None THEN old.late ELSE c.late,
                          old.line)
          /\ \/ c.entry # None /\ Turns(a, "reask") /\ call'[a].entry = c.entry
             \/ c.entry = None /\ c.cleared /\ Turns(a, "unask")
             \/ c.entry = None /\ ~(c.cleared /\ IsAsked(c.read.late)) /\ Turns(a, "sync")
    /\ UNCHANGED <<void, bank, entry, used, raced, undone>>

LEMMA SaveEditDoes ==
  ASSUME IInv, NEW a \in Actors, NEW p, p = call[a].p, SaveEdit(a) PROVE SaveEditIs(a, p)
<1>1. call[a].at \in Steps /\ call[a].at = "edit"
  BY DEF SaveEdit, Steps
<1>2. Busy(a, p) /\ Shaped(call[a])
  BY <1>1, BusyAt
<1> DEFINE c == call[a]
           old == payment[p]
           value == IF c.value # c.read.value THEN c.value ELSE old.value
           date == IF c.date # c.read.date THEN c.date ELSE old.date
           late == IF c.cleared THEN None ELSE IF c.late = None THEN old.late ELSE c.late
           new == [old EXCEPT !.value = value, !.date = date, !.late = late]
<1>3. CASE Here # c.ids
  <2>1. Ends(a) /\ payment' = payment
    BY <1>3, Ending DEF SaveEdit
  <2> QED
    BY <1>1, <1>2, <1>3, <2>1 DEF SaveEditIs, SaveEdit
<1>4. CASE Here = c.ids
  <2>1. payment' = [payment EXCEPT ![p] = new]
    BY <1>4 DEF SaveEdit
  <2>2. old \in Payment /\ p \in Payments
    BY <1>1, <1>2, <1>4, PaymentFields DEF Shaped, Busy
  <2>4. value \in Values /\ date \in Dates /\ late \in Asked \cup {None}
    BY <1>1, <1>2, <2>2 DEF Busy, Shaped, Call, Payment
  <2> HIDE DEF value, date, late
  <2>5. /\ new \in Payment /\ new.value = value /\ new.date = date /\ new.late = late
        /\ new.line = old.line
    BY <2>2, <2>4 DEF Payment
  <2> HIDE DEF new
  <2>3. payment'[p] = new /\ OtherPayments(p)
    BY <2>1, <2>2, PaymentSet
  <2>6. PaymentIs(p, value, date, late, old.line)
    BY <2>3, <2>5, NoneAssumption DEF PaymentIs
  <2>7. CASE c.entry # None
    <3>1. call'[a] = [About(p, "reask") EXCEPT !.entry = c.entry, !.previous = c.previous]
          /\ Others(a)
      BY <1>4, <2>7, CallSet DEF SaveEdit
    <3>2. Turns(a, "reask") /\ call'[a].entry = c.entry
      BY <1>2, <3>1 DEF Turns, Busy, About, Idle
    <3> QED
      BY <1>1, <1>2, <1>4, <2>6, <2>7, <3>2 DEF SaveEditIs, SaveEdit, value, date, late
  <2>8. CASE c.entry = None /\ c.cleared /\ IsAsked(c.read.late)
    <3>1. Turns(a, "unask")
      BY <1>2, <1>4, <2>8, Turning DEF SaveEdit, Steps
    <3> QED
      BY <1>1, <1>2, <1>4, <2>6, <2>8, <3>1 DEF SaveEditIs, SaveEdit, value, date, late
  <2>9. CASE c.entry = None /\ ~(c.cleared /\ IsAsked(c.read.late))
    <3>1. Turns(a, "sync")
      BY <1>2, <1>4, <2>9, Syncing DEF SaveEdit
    <3> QED
      BY <1>1, <1>2, <1>4, <2>6, <2>9, <3>1 DEF SaveEditIs, SaveEdit, value, date, late
  <2> QED
    BY <2>7, <2>8, <2>9
<1> QED
  BY <1>3, <1>4

SaveDeleteIs(a, p) ==
    /\ Busy(a, p) /\ call[a].at = "delete"
    /\ payment'[p] = None /\ OtherPayments(p) /\ Carries(a, "removeLine")
    /\ UNCHANGED <<void, bank, entry, used, raced, undone>>

LEMMA SaveDeleteDoes ==
  ASSUME IInv, NEW a \in Actors, NEW p, p = call[a].p, SaveDelete(a) PROVE SaveDeleteIs(a, p)
<1>1. call[a].at \in Steps /\ call[a].at = "delete"
  BY DEF SaveDelete, Steps
<1>2. Busy(a, p)
  BY <1>1, BusyAt
<1>3. payment'[p] = None /\ OtherPayments(p)
  BY <1>2, PaymentSet DEF SaveDelete, Busy
<1>4. Carries(a, "removeLine")
  BY <1>2, Carrying DEF SaveDelete, Steps
<1> QED
  BY <1>1, <1>2, <1>3, <1>4 DEF SaveDeleteIs, SaveDelete

Removes(l) == \A m \in Lines : bank'[m] = IF m = l THEN None ELSE bank[m]

RemoveLineIs(a, p) ==
    /\ Busy(a, p) /\ call[a].at = "removeLine"
    /\ Removes(call[a].read.line) /\ Turns(a, "forget")
    /\ UNCHANGED <<void, payment, entry, used, raced, undone>>

LEMMA RemoveLineDoes ==
  ASSUME IInv, NEW a \in Actors, NEW p, p = call[a].p, RemoveLine(a) PROVE RemoveLineIs(a, p)
<1>1. call[a].at \in Steps /\ call[a].at = "removeLine"
  BY DEF RemoveLine, Steps
<1>2. Busy(a, p)
  BY <1>1, BusyAt
<1>3. Turns(a, "forget")
  BY <1>2, Turning DEF RemoveLine, Steps
<1> QED
  BY <1>1, <1>2, <1>3 DEF RemoveLineIs, RemoveLine, Removes

ReaskIs(a, p) ==
    /\ Busy(a, p) /\ call[a].at = "reask" /\ Withdraws(p) /\ Carries(a, "ask")
    /\ UNCHANGED <<void, payment, bank, used, raced, undone>>

LEMMA ReaskDoes ==
  ASSUME IInv, NEW a \in Actors, NEW p, p = call[a].p, Reask(a) PROVE ReaskIs(a, p)
<1>1. call[a].at \in Steps /\ call[a].at = "reask"
  BY DEF Reask, Steps
<1>2. Busy(a, p)
  BY <1>1, BusyAt
<1>3. Carries(a, "ask")
  BY <1>2, Carrying DEF Reask, Steps
<1>4. Withdraws(p)
  BY WithdrawingIs DEF Reask
<1> QED
  BY <1>1, <1>2, <1>3, <1>4 DEF ReaskIs, Reask

AskIs(a, p) ==
    LET e == call[a].entry IN
    /\ Busy(a, p) /\ call[a].at = "ask" /\ e \in Entries
    /\ entry'[e] # None /\ entry'[e].of = p /\ entry'[e].state = "pending"
    /\ \A f \in Entries : f # e => entry'[f] = entry[f]
    /\ Turns(a, "sync") /\ UNCHANGED <<void, payment, bank, used, raced, undone>>

LEMMA AskDoes ==
  ASSUME IInv, NEW a \in Actors, NEW p, p = call[a].p, Ask(a) PROVE AskIs(a, p)
<1>1. call[a].at \in Steps /\ call[a].at = "ask"
  BY DEF Ask, Steps
<1>2. Busy(a, p) /\ call[a].entry \in Entries
  BY <1>1, BusyAt DEF Shaped
<1> DEFINE e == call[a].entry
           new == [of |-> p, previous |-> call[a].previous, state |-> "pending"]
<1>3. entry'[e] = new /\ \A f \in Entries : f # e => entry'[f] = entry[f]
  BY <1>2 DEF Ask, IInv, TypeOK
<1>4. new \in Entry
  BY <1>2 DEF Entry, Busy, Call
<1>5. Turns(a, "sync")
  BY <1>2, Syncing DEF Ask
<1> QED
  BY <1>1, <1>2, <1>3, <1>4, <1>5, NoneAssumption DEF AskIs, Ask

UnaskIs(a, p) ==
    /\ Busy(a, p) /\ Withdraws(p)
    /\ \/ call[a].at = "unask" /\ Turns(a, "sync")
       \/ call[a].at = "forget" /\ Ends(a)
    /\ UNCHANGED <<void, payment, bank, used, raced, undone>>

LEMMA UnaskDoes ==
  ASSUME IInv, NEW a \in Actors, NEW p, p = call[a].p, Unask(a) PROVE UnaskIs(a, p)
<1>1. call[a].at \in Steps /\ call[a].at \in {"unask", "forget"}
  BY DEF Unask, Steps
<1>2. Busy(a, p)
  BY <1>1, BusyAt
<1>3. Withdraws(p)
  BY WithdrawingIs DEF Unask
<1>4. CASE call[a].at = "unask"
  BY <1>2, <1>3, <1>4, Syncing DEF Unask, UnaskIs
<1>5. CASE call[a].at = "forget"
  BY <1>2, <1>3, <1>5, Ending DEF Unask, UnaskIs
<1> QED
  BY <1>1, <1>4, <1>5

SyncIs(a, p) ==
    /\ Busy(a, p) /\ call[a].at = "sync"
    /\ \/ p \in Here /\ Turns(a, "line") /\ call'[a].read = payment[p]
       \/ p \notin Here /\ Ends(a)
    /\ UNCHANGED <<void, payment, bank, entry, used, raced, undone>>

LEMMA SyncDoes ==
  ASSUME IInv, NEW a \in Actors, NEW p, p = call[a].p, Sync(a) PROVE SyncIs(a, p)
<1>1. call[a].at \in Steps /\ call[a].at = "sync"
  BY DEF Sync, Steps
<1>2. Busy(a, p)
  BY <1>1, BusyAt
<1>3. CASE p \in Here
  <2>1. call'[a] = [call[a] EXCEPT !.at = "line", !.read = payment[p]] /\ Others(a)
    BY <1>3, CallSet DEF Sync
  <2>2. Turns(a, "line") /\ call'[a].read = payment[p]
    BY <1>2, <2>1 DEF Turns, Busy, Call, Idle
  <2> QED
    BY <1>1, <1>2, <1>3, <2>2 DEF SyncIs, Sync
<1>4. CASE p \notin Here
  BY <1>1, <1>2, <1>4, Ending DEF SyncIs, Sync
<1> QED
  BY <1>3, <1>4

\* The line and the payment it was read for agree.
Agrees(q) == IF IsAsked(q.late) THEN q.line = None
             ELSE q.line # None /\ bank[q.line] # None /\ Same(bank[q.line], q)

KeepOrRemoveIs(a, p) ==
    LET q == call[a].read IN
    /\ Busy(a, p) /\ call[a].at = "line"
    /\ \/ Agrees(q) /\ Ends(a) /\ UNCHANGED bank
       \/ /\ ~Agrees(q) /\ Removes(q.line)
          /\ \/ IsAsked(q.late) /\ Turns(a, "link") /\ call'[a].line = None
             \/ ~IsAsked(q.late) /\ Carries(a, "make")
    /\ UNCHANGED <<void, payment, entry, used, raced, undone>>

LEMMA WantedIs ==
  ASSUME NEW q \in Payment
  PROVE  /\ Wanted(q) = None <=> IsAsked(q.late)
         /\ ~IsAsked(q.late) => Wanted(q).value = q.value /\ Wanted(q).date = q.date
<1> DEFINE new == [value |-> q.value, date |-> q.date, reconciled |-> FALSE]
<1>1. new \in Line
  BY DEF Payment, Line
<1> QED
  BY <1>1, NoneAssumption DEF Wanted

LEMMA StandsIs ==
  ASSUME NEW q \in Payment PROVE Stands(q.line, Wanted(q)) <=> Agrees(q)
BY WantedIs, NoneAssumption DEF Stands, Agrees, Same

LEMMA KeepOrRemoveDoes ==
  ASSUME IInv, NEW a \in Actors, NEW p, p = call[a].p, KeepOrRemove(a) PROVE KeepOrRemoveIs(a, p)
<1> DEFINE q == call[a].read
<1>1. call[a].at \in Steps /\ call[a].at = "line"
  BY DEF KeepOrRemove, Steps
<1>2. Busy(a, p) /\ q \in Payment
  BY <1>1, BusyAt DEF Shaped
<1>3. Stands(q.line, Wanted(q)) <=> Agrees(q)
  BY <1>2, StandsIs
<1>4. CASE Agrees(q)
  <2>1. Ends(a) /\ UNCHANGED bank
    BY <1>3, <1>4, Ending DEF KeepOrRemove
  <2> QED
    BY <1>1, <1>2, <1>4, <2>1 DEF KeepOrRemoveIs, KeepOrRemove
<1>5. CASE ~Agrees(q)
  <2>1. Removes(q.line)
    BY <1>3, <1>5 DEF KeepOrRemove, Removes
  <2>2. IsAsked(q.late) => To(a, About(p, "link"))
    BY <1>2, <1>3, <1>5, WantedIs DEF KeepOrRemove
  <2>3. ~IsAsked(q.late) => Go(a, "make")
    BY <1>2, <1>3, <1>5, WantedIs DEF KeepOrRemove
  <2>4. IsAsked(q.late) => Turns(a, "link") /\ call'[a].line = None
    BY <1>2, <2>2, Turning DEF Steps
  <2>5. ~IsAsked(q.late) => Carries(a, "make")
    BY <1>2, <2>3, Carrying DEF Steps
  <2> QED
    BY <1>1, <1>2, <1>5, <2>1, <2>4, <2>5 DEF KeepOrRemoveIs, KeepOrRemove
<1> QED
  BY <1>4, <1>5

MakeIs(a, p) ==
    /\ Busy(a, p) /\ call[a].at = "make"
    /\ \E l \in Lines :
         /\ l \notin used /\ used' = used \cup {l}
         /\ bank'[l] # None /\ Same(bank'[l], call[a].read)
         /\ \A m \in Lines : m # l => bank'[m] = bank[m]
         /\ Turns(a, "link") /\ call'[a].line = l
    /\ UNCHANGED <<void, payment, entry, raced, undone>>

LEMMA MakeDoes ==
  ASSUME IInv, NEW a \in Actors, NEW p, p = call[a].p, Make(a) PROVE MakeIs(a, p)
<1> DEFINE q == call[a].read
<1>1. call[a].at \in Steps /\ call[a].at = "make"
  BY DEF Make, Steps
<1>2. Busy(a, p) /\ q \in Payment /\ ~IsAsked(q.late)
  BY <1>1, BusyAt DEF Shaped
<1>3. PICK l \in Lines \ used :
         /\ bank' = [bank EXCEPT ![l] = Wanted(q)]
         /\ used' = used \cup {l}
         /\ To(a, [About(p, "link") EXCEPT !.line = l])
  BY DEF Make
<1>4. bank'[l] = Wanted(q) /\ \A m \in Lines : m # l => bank'[m] = bank[m]
  BY <1>3 DEF IInv, TypeOK
<1>5. bank'[l] # None /\ Same(bank'[l], q)
  <2>1. bank'[l] # None /\ bank'[l].value = q.value /\ bank'[l].date = q.date
    BY <1>2, <1>4, WantedIs
  <2>2. q # None
    BY <1>2, NoneAssumption
  <2> QED
    BY <2>1, <2>2 DEF Same
<1>6. call'[a] = [About(p, "link") EXCEPT !.line = l] /\ Others(a)
  BY <1>3, CallSet
<1>7. Turns(a, "link") /\ call'[a].line = l
  BY <1>2, <1>6 DEF Turns, Busy, About, Idle
<1> QED
  BY <1>1, <1>2, <1>3, <1>4, <1>5, <1>7 DEF MakeIs, Make

LinkIs(a, p) ==
    /\ Busy(a, p) /\ call[a].at = "link" /\ Ends(a)
    /\ \/ /\ p \in Here
          /\ PaymentIs(p, payment[p].value, payment[p].date, payment[p].late, call[a].line)
       \/ p \notin Here /\ \A q \in Payments : payment'[q] = payment[q]
    /\ UNCHANGED <<void, bank, entry, used, raced, undone>>

LEMMA LinkDoes ==
  ASSUME IInv, NEW a \in Actors, NEW p, p = call[a].p, Link(a) PROVE LinkIs(a, p)
<1>1. call[a].at \in Steps /\ call[a].at = "link"
  BY DEF Link, Steps
<1>2. Busy(a, p) /\ Ends(a)
  BY <1>1, BusyAt, Ending DEF Link
<1>3. CASE p \in Here
  <2> DEFINE new == [payment[p] EXCEPT !.line = call[a].line]
  <2>1. payment[p] \in Payment /\ call[a].line \in Lines \cup {None} /\ p \in Payments
    BY <1>2, <1>3, PaymentFields DEF Busy, Call
  <2>2. /\ new \in Payment /\ new.value = payment[p].value /\ new.date = payment[p].date
        /\ new.late = payment[p].late /\ new.line = call[a].line
    BY <2>1 DEF Payment
  <2>3. payment'[p] = new /\ OtherPayments(p)
    BY <1>3, <2>1 DEF Link, OtherPayments
  <2> HIDE DEF new
  <2> QED
    BY <1>1, <1>2, <1>3, <2>2, <2>3, NoneAssumption DEF LinkIs, Link, PaymentIs
<1>4. CASE p \notin Here
  BY <1>1, <1>2, <1>4 DEF LinkIs, Link
<1> QED
  BY <1>3, <1>4

StillAskedIs(a, p) ==
    LET e == call[a].entry IN
    /\ Busy(a, p) /\ call[a].at = "asked" /\ e \in Entries
    /\ \/ WaitsOn(p, e) /\ Carries(a, "claim") /\ UNCHANGED entry
       \/ ~WaitsOn(p, e) /\ Ends(a) /\ Marks(e, "withdrawn")
    /\ UNCHANGED <<void, payment, bank, used, raced, undone>>

LEMMA StillAskedDoes ==
  ASSUME IInv, NEW a \in Actors, NEW p, p = call[a].p, StillAsked(a) PROVE StillAskedIs(a, p)
<1> DEFINE e == call[a].entry
<1>1. call[a].at \in Steps /\ call[a].at = "asked"
  BY DEF StillAsked, Steps
<1>2. Busy(a, p) /\ e \in Entries /\ entry[e] # None
  BY <1>1, BusyAt DEF Shaped, IInv, EntriesAreThere
<1>3. CASE WaitsOn(p, e)
  <2>1. Carries(a, "claim") /\ UNCHANGED entry
    BY <1>2, <1>3, Carrying DEF StillAsked, Steps
  <2> QED
    BY <1>1, <1>2, <1>3, <2>1 DEF StillAskedIs, StillAsked
<1>4. CASE ~WaitsOn(p, e)
  <2>1. entry' = [entry EXCEPT ![e].state = "withdrawn"] /\ Ends(a)
    BY <1>4, Ending DEF StillAsked
  <2>2. entry'[e] # None
    BY <1>2, <2>1, Marking
  <2>3. Marks(e, "withdrawn")
    BY <1>2, <2>1, <2>2, MarkingIs
  <2> QED
    BY <1>1, <1>2, <1>4, <2>1, <2>3 DEF StillAskedIs, StillAsked
<1> QED
  BY <1>3, <1>4

ClaimIs(a, p) ==
    LET e == call[a].entry IN
    /\ Busy(a, p) /\ call[a].at = "claim" /\ e \in Entries
    /\ \/ entry[e].state # "pending" /\ Ends(a) /\ UNCHANGED entry
       \/ Marks(e, call[a].decision) /\ Carries(a, Applying(call[a]))
    /\ call[a].decision \in {"approved", "rejected"}
    /\ UNCHANGED <<void, payment, bank, used, raced, undone>>

LEMMA ClaimDoes ==
  ASSUME IInv, NEW a \in Actors, NEW p, p = call[a].p, Claim(a) PROVE ClaimIs(a, p)
<1> DEFINE e == call[a].entry
           d == call[a].decision
<1>1. call[a].at \in Steps /\ call[a].at = "claim"
  BY DEF Claim, Steps
<1>2. Busy(a, p) /\ e \in Entries /\ entry[e] # None /\ d \in {"approved", "rejected"}
  BY <1>1, BusyAt DEF Shaped, IInv, EntriesAreThere
<1>3. CASE entry[e].state # "pending"
  <2>1. Ends(a) /\ UNCHANGED entry
    BY <1>3, Ending DEF Claim
  <2> QED
    BY <1>1, <1>2, <1>3, <2>1 DEF ClaimIs, Claim
<1>4. CASE entry[e].state = "pending"
  <2>1. entry' = [entry EXCEPT ![e].state = d] /\ Go(a, Applying(call[a]))
    BY <1>4 DEF Claim
  <2>2. entry'[e] # None
    BY <1>2, <2>1, Marking
  <2>3. Marks(e, d)
    BY <1>2, <2>1, <2>2, MarkingIs
  <2>4. Carries(a, Applying(call[a]))
    BY <1>2, <2>1, Carrying DEF Applying, Steps
  <2> QED
    BY <1>1, <1>2, <2>3, <2>4 DEF ClaimIs, Claim
<1> QED
  BY <1>3, <1>4

ApplyIs(a, p) ==
    /\ Busy(a, p) /\ call[a].at = "apply"
    /\ \/ /\ p \in Here /\ Turns(a, "saveApplied") /\ call'[a].entry = call[a].entry
          /\ call'[a].decision = call[a].decision /\ call'[a].previous = call[a].previous
          /\ call'[a].ids = Here /\ call'[a].read = payment[p]
       \/ p \notin Here /\ Ends(a)
    /\ UNCHANGED <<void, payment, bank, entry, used, raced, undone>>

LEMMA ApplyDoes ==
  ASSUME IInv, NEW a \in Actors, NEW p, p = call[a].p, Apply(a) PROVE ApplyIs(a, p)
<1>1. call[a].at \in Steps /\ call[a].at = "apply"
  BY DEF Apply, Steps
<1>2. Busy(a, p)
  BY <1>1, BusyAt
<1>3. CASE p \in Here
  <2>1. call'[a] = [call[a] EXCEPT !.at = "saveApplied", !.ids = Here, !.read = payment[p]]
        /\ Others(a)
    BY <1>3, CallSet DEF Apply
  <2>2. /\ Turns(a, "saveApplied") /\ call'[a].entry = call[a].entry
        /\ call'[a].decision = call[a].decision /\ call'[a].previous = call[a].previous
        /\ call'[a].ids = Here /\ call'[a].read = payment[p]
    BY <1>2, <2>1 DEF Turns, Busy, Call, Idle
  <2> QED
    BY <1>1, <1>2, <1>3, <2>2 DEF ApplyIs, Apply
<1>4. CASE p \notin Here
  BY <1>1, <1>2, <1>4, Ending DEF ApplyIs, Apply
<1> QED
  BY <1>3, <1>4

SaveAppliedIs(a, p) ==
    LET c == call[a] IN
    /\ Busy(a, p) /\ c.at = "saveApplied"
    /\ \/ Here # c.ids /\ Carries(a, "giveBack") /\ payment' = payment
       \/ /\ Here = c.ids /\ Turns(a, "sync")
          /\ PaymentIs(p, payment[p].value,
                       IF c.decision = "rejected" /\ c.previous # c.read.date
                       THEN c.previous ELSE payment[p].date,
                       [state |-> c.decision, entry |-> c.entry], payment[p].line)
    /\ c.decision \in {"approved", "rejected"}
    /\ UNCHANGED <<void, bank, entry, used, raced, undone>>

LEMMA SaveAppliedDoes ==
  ASSUME IInv, NEW a \in Actors, NEW p, p = call[a].p, SaveApplied(a) PROVE SaveAppliedIs(a, p)
<1> DEFINE c == call[a]
           old == payment[p]
           late == [state |-> c.decision, entry |-> c.entry]
           date == IF c.decision = "rejected" /\ c.previous # c.read.date THEN c.previous
                   ELSE old.date
           new == [old EXCEPT !.late = late, !.date = date]
<1>1. call[a].at \in Steps /\ call[a].at = "saveApplied"
  BY DEF SaveApplied, Steps
<1>2. Busy(a, p) /\ Shaped(c)
  BY <1>1, BusyAt
<1>3. CASE Here # c.ids
  <2>1. Carries(a, "giveBack") /\ payment' = payment
    BY <1>2, <1>3, Carrying DEF SaveApplied, Steps
  <2> QED
    BY <1>1, <1>2, <1>3, <2>1 DEF SaveAppliedIs, SaveApplied, Shaped, Deciding
<1>4. CASE Here = c.ids
  <2>1. payment' = [payment EXCEPT ![p] = new]
    BY <1>4 DEF SaveApplied
  <2>2. old \in Payment /\ p \in Payments
    BY <1>1, <1>2, <1>4, PaymentFields DEF Shaped, Busy
  <2>3. /\ c.decision \in {"approved", "rejected"} /\ c.entry \in Entries
        /\ c.decision = "rejected" => c.previous \in Dates
    BY <1>1, <1>2 DEF Shaped, Deciding
  <2>4. late \in Asked /\ date \in Dates
    BY <2>2, <2>3 DEF Asked, Payment
  <2> HIDE DEF late, date
  <2>5. /\ new \in Payment /\ new.value = old.value /\ new.date = date /\ new.late = late
        /\ new.line = old.line
    BY <2>2, <2>4 DEF Payment
  <2> HIDE DEF new
  <2>6. payment'[p] = new /\ OtherPayments(p)
    BY <2>1, <2>2, PaymentSet
  <2>7. PaymentIs(p, old.value, date, late, old.line)
    BY <2>5, <2>6, NoneAssumption DEF PaymentIs
  <2>8. Turns(a, "sync")
    BY <1>2, <1>4, Syncing DEF SaveApplied
  <2> QED
    BY <1>1, <1>2, <1>4, <2>3, <2>7, <2>8 DEF SaveAppliedIs, SaveApplied, late, date
<1> QED
  BY <1>3, <1>4

RefuseIs(a, p) ==
    /\ Busy(a, p) /\ call[a].at = "refuse" /\ Carries(a, "refused")
    /\ \/ /\ p \in Here
          /\ PaymentIs(p, payment[p].value, payment[p].date,
                       [state |-> "rejected", entry |-> call[a].entry], payment[p].line)
       \/ p \notin Here /\ \A q \in Payments : payment'[q] = payment[q]
    /\ UNCHANGED <<void, bank, entry, used, raced, undone>>

LEMMA RefuseDoes ==
  ASSUME IInv, NEW a \in Actors, NEW p, p = call[a].p, Refuse(a) PROVE RefuseIs(a, p)
<1> DEFINE late == [state |-> "rejected", entry |-> call[a].entry]
<1>1. call[a].at \in Steps /\ call[a].at = "refuse"
  BY DEF Refuse, Steps
<1>2. Busy(a, p) /\ call[a].entry \in Entries
  BY <1>1, BusyAt DEF Shaped, Deciding
<1>3. Carries(a, "refused")
  BY <1>2, Carrying DEF Refuse, Steps
<1>4. CASE p \in Here
  <2> DEFINE new == [payment[p] EXCEPT !.late = late]
  <2>1. payment[p] \in Payment /\ late \in Asked /\ p \in Payments
    BY <1>2, <1>4, PaymentFields DEF Asked, Busy
  <2>2. payment'[p] = new /\ OtherPayments(p)
    BY <1>4, <2>1 DEF Refuse, OtherPayments
  <2> HIDE DEF late
  <2>3. /\ new \in Payment /\ new.value = payment[p].value /\ new.date = payment[p].date
        /\ new.late = late /\ new.line = payment[p].line
    BY <2>1 DEF Payment
  <2> HIDE DEF new
  <2>4. PaymentIs(p, payment[p].value, payment[p].date, late, payment[p].line)
    BY <2>2, <2>3, NoneAssumption DEF PaymentIs
  <2> QED
    BY <1>1, <1>2, <1>3, <1>4, <2>4 DEF RefuseIs, Refuse, late
<1>5. CASE p \notin Here
  BY <1>1, <1>2, <1>3, <1>5 DEF RefuseIs, Refuse
<1> QED
  BY <1>4, <1>5

DeleteRefusedIs(a, p) ==
    /\ Busy(a, p) /\ call[a].at = "refused"
    /\ \/ ~void /\ p \in Here /\ Movable(p) /\ Turns(a, "delete") /\ call'[a].read = payment[p]
       \/ ~(~void /\ p \in Here /\ Movable(p)) /\ Carries(a, "giveBack")
    /\ UNCHANGED <<void, payment, bank, entry, used, raced, undone>>

LEMMA DeleteRefusedDoes ==
  ASSUME IInv, NEW a \in Actors, NEW p, p = call[a].p, DeleteRefused(a)
  PROVE  DeleteRefusedIs(a, p)
<1>1. call[a].at \in Steps /\ call[a].at = "refused"
  BY DEF DeleteRefused, Steps
<1>2. Busy(a, p)
  BY <1>1, BusyAt
<1>3. CASE ~void /\ p \in Here /\ Movable(p)
  <2>1. call'[a] = [call[a] EXCEPT !.at = "delete", !.read = payment[p]] /\ Others(a)
    BY <1>3, CallSet DEF DeleteRefused
  <2>2. Turns(a, "delete") /\ call'[a].read = payment[p]
    BY <1>2, <2>1 DEF Turns, Busy, Call, Idle
  <2> QED
    BY <1>1, <1>2, <1>3, <2>2 DEF DeleteRefusedIs, DeleteRefused
<1>4. CASE ~(~void /\ p \in Here /\ Movable(p))
  <2>1. Carries(a, "giveBack")
    BY <1>2, <1>4, Carrying DEF DeleteRefused, Steps
  <2> QED
    BY <1>1, <1>2, <1>4, <2>1 DEF DeleteRefusedIs, DeleteRefused
<1> QED
  BY <1>3, <1>4

GiveBackIs(a, p) ==
    LET e == call[a].entry IN
    /\ Busy(a, p) /\ call[a].at = "giveBack" /\ e \in Entries /\ Ends(a) /\ Marks(e, "pending")
    /\ undone' = undone \cup {e} /\ UNCHANGED <<void, payment, bank, used, raced>>

LEMMA GiveBackDoes ==
  ASSUME IInv, NEW a \in Actors, NEW p, p = call[a].p, GiveBack(a) PROVE GiveBackIs(a, p)
<1> DEFINE e == call[a].entry
<1>1. call[a].at \in Steps /\ call[a].at = "giveBack"
  BY DEF GiveBack, Steps
<1>2. Busy(a, p) /\ e \in Entries /\ entry[e] # None
  BY <1>1, BusyAt DEF Shaped, Deciding, IInv, EntriesAreThere
<1>3. entry' = [entry EXCEPT ![e].state = "pending"] /\ Ends(a)
  BY Ending DEF GiveBack
<1>4. entry'[e] # None
  BY <1>2, <1>3, Marking
<1>5. Marks(e, "pending")
  BY <1>2, <1>3, <1>4, MarkingIs
<1> QED
  BY <1>1, <1>2, <1>3, <1>5 DEF GiveBackIs, GiveBack

----------------------------------------------------------------------------
(* What a step of the one call leaves of the other payments. *)

OnlyOf(p) ==
    /\ OtherPayments(p) /\ undone \subseteq undone'
    /\ \A q \in Here : q # p /\ payment[q].line # None =>
         bank'[payment[q].line] = bank[payment[q].line]
    /\ \A e \in Entries : entry'[e] # None /\ entry'[e].of # p => entry'[e] = entry[e]
    /\ \A e \in Entries : entry[e] # None =>
         /\ entry'[e] # None /\ entry'[e].of = entry[e].of
         /\ entry'[e].previous = entry[e].previous

\* Where the call has come to.
Reaches(a, p) ==
    /\ Others(a)
    /\ \/ call'[a] = Idle /\ (p \in Here' => Rests(p)')
       \/ call'[a] # Idle /\ call'[a].p = p /\ Work(call[a])'
    /\ p \in Here' => Apart(p)'
    /\ \A l \in Lines : bank'[l] # None =>
         \/ \E q \in Here : q # p /\ payment[q].line = l
         \/ p \in Here' /\ payment'[p].line = l
         \/ call'[a].at = "removeLine" /\ call'[a].read.line = l
         \/ call'[a].at = "link" /\ call'[a].line = l
    /\ \A e \in Entries : Waits(e)' /\ entry'[e].of = p =>
         \/ e \in undone' \/ Marked(p, "pending", e)'
         \/ call'[a].at \in {"removeLine", "forget", "reask", "unask"}

LEMMA OtherRests ==
  ASSUME IInv, NEW p, OnlyOf(p), NEW q \in Here, q # p, Rests(q)
  PROVE  Rests(q)'
<1>1. payment'[q] = payment[q] /\ payment[q] \in Payment
  BY PaymentFields DEF OnlyOf, OtherPayments
<1>2. payment[q].line # None => bank'[payment[q].line] = bank[payment[q].line]
  BY DEF OnlyOf
<1>3. LineRests(q)'
  BY <1>1, <1>2 DEF LineRests, Rests, OnlyOf, Same, TurnedDown
<1>4. ASSUME NEW e, e = payment[q].late.entry, payment[q].late # None
      PROVE  /\ payment[q].late.state = "pending" => Waits(e)' /\ entry'[e].of = q
             /\ payment[q].late.state = "rejected" =>
                  entry'[e] # None /\ Returned(q, e)'
  <2>1. e \in Entries
    BY <1>1, <1>4 DEF Payment, Asked
  <2>2. ASSUME payment[q].late.state = "pending" PROVE Waits(e)' /\ entry'[e].of = q
    <3>1. Waits(e) /\ entry[e].of = q
      BY <1>4, <2>2 DEF Rests, LateRests
    <3>2. entry'[e] # None /\ entry'[e].of = entry[e].of
      BY <2>1, <3>1 DEF OnlyOf, Waits
    <3>3. entry'[e] = entry[e]
      BY <2>1, <3>1, <3>2 DEF OnlyOf
    <3> QED
      BY <3>1, <3>3 DEF Waits
  <2>3. ASSUME payment[q].late.state = "rejected"
        PROVE  entry'[e] # None /\ Returned(q, e)'
    <3>1. entry[e] # None /\ Returned(q, e)
      BY <1>4, <2>3 DEF Rests, LateRests
    <3> QED
      BY <1>1, <2>1, <3>1 DEF OnlyOf, Returned
  <2> QED
    BY <2>2, <2>3
<1>5. LateRests(q)'
  BY <1>1, <1>4 DEF LateRests, OnlyOf, Waits
<1> QED
  BY <1>3, <1>5 DEF Rests

LEMMA LoneStep ==
  ASSUME IInv, Lone, NEW a \in Actors, NEW p \in Payments, call[a] # Idle, call[a].p = p,
         OnlyOf(p), Reaches(a, p)
  PROVE  Lone'
<1>1. \A b \in Actors : b # a => call[b] = Idle /\ call'[b] = Idle
  BY DEF Lone, Alone, Reaches, Others
<1>2. Alone'
  BY <1>1 DEF Alone
<1>3. \A b \in Actors : call'[b] # Idle => Work(call[b])'
  BY <1>1 DEF Reaches
<1>4. ASSUME NEW q \in Here, q # p PROVE q \in Here' /\ payment'[q] = payment[q] /\ Rests(q)'
  <2>1. payment'[q] = payment[q] /\ q \in Here'
    BY <1>4 DEF OnlyOf, OtherPayments, Here
  <2>2. Untouched(q)
    BY <1>1, <1>4 DEF Untouched
  <2>3. Rests(q)
    BY <2>2 DEF Lone
  <2> QED
    BY <1>4, <2>1, <2>3, OtherRests
<1>5. ASSUME NEW q \in Here', q # p PROVE q \in Here
  BY <1>5 DEF OnlyOf, OtherPayments, Here
<1>6. ASSUME NEW q \in Here' PROVE Apart(q)'
  <2>1. CASE q = p
    BY <2>1 DEF Reaches
  <2>2. CASE q # p
    <3>1. q \in Here /\ payment'[q] = payment[q] /\ Apart(q)
      BY <1>4, <1>5, <2>2 DEF Lone
    <3> SUFFICES ASSUME NEW r \in Here', r # q, payment'[r].line # None
                 PROVE  payment'[r].line # payment'[q].line
      BY DEF Apart
    <3>2. CASE r = p
      BY <2>2, <3>2 DEF Reaches, Apart
    <3>3. CASE r # p
      BY <1>4, <1>5, <3>1, <3>3 DEF Apart
    <3> QED
      BY <3>2, <3>3
  <2> QED
    BY <2>1, <2>2
<1>7. ASSUME NEW q \in Here', Untouched(q)' PROVE Rests(q)'
  BY <1>4, <1>5, <1>7 DEF Reaches, Untouched
<1>8. ASSUME NEW l \in Lines, bank'[l] # None
      PROVE  \/ \E q \in Here' : payment'[q].line = l
             \/ \E b \in Actors : \/ call'[b].at = "removeLine" /\ call'[b].read.line = l
                                  \/ call'[b].at = "link" /\ call'[b].line = l
  <2>1. CASE \E q \in Here : q # p /\ payment[q].line = l
    BY <1>4, <2>1
  <2> QED
    BY <1>8, <2>1 DEF Reaches
<1>9. ASSUME NEW e \in Entries, Waits(e)'
      PROVE  \/ e \in undone' \/ WaitsOn(entry[e].of, e)'
             \/ \E b \in Actors : call'[b].at \in {"removeLine", "forget", "reask", "unask"}
                                  /\ call'[b].p = entry'[e].of
  <2>1. CASE entry'[e].of = p
    <3>1. \/ e \in undone' \/ Marked(p, "pending", e)'
          \/ call'[a].at \in {"removeLine", "forget", "reask", "unask"}
      BY <1>9, <2>1 DEF Reaches
    <3>2. call'[a].at \in {"removeLine", "forget", "reask", "unask"} => call'[a].p = p
      BY DEF Reaches, Idle
    <3> QED
      BY <2>1, <3>1, <3>2 DEF OnlyOf, Marked, WaitsOn
  <2>2. CASE entry'[e].of # p
    <3>1. entry'[e] = entry[e] /\ Waits(e)
      BY <1>9, <2>2 DEF OnlyOf, Waits
    <3>2. ~\E b \in Actors : call[b].at \in {"removeLine", "forget", "reask", "unask"}
                             /\ call[b].p = entry[e].of
      BY <1>1, <2>2, <3>1 DEF Idle
    <3>3. e \in undone \/ WaitsOn(entry[e].of, e)
      BY <3>1, <3>2 DEF Lone
    <3> QED
      BY <1>4, <2>2, <3>1, <3>3 DEF WaitsOn, OnlyOf
  <2> QED
    BY <2>1, <2>2
<1> QED
  BY <1>2, <1>3, <1>6, <1>7, <1>8, <1>9 DEF Lone

LEMMA LoneStart ==
  ASSUME IInv, Lone, NEW a \in Actors, \A b \in Actors : call[b] = Idle, Others(a),
         UNCHANGED <<void, payment, bank, entry, undone>>, Work(call[a])'
  PROVE  Lone'
<1>1. Alone'
  BY DEF Alone, Others
<1>2. \A b \in Actors : call'[b] # Idle => Work(call[b])'
  BY DEF Others
<1>3. \A q \in Here : Apart(q) /\ Rests(q)
  BY DEF Lone, Untouched
<1>4. \A q \in Here' : Apart(q)' /\ Rests(q)'
  BY <1>3 DEF Here, Apart, Rests, LineRests, LateRests, Waits, Returned, TurnedDown
<1>5. \A l \in Lines : bank[l] # None => \E q \in Here : payment[q].line = l
  BY DEF Lone, Idle
<1>6. \A e \in Entries : Waits(e) => e \in undone \/ WaitsOn(entry[e].of, e)
  BY DEF Lone, Idle
<1> QED
  BY <1>1, <1>2, <1>4, <1>5, <1>6 DEF Lone, Here, Waits, WaitsOn

----------------------------------------------------------------------------
(* What each step of the one call makes of what it has done so far. *)

Told(a, p) ==
    /\ \A l \in Lines : bank[l] # None =>
         \/ \E q \in Here : payment[q].line = l
         \/ call[a].at = "removeLine" /\ call[a].read.line = l
         \/ call[a].at = "link" /\ call[a].line = l
    /\ \A e \in Entries : Waits(e) /\ entry[e].of = p =>
         \/ e \in undone \/ Marked(p, "pending", e)
         \/ call[a].at \in {"removeLine", "forget", "reask", "unask"}

LEMMA LoneTells ==
  ASSUME Lone, NEW a \in Actors, call[a] # Idle, NEW p, p = call[a].p
  PROVE  Told(a, p) /\ Work(call[a]) /\ (p \in Here => Apart(p))
<1>1. \A b \in Actors : b # a => call[b] = Idle
  BY DEF Lone, Alone
<1>2. \A b \in Actors : b # a =>
        ~(call[b].at \in {"removeLine", "link", "forget", "reask", "unask"})
  BY <1>1 DEF Idle
<1> QED
  BY <1>2 DEF Lone, Told, Marked, WaitsOn

LEMMA OnlyPayment ==
  ASSUME NEW p, OtherPayments(p), UNCHANGED <<void, bank, entry, undone>>
  PROVE  OnlyOf(p)
  BY DEF OnlyOf

LEMMA OnlyNothing ==
  ASSUME NEW p, UNCHANGED <<void, payment, bank, entry, undone>> PROVE OnlyOf(p)
  BY DEF OnlyOf, OtherPayments

LEMMA OnlyWithdrawn ==
  ASSUME NEW p, Withdraws(p), UNCHANGED <<void, payment, bank, undone>> PROVE OnlyOf(p)
  BY DEF OnlyOf, OtherPayments, Withdraws

LEMMA OnlyMarked ==
  ASSUME NEW e \in Entries, entry[e] # None, NEW p, entry[e].of = p, NEW state, Marks(e, state),
         UNCHANGED <<payment, bank>>, undone \subseteq undone'
  PROVE  OnlyOf(p)
  BY DEF OnlyOf, OtherPayments, Marks

\* A payment that keeps its line shares it with no other.
LEMMA OnlyApart ==
  ASSUME NEW p, OnlyOf(p), Apart(p), payment'[p].line = payment[p].line
  PROVE  Apart(p)'
  BY DEF OnlyOf, OtherPayments, Apart, Here

LEMMA LoneSaveRecord ==
  ASSUME IInv, Lone, NEW a \in Actors, NEW p, p = call[a].p, SaveRecord(a) PROVE Lone'
<1>1. SaveRecordIs(a, p)
  BY SaveRecordDoes
<1>2. call[a] # Idle /\ p \in Payments
  BY <1>1 DEF SaveRecordIs, Busy
<1>3. Told(a, p) /\ p \notin Here /\ \A e \in Entries : entry[e] # None => entry[e].of # p
  BY <1>1, <1>2, LoneTells DEF SaveRecordIs, Work
<1>4. OnlyOf(p)
  BY <1>1, OnlyPayment DEF SaveRecordIs
<1>5. p \in Here' /\ Loose(payment[p].line)'
  BY <1>1, <1>2 DEF SaveRecordIs, Here, Loose
<1>6. Others(a) /\ call'[a] # Idle /\ call'[a].p = p
  BY <1>1 DEF SaveRecordIs, Turns
<1>7. Work(call[a])'
  <2>1. CASE call'[a].at = "sync"
    <3>1. payment'[p].late = None
      BY <1>1, <2>1 DEF SaveRecordIs, Turns
    <3> QED
      BY <1>5, <1>6, <2>1, <3>1 DEF Work, Syncs, LateRests
  <2>2. CASE call'[a].at = "reask"
    <3>1. Marked(p, "pending", call[a].entry)' /\ call'[a].entry = call[a].entry
      BY <1>1, <1>5, <2>2 DEF SaveRecordIs, Turns, Marked
    <3> QED
      BY <1>5, <1>6, <2>2, <3>1 DEF Work, Marked
  <2> QED
    BY <1>1, <2>1, <2>2 DEF SaveRecordIs, Turns
<1>8. Apart(p)'
  BY <1>1 DEF SaveRecordIs, Apart
<1>9. call[a].at = "record" /\ UNCHANGED <<bank, entry, undone>>
  BY <1>1 DEF SaveRecordIs
<1>10. Reaches(a, p)
  BY <1>3, <1>6, <1>7, <1>8, <1>9 DEF Reaches, Told, Waits
<1> QED
  BY <1>2, <1>4, <1>10, LoneStep

LEMMA LoneSaveEdit ==
  ASSUME IInv, Lone, NEW a \in Actors, NEW p, p = call[a].p, SaveEdit(a) PROVE Lone'
<1> DEFINE c == call[a]
           old == payment[p]
<1>1. SaveEditIs(a, p)
  BY SaveEditDoes
<1>2. call[a] # Idle /\ p \in Payments
  BY <1>1 DEF SaveEditIs, Busy
<1>3. Told(a, p) /\ EditReads(c) /\ Apart(p) /\ p \in Here
  BY <1>1, <1>2, LoneTells DEF SaveEditIs, Work, EditReads
<1>4. PaymentIs(p, c.value, c.date,
                IF c.cleared THEN None ELSE IF c.late = None THEN old.late ELSE c.late, old.line)
  BY <1>1, <1>3 DEF SaveEditIs, EditReads
<1>5. \/ c.entry # None /\ Turns(a, "reask") /\ call'[a].entry = c.entry
      \/ c.entry = None /\ c.cleared /\ Turns(a, "unask")
      \/ c.entry = None /\ ~(c.cleared /\ IsAsked(old.late)) /\ Turns(a, "sync")
  BY <1>1, <1>3 DEF SaveEditIs, EditReads
<1>6. UNCHANGED <<void, bank, entry, undone>> /\ c.at = "edit"
  BY <1>1 DEF SaveEditIs
<1>7. OnlyOf(p)
  BY <1>4, <1>6, OnlyPayment DEF PaymentIs
<1>8. p \in Here' /\ payment'[p].line = old.line /\ payment'[p].value = c.value
      /\ payment'[p].date = c.date
  BY <1>2, <1>4 DEF PaymentIs, Here
<1>9. Others(a) /\ call'[a] # Idle /\ call'[a].p = p
  BY <1>5 DEF Turns
<1>10. c.date # old.date \/ c.value.lands # old.value.lands => Loose(payment[p].line)'
  BY <1>3, <1>6, <1>8 DEF EditReads, Loose
<1>11. old.late # None => old.late.state \in {"pending", "approved", "rejected"}
  BY <1>3, PaymentFields DEF Payment, Asked
<1>12. CASE c.entry # None
  <2>0. c.entry \in Entries /\ c.late = [state |-> "pending", entry |-> c.entry] /\ ~c.cleared
    BY <1>1, <1>3, <1>12 DEF SaveEditIs, Busy, Call, EditReads
  <2>1. payment'[p].late = [state |-> "pending", entry |-> call'[a].entry]
        /\ call'[a].entry = c.entry
    <3>1. c.late # None
      BY <2>0, NoneAssumption DEF Asked
    <3> QED
      BY <1>4, <1>5, <1>12, <2>0, <3>1 DEF PaymentIs, Turns
  <2>2. Work(call[a])' /\ call'[a].at = "reask"
    BY <1>3, <1>5, <1>8, <1>9, <1>10, <1>12, <2>0, <2>1 DEF Work, Turns, EditReads, Marked
  <2> QED
    <3>1. Reaches(a, p)
      BY <1>3, <1>6, <1>7, <1>8, <1>9, <2>2, OnlyApart DEF Reaches, Told
    <3> QED
      BY <1>2, <1>7, <3>1, LoneStep
<1>13. CASE c.entry = None /\ c.cleared
  <2>1. payment'[p].late = None /\ Loose(payment[p].line)'
    BY <1>3, <1>4, <1>10, <1>13 DEF EditReads, PaymentIs
  <2>2. call'[a].at \in {"unask", "sync"}
    BY <1>5, <1>13 DEF Turns
  <2>3. Work(call[a])'
    BY <1>8, <1>9, <2>1, <2>2 DEF Work, Syncs, LateRests
  <2>4. ASSUME NEW e \in Entries, Waits(e)', entry'[e].of = p, call'[a].at = "sync" PROVE e \in undone
    <3>1. e \in undone \/ Marked(p, "pending", e)
      BY <1>3, <1>6, <2>4 DEF Told, Waits
    <3>2. ~IsAsked(old.late)
      BY <1>5, <1>13, <2>4 DEF Turns
    <3> QED
      BY <3>1, <3>2, NoneAssumption DEF Marked, IsAsked, Asked
  <2> QED
    <3>1. Reaches(a, p)
      BY <1>3, <1>6, <1>7, <1>8, <1>9, <2>2, <2>3, <2>4, OnlyApart DEF Reaches, Told
    <3> QED
      BY <1>2, <1>7, <3>1, LoneStep
<1>14. CASE c.entry = None /\ ~c.cleared
  <2>1. payment'[p].late = old.late /\ call'[a].at = "sync"
    BY <1>3, <1>4, <1>5, <1>14 DEF EditReads, PaymentIs, Turns
  <2>2. Rests(p) /\ (c.date = old.date \/ old.late = None \/ old.late.state = "approved")
    BY <1>3, <1>14 DEF EditReads
  <2>3. LateRests(p)'
    BY <1>6, <1>8, <1>11, <2>1, <2>2 DEF Rests, LateRests, Waits, Returned
  <2>4. (Loose(payment[p].line) \/ Lands(p))'
    <3>1. CASE c.date = old.date /\ c.value.lands = old.value.lands
      <4>1. LineRests(p)
        BY <2>2 DEF Rests
      <4>2. old.line = None \/ Lands(p)
        BY <4>1 DEF LineRests, Lands, Same
      <4> QED
        BY <1>6, <1>8, <2>1, <3>1, <4>2 DEF Lands, Loose
    <3> QED
      BY <1>10, <3>1
  <2>5. Work(call[a])'
    BY <1>8, <1>9, <2>1, <2>3, <2>4 DEF Work, Syncs
  <2> QED
    <3>1. Reaches(a, p)
      BY <1>3, <1>6, <1>7, <1>8, <1>9, <2>1, <2>5, OnlyApart DEF Reaches, Told, Waits, Marked
    <3> QED
      BY <1>2, <1>7, <3>1, LoneStep
<1> QED
  BY <1>12, <1>13, <1>14

LEMMA LoneSaveDelete ==
  ASSUME IInv, Lone, NEW a \in Actors, NEW p, p = call[a].p, SaveDelete(a) PROVE Lone'
<1>1. SaveDeleteIs(a, p)
  BY SaveDeleteDoes
<1>2. call[a] # Idle /\ p \in Payments
  BY <1>1 DEF SaveDeleteIs, Busy
<1>3. Told(a, p) /\ Apart(p) /\ p \in Here /\ call[a].read = payment[p] /\ Loose(payment[p].line)
  BY <1>1, <1>2, LoneTells DEF SaveDeleteIs, Work
<1>4. OnlyOf(p)
  BY <1>1, OnlyPayment DEF SaveDeleteIs
<1>5. call'[a] # Idle /\ call'[a].p = p /\ call'[a].at = "removeLine" /\ Others(a)
      /\ call'[a].read = call[a].read /\ call[a].at = "delete"
  BY <1>1 DEF SaveDeleteIs, Carries, Turns
<1>6. p \notin Here' /\ OtherPayments(p) /\ UNCHANGED <<void, bank, entry, undone>>
  BY <1>1 DEF SaveDeleteIs, Here
<1>7. Work(call[a])'
  <2>1. Loose(call[a].read.line)'
    BY <1>3, <1>5, <1>6 DEF Loose
  <2>2. \A q \in Here' : payment'[q].line # None => payment'[q].line # call'[a].read.line
    BY <1>3, <1>5, <1>6 DEF Apart, OtherPayments, Here
  <2> QED
    BY <1>5, <1>6, <2>1, <2>2 DEF Work
<1>8. Reaches(a, p)
  BY <1>3, <1>5, <1>6, <1>7 DEF Reaches, Told
<1> QED
  BY <1>2, <1>4, <1>8, LoneStep

LEMMA OnlyRemoved ==
  ASSUME NEW p, NEW l, Removes(l), UNCHANGED <<void, payment, entry, undone>>, IInv,
         \A q \in Here : q # p /\ payment[q].line # None => payment[q].line # l
  PROVE  OnlyOf(p)
<1>1. \A q \in Here : payment[q].line # None => payment[q].line \in Lines
  BY PaymentFields DEF Payment
<1> QED
  BY <1>1 DEF OnlyOf, OtherPayments, Removes

LEMMA LoneRemoveLine ==
  ASSUME IInv, Lone, NEW a \in Actors, NEW p, p = call[a].p, RemoveLine(a) PROVE Lone'
<1>1. RemoveLineIs(a, p)
  BY RemoveLineDoes
<1>2. call[a] # Idle /\ p \in Payments
  BY <1>1 DEF RemoveLineIs, Busy
<1>3. Told(a, p) /\ p \notin Here
      /\ \A q \in Here : payment[q].line # None => payment[q].line # call[a].read.line
  BY <1>1, <1>2, LoneTells DEF RemoveLineIs, Work
<1>4. OnlyOf(p)
  BY <1>1, <1>3, OnlyRemoved DEF RemoveLineIs
<1>5. call'[a] # Idle /\ call'[a].p = p /\ call'[a].at = "forget" /\ Others(a)
      /\ call[a].at = "removeLine" /\ UNCHANGED <<void, payment, entry, undone>>
  BY <1>1 DEF RemoveLineIs, Turns
<1>6. p \notin Here' /\ Work(call[a])'
  BY <1>3, <1>5 DEF Work, Here
<1>7. \A l \in Lines : bank'[l] # None => \E q \in Here : q # p /\ payment[q].line = l
  BY <1>1, <1>3, <1>5 DEF RemoveLineIs, Removes, Told
<1>8. Reaches(a, p)
  BY <1>3, <1>5, <1>6, <1>7 DEF Reaches
<1> QED
  BY <1>2, <1>4, <1>8, LoneStep

LEMMA LoneReask ==
  ASSUME IInv, Lone, NEW a \in Actors, NEW p, p = call[a].p, Reask(a) PROVE Lone'
<1>1. ReaskIs(a, p)
  BY ReaskDoes
<1>2. call[a] # Idle /\ p \in Payments
  BY <1>1 DEF ReaskIs, Busy
<1>3. Told(a, p) /\ Marked(p, "pending", call[a].entry) /\ Loose(payment[p].line) /\ Apart(p)
  BY <1>1, <1>2, LoneTells DEF ReaskIs, Work, Marked
<1>4. OnlyOf(p)
  BY <1>1, OnlyWithdrawn DEF ReaskIs
<1>5. call'[a] # Idle /\ call'[a].p = p /\ call'[a].at = "ask" /\ Others(a)
      /\ call'[a].entry = call[a].entry /\ call[a].at = "reask"
      /\ UNCHANGED <<void, payment, bank, undone>>
  BY <1>1 DEF ReaskIs, Carries, Turns
<1>6. \A e \in Entries : Waits(e)' => entry'[e].of # p
  BY <1>1 DEF ReaskIs, Withdraws, Waits
<1>7. Work(call[a])'
  BY <1>3, <1>5, <1>6 DEF Work, Marked, Loose, Here
<1>8. Reaches(a, p)
  BY <1>3, <1>4, <1>5, <1>6, <1>7, OnlyApart DEF Reaches, Told, Here
<1> QED
  BY <1>2, <1>4, <1>8, LoneStep

LEMMA LoneAsk ==
  ASSUME IInv, Lone, NEW a \in Actors, NEW p, p = call[a].p, Ask(a) PROVE Lone'
<1> DEFINE e == call[a].entry
<1>1. AskIs(a, p)
  BY AskDoes
<1>2. call[a] # Idle /\ p \in Payments /\ e \in Entries /\ call[a].at = "ask"
  BY <1>1 DEF AskIs, Busy
<1>3. Told(a, p) /\ Marked(p, "pending", e) /\ Loose(payment[p].line) /\ Apart(p)
      /\ \A f \in Entries : Waits(f) => entry[f].of # p
  BY <1>1, <1>2, LoneTells DEF AskIs, Work, Marked
<1>4. entry[e] = None
  BY <1>2, NoneAssumption DEF IInv, EntriesAreNew, Asking
<1>5. OnlyOf(p)
  BY <1>1, <1>4 DEF AskIs, OnlyOf, OtherPayments
<1>6. call'[a] # Idle /\ call'[a].p = p /\ call'[a].at = "sync" /\ Others(a)
      /\ UNCHANGED <<void, payment, bank, undone>>
  BY <1>1 DEF AskIs, Turns
<1>7. ASSUME NEW f, f = e PROVE Waits(f)' /\ entry'[f].of = p
  BY <1>1, <1>7 DEF AskIs, Waits
<1>8. LateRests(p)'
  <2>1. payment'[p].late = [state |-> "pending", entry |-> e]
    BY <1>3, <1>6 DEF Marked
  <2> QED
    BY <2>1, <1>7 DEF LateRests
<1>9. Work(call[a])'
  BY <1>3, <1>6, <1>8 DEF Work, Syncs, Marked, Loose, Here
<1>10. \A f \in Entries : Waits(f)' /\ entry'[f].of = p => Marked(p, "pending", f)'
  BY <1>1, <1>3, <1>6 DEF AskIs, Waits, Marked, Here
<1>11. Reaches(a, p)
  BY <1>2, <1>3, <1>5, <1>6, <1>9, <1>10, OnlyApart DEF Reaches, Told, Here
<1> QED
  BY <1>2, <1>5, <1>11, LoneStep

LEMMA LoneUnask ==
  ASSUME IInv, Lone, NEW a \in Actors, NEW p, p = call[a].p, Unask(a) PROVE Lone'
<1>1. UnaskIs(a, p)
  BY UnaskDoes
<1>2. call[a] # Idle /\ p \in Payments /\ call[a].at \in {"unask", "forget"}
  BY <1>1 DEF UnaskIs, Busy
<1>3. Told(a, p) /\ (p \in Here => Apart(p))
      /\ (call[a].at = "forget" => p \notin Here)
      /\ (call[a].at = "unask" => p \in Here /\ payment[p].late = None /\ Loose(payment[p].line))
  BY <1>2, LoneTells DEF Work
<1>4. OnlyOf(p)
  BY <1>1, OnlyWithdrawn DEF UnaskIs
<1>5. \A e \in Entries : Waits(e)' => entry'[e].of # p
  BY <1>1 DEF UnaskIs, Withdraws, Waits
<1>6. Others(a) /\ UNCHANGED <<void, payment, bank, undone>>
  BY <1>1 DEF UnaskIs, Turns, Ends
<1>7. \/ call'[a] = Idle /\ p \notin Here'
      \/ call'[a] # Idle /\ call'[a].p = p /\ call'[a].at = "sync" /\ Work(call[a])'
  <2>1. CASE call[a].at = "forget"
    BY <1>1, <1>3, <1>6, <2>1 DEF UnaskIs, Ends, Here
  <2>2. CASE call[a].at = "unask"
    <3>1. call'[a] # Idle /\ call'[a].p = p /\ call'[a].at = "sync"
      BY <1>1, <2>2 DEF UnaskIs, Turns
    <3> QED
      BY <1>3, <1>6, <2>2, <3>1 DEF Work, Syncs, LateRests, Loose, Here
  <2> QED
    BY <1>2, <2>1, <2>2
<1>8. p \in Here' => Apart(p)'
  BY <1>3, <1>4, <1>6, OnlyApart DEF Here
<1>9. \A l \in Lines : bank'[l] # None =>
        (\E q \in Here : q # p /\ payment[q].line = l) \/ (p \in Here' /\ payment'[p].line = l)
  BY <1>2, <1>3, <1>6 DEF Told, Here
<1>10. Reaches(a, p)
  BY <1>5, <1>6, <1>7, <1>8, <1>9 DEF Reaches
<1> QED
  BY <1>2, <1>4, <1>10, LoneStep

LEMMA LoneSync ==
  ASSUME IInv, Lone, NEW a \in Actors, NEW p, p = call[a].p, Sync(a) PROVE Lone'
<1>1. SyncIs(a, p)
  BY SyncDoes
<1>2. call[a] # Idle /\ p \in Payments /\ call[a].at = "sync"
  BY <1>1 DEF SyncIs, Busy
<1>3. Told(a, p) /\ Syncs(p) /\ Apart(p)
  BY <1>2, LoneTells DEF Work, Syncs
<1>4. UNCHANGED <<void, payment, bank, entry, undone>>
  BY <1>1 DEF SyncIs
<1>5. OnlyOf(p)
  BY <1>4, OnlyNothing
<1>6. call'[a] # Idle /\ call'[a].p = p /\ call'[a].at = "line" /\ Others(a)
      /\ call'[a].read = payment[p]
  BY <1>1, <1>3 DEF SyncIs, Syncs, Turns
<1>7. Syncs(p)'
  BY <1>3, <1>4 DEF Syncs, Here, LateRests, Waits, Loose, Lands, Returned
<1>8. Work(call[a])'
  BY <1>4, <1>6, <1>7 DEF Work
<1>9. Reaches(a, p)
  BY <1>2, <1>3, <1>4, <1>5, <1>6, <1>7, <1>8, OnlyApart
     DEF Reaches, Told, Waits, Marked, Here, Syncs
<1> QED
  BY <1>2, <1>5, <1>9, LoneStep

LEMMA LoneKeepOrRemove ==
  ASSUME IInv, Lone, NEW a \in Actors, NEW p, p = call[a].p, KeepOrRemove(a) PROVE Lone'
<1> DEFINE q == payment[p]
<1>1. KeepOrRemoveIs(a, p)
  BY KeepOrRemoveDoes
<1>2. call[a] # Idle /\ p \in Payments /\ call[a].at = "line"
  BY <1>1 DEF KeepOrRemoveIs, Busy
<1>3. Told(a, p) /\ Syncs(p) /\ Apart(p) /\ call[a].read = q
  BY <1>2, LoneTells DEF Work, Syncs
<1>4. UNCHANGED <<void, payment, entry, undone>>
  BY <1>1 DEF KeepOrRemoveIs
<1>5. p \in Here' /\ LateRests(p)' /\ (IsAsked(q.late) <=> IsAsked(payment'[p].late))
      /\ payment'[p] = payment[p]
  BY <1>3, <1>4 DEF Syncs, Here, LateRests, Waits, Returned
<1>6. \A e \in Entries : Waits(e)' /\ entry'[e].of = p => e \in undone' \/ Marked(p, "pending", e)'
  BY <1>2, <1>3, <1>4 DEF Told, Waits, Marked, Here
<1>7. CASE Agrees(q) /\ Ends(a) /\ UNCHANGED bank
  <2>1. OnlyOf(p)
    BY <1>4, <1>7, OnlyNothing
  <2>2. LineRests(p)'
    BY <1>4, <1>5, <1>7 DEF LineRests, Agrees, Same
  <2>3. Reaches(a, p)
    BY <1>2, <1>3, <1>4, <1>5, <1>6, <1>7, <2>1, <2>2, OnlyApart
       DEF Reaches, Ends, Told, Rests
  <2> QED
    BY <1>2, <2>1, <2>3, LoneStep
<1>8. CASE /\ ~Agrees(q) /\ Removes(q.line)
           /\ \/ IsAsked(q.late) /\ Turns(a, "link") /\ call'[a].line = None
              \/ ~IsAsked(q.late) /\ Carries(a, "make")
  <2>1. OnlyOf(p)
    BY <1>3, <1>4, <1>8, OnlyRemoved DEF Apart
  <2>2. Gone(payment[p].line)'
    <3>1. q.line # None => q.line \in Lines
      BY <1>3, PaymentFields DEF Syncs, Payment
    <3> QED
      BY <1>5, <1>8, <3>1 DEF Gone, Removes
  <2>3. call'[a] # Idle /\ call'[a].p = p /\ Others(a)
        /\ \/ call'[a].at = "link" /\ call'[a].line = None /\ IsAsked(q.late)
           \/ call'[a].at = "make" /\ call'[a].read = q /\ ~IsAsked(q.late)
    BY <1>3, <1>8 DEF Turns, Carries
  <2>4. Work(call[a])'
    BY <1>5, <2>2, <2>3 DEF Work
  <2>5. \A l \in Lines : bank'[l] # None => \E r \in Here : r # p /\ payment[r].line = l
    BY <1>2, <1>3, <1>8 DEF Told, Removes
  <2>6. Reaches(a, p)
    BY <1>3, <1>4, <1>5, <1>6, <2>1, <2>3, <2>4, <2>5, OnlyApart DEF Reaches
  <2> QED
    BY <1>2, <2>1, <2>6, LoneStep
<1> QED
  BY <1>1, <1>3, <1>7, <1>8 DEF KeepOrRemoveIs

LEMMA LoneMake ==
  ASSUME IInv, Ids, Lone, NEW a \in Actors, NEW p, p = call[a].p, Make(a) PROVE Lone'
<1>1. MakeIs(a, p)
  BY MakeDoes
<1>2. call[a] # Idle /\ p \in Payments /\ call[a].at = "make"
  BY <1>1 DEF MakeIs, Busy
<1>3. Told(a, p) /\ Apart(p) /\ call[a].read = payment[p]
      /\ p \in Here /\ LateRests(p) /\ Gone(payment[p].line) /\ ~IsAsked(payment[p].late)
  BY <1>2, LoneTells DEF Work
<1>4. PICK l \in Lines :
        /\ l \notin used
        /\ bank'[l] # None /\ Same(bank'[l], call[a].read)
        /\ \A m \in Lines : m # l => bank'[m] = bank[m]
        /\ Turns(a, "link") /\ call'[a].line = l
  BY <1>1 DEF MakeIs
<1>5. UNCHANGED <<void, payment, entry, undone>>
  BY <1>1 DEF MakeIs
<1>6. \A q \in Here : payment[q].line # None => payment[q].line \in Lines /\ payment[q].line # l
  BY <1>4, PaymentFields DEF Ids, Payment
<1>7. OnlyOf(p)
  BY <1>4, <1>5, <1>6 DEF OnlyOf, OtherPayments
<1>8. call'[a] # Idle /\ call'[a].p = p /\ call'[a].at = "link" /\ call'[a].line = l /\ Others(a)
  BY <1>4 DEF Turns
<1>9. p \in Here' /\ LateRests(p)' /\ Gone(payment[p].line)' /\ ~IsAsked(payment'[p].late)
  BY <1>3, <1>4, <1>5, <1>6 DEF Here, LateRests, Waits, Gone, Returned
<1>10. Same(bank'[l], payment'[p])
  BY <1>3, <1>4, <1>5
<1>11. l # None /\ \A q \in Here' : payment'[q].line # l
  BY <1>5, <1>6, NoneAssumption DEF Here
<1>12. Work(call[a])'
  BY <1>4, <1>8, <1>9, <1>10, <1>11 DEF Work, Same
<1>13. \A e \in Entries : Waits(e)' /\ entry'[e].of = p => e \in undone' \/ Marked(p, "pending", e)'
  BY <1>2, <1>3, <1>5 DEF Told, Waits, Marked, Here
<1>14. Reaches(a, p)
  BY <1>2, <1>3, <1>4, <1>5, <1>7, <1>8, <1>9, <1>12, <1>13, OnlyApart DEF Reaches, Told
<1> QED
  BY <1>2, <1>7, <1>14, LoneStep

LEMMA LoneLink ==
  ASSUME IInv, Lone, NEW a \in Actors, NEW p, p = call[a].p, Link(a) PROVE Lone'
<1> DEFINE old == payment[p]
<1>1. LinkIs(a, p)
  BY LinkDoes
<1>2. call[a] # Idle /\ p \in Payments /\ call[a].at = "link"
  BY <1>1 DEF LinkIs, Busy
<1>3. Told(a, p) /\ Apart(p) /\ p \in Here /\ LateRests(p) /\ Gone(old.line)
      /\ IF IsAsked(old.late) THEN call[a].line = None
         ELSE /\ call[a].line # None /\ bank[call[a].line] # None
              /\ Same(bank[call[a].line], old)
              /\ \A q \in Here : payment[q].line # call[a].line
  BY <1>2, LoneTells DEF Work
<1>4. PaymentIs(p, old.value, old.date, old.late, call[a].line)
      /\ UNCHANGED <<void, bank, entry, undone>> /\ Ends(a)
  BY <1>1, <1>3 DEF LinkIs
<1>5. OnlyOf(p)
  BY <1>4, OnlyPayment DEF PaymentIs
<1>6. LateRests(p)'
  BY <1>3, <1>4 DEF PaymentIs, LateRests, Waits, Returned
<1>7. LineRests(p)'
  BY <1>3, <1>4 DEF PaymentIs, LineRests, Same
<1>8. Apart(p)'
  BY <1>3, <1>4 DEF PaymentIs, Apart, OtherPayments, Here
<1>9. \A l \in Lines : bank'[l] # None =>
        (\E q \in Here : q # p /\ payment[q].line = l) \/ payment'[p].line = l
  BY <1>2, <1>3, <1>4, NoneAssumption DEF Told, PaymentIs, Gone
<1>10. p \in Here'
  BY <1>2, <1>4 DEF PaymentIs, Here
<1>11. \A e \in Entries : Waits(e)' /\ entry'[e].of = p => e \in undone' \/ Marked(p, "pending", e)'
  BY <1>2, <1>3, <1>4, <1>10 DEF Told, Waits, Marked, PaymentIs
<1>12. Reaches(a, p)
  BY <1>4, <1>6, <1>7, <1>8, <1>9, <1>10, <1>11 DEF Reaches, Rests, Ends
<1> QED
  BY <1>2, <1>5, <1>12, LoneStep

LEMMA LoneStillAsked ==
  ASSUME IInv, Lone, NEW a \in Actors, NEW p, p = call[a].p, StillAsked(a) PROVE Lone'
<1> DEFINE e == call[a].entry
<1>1. StillAskedIs(a, p)
  BY StillAskedDoes
<1>2. call[a] # Idle /\ p \in Payments /\ call[a].at = "asked" /\ e \in Entries
  BY <1>1 DEF StillAskedIs, Busy
<1>3. Told(a, p) /\ Decided(call[a]) /\ Waits(e) /\ (p \in Here => Apart(p) /\ Rests(p))
  BY <1>2, LoneTells DEF Work
<1>4. UNCHANGED <<void, payment, bank, undone>>
  BY <1>1 DEF StillAskedIs
<1>5. CASE WaitsOn(p, e) /\ Carries(a, "claim") /\ UNCHANGED entry
  <2>1. OnlyOf(p)
    BY <1>4, <1>5, OnlyNothing
  <2>2. call'[a] # Idle /\ call'[a].p = p /\ call'[a].at = "claim" /\ Others(a)
        /\ call'[a].entry = e /\ call'[a].previous = call[a].previous
    BY <1>5 DEF Carries, Turns
  <2>3. Rests(p)' /\ Marked(p, "pending", e)
    BY <1>3, <1>4, <1>5
       DEF WaitsOn, Marked, Rests, LineRests, LateRests, Waits, Here, Returned, TurnedDown
  <2>4. Work(call[a])'
    BY <1>3, <1>4, <1>5, <2>2, <2>3 DEF Work, Decided, Waits, Marked, Here
  <2>5. Reaches(a, p)
    BY <1>2, <1>3, <1>4, <1>5, <2>1, <2>2, <2>3, <2>4, OnlyApart
       DEF Reaches, Told, Waits, Marked, Here
  <2> QED
    BY <1>2, <2>1, <2>5, LoneStep
<1>6. CASE ~WaitsOn(p, e) /\ Ends(a) /\ Marks(e, "withdrawn")
  <2>1. OnlyOf(p)
    BY <1>2, <1>3, <1>4, <1>6, OnlyMarked DEF Decided
  <2>2. ASSUME p \in Here' PROVE Rests(p)'
    <3>1. p \in Here /\ Rests(p) /\ payment[p] \in Payment
      BY <1>3, <1>4, <2>2, PaymentFields DEF Here
    <3>2. LineRests(p)'
      BY <1>4, <3>1 DEF Rests, LineRests, Same, TurnedDown
    <3>3. ASSUME NEW f, f = payment[p].late.entry, payment[p].late # None
          PROVE  /\ payment[p].late.state = "pending" => Waits(f)' /\ entry'[f].of = p
                 /\ payment[p].late.state = "rejected" =>
                      entry'[f] # None /\ Returned(p, f)'
      <4>1. f \in Entries /\ payment[p].late = [state |-> payment[p].late.state, entry |-> f]
        BY <3>1, <3>3 DEF Payment, Asked
      <4>2. payment[p].late.state = "pending" => f # e
        BY <1>6, <3>1, <4>1 DEF WaitsOn
      <4>3. entry[f] # None => entry'[f] # None /\ entry'[f].previous = entry[f].previous
        BY <1>6, <4>1 DEF Marks
      <4>4. f # e => entry'[f] = entry[f]
        BY <1>6, <4>1 DEF Marks
      <4> QED
        BY <1>4, <3>1, <3>3, <4>2, <4>3, <4>4 DEF Rests, LateRests, Waits, Returned
    <3>4. LateRests(p)'
      BY <1>4, <3>3 DEF LateRests
    <3> QED
      BY <3>2, <3>4 DEF Rests
  <2>3. \A f \in Entries : Waits(f)' /\ entry'[f].of = p => f \in undone' \/ Marked(p, "pending", f)'
    BY <1>2, <1>3, <1>4, <1>6 DEF Told, Marks, Waits, Marked, Here
  <2>4. Reaches(a, p)
    BY <1>2, <1>3, <1>4, <1>6, <2>1, <2>2, <2>3, OnlyApart DEF Reaches, Ends, Told, Here
  <2> QED
    BY <1>2, <2>1, <2>4, LoneStep
<1> QED
  BY <1>1, <1>5, <1>6 DEF StillAskedIs

\* What is decided waits for nobody else meanwhile.
LEMMA LoneClaim ==
  ASSUME IInv, Lone, NEW a \in Actors, NEW p, p = call[a].p, Claim(a) PROVE Lone'
<1> DEFINE e == call[a].entry
<1>1. ClaimIs(a, p)
  BY ClaimDoes
<1>2. call[a] # Idle /\ p \in Payments /\ call[a].at = "claim" /\ e \in Entries
  BY <1>1 DEF ClaimIs, Busy
<1>3. Told(a, p) /\ Decided(call[a]) /\ Waits(e) /\ Marked(p, "pending", e)
      /\ p \in Here /\ Apart(p) /\ Rests(p)
  BY <1>2, LoneTells DEF Work, Marked
<1>4. UNCHANGED <<void, payment, bank, undone>>
      /\ Marks(e, call[a].decision) /\ Carries(a, Applying(call[a]))
  BY <1>1, <1>3 DEF ClaimIs, Waits
<1>5. OnlyOf(p)
  BY <1>2, <1>3, <1>4, OnlyMarked DEF Decided
<1>6. call'[a] # Idle /\ call'[a].p = p /\ Others(a) /\ call'[a].entry = e
      /\ call'[a].previous = call[a].previous /\ call'[a].decision = call[a].decision
      /\ call'[a].at = Applying(call[a]) /\ call'[a].at \in {"apply", "refuse"}
  BY <1>4 DEF Carries, Turns, Applying
<1>7. payment[p].line = None
  BY <1>2, <1>3, NoneAssumption DEF Rests, LineRests, Marked, IsAsked, Asked
<1>8. Decided(call[a])'
  BY <1>3, <1>4, <1>6 DEF Decided, Marks
<1>9. Marked(p, "pending", call[a].entry)'
  BY <1>3, <1>4, <1>6 DEF Marked, Here
<1>10. /\ call'[a].at = "apply" /\ call'[a].decision = "rejected" => call'[a].previous # None
       /\ call'[a].at = "refuse" => call'[a].previous = None
  BY <1>6 DEF Applying
<1>11. Work(call[a])'
  BY <1>4, <1>6, <1>7, <1>8, <1>9, <1>10 DEF Work
<1>12. \A f \in Entries : Waits(f)' /\ entry'[f].of = p => f \in undone' \/ Marked(p, "pending", f)'
  BY <1>2, <1>3, <1>4 DEF Told, Marks, Waits, Marked, Here
<1>13. Reaches(a, p)
  BY <1>2, <1>3, <1>4, <1>5, <1>6, <1>11, <1>12, OnlyApart DEF Reaches, Told, Here
<1> QED
  BY <1>2, <1>5, <1>13, LoneStep

LEMMA LoneApply ==
  ASSUME IInv, Lone, NEW a \in Actors, NEW p, p = call[a].p, Apply(a) PROVE Lone'
<1>1. ApplyIs(a, p)
  BY ApplyDoes
<1>2. call[a] # Idle /\ p \in Payments /\ call[a].at = "apply"
  BY <1>1 DEF ApplyIs, Busy
<1>3. Told(a, p) /\ Decided(call[a]) /\ Marked(p, "pending", call[a].entry) /\ p \in Here
      /\ Apart(p) /\ payment[p].line = None
      /\ (call[a].decision = "rejected" => call[a].previous # None)
  BY <1>2, LoneTells DEF Work, Marked
<1>4. UNCHANGED <<void, payment, bank, entry, undone>>
  BY <1>1 DEF ApplyIs
<1>5. OnlyOf(p)
  BY <1>4, OnlyNothing
<1>6. call'[a] # Idle /\ call'[a].p = p /\ call'[a].at = "saveApplied" /\ Others(a)
      /\ call'[a].entry = call[a].entry /\ call'[a].decision = call[a].decision
      /\ call'[a].previous = call[a].previous /\ call'[a].ids = Here
      /\ call'[a].read = payment[p]
  BY <1>1, <1>3 DEF ApplyIs, Turns
<1>7. Decided(call[a])' /\ Marked(p, "pending", call[a].entry)' /\ Here' = Here
  BY <1>3, <1>4, <1>6 DEF Decided, Marked, Here
<1>8. Work(call[a])'
  BY <1>3, <1>4, <1>6, <1>7 DEF Work
<1>9. Reaches(a, p)
  BY <1>2, <1>3, <1>4, <1>5, <1>6, <1>7, <1>8, OnlyApart DEF Reaches, Told, Waits, Marked
<1> QED
  BY <1>2, <1>5, <1>9, LoneStep

\* Nothing waits on a payment that is decided and has been claimed.
LEMMA Claimed ==
  ASSUME IInv, NEW a \in Actors, call[a].at \in Deciding, NEW p, Told(a, p),
         Marked(p, "pending", call[a].entry) \/ Marked(p, "rejected", call[a].entry)
  PROVE  \A f \in Entries : Waits(f) /\ entry[f].of = p => f \in undone
<1> SUFFICES ASSUME NEW f \in Entries, Waits(f), entry[f].of = p, f \notin undone PROVE FALSE
  OBVIOUS
<1>1. Marked(p, "pending", f)
  BY DEF Told, Deciding
<1>2. f = call[a].entry
  BY <1>1 DEF Marked
<1> QED
  BY <1>2 DEF IInv, EntriesAreThere, Waits

LEMMA LoneSaveApplied ==
  ASSUME IInv, Lone, NEW a \in Actors, NEW p, p = call[a].p, SaveApplied(a) PROVE Lone'
<1> DEFINE c == call[a]
           old == payment[p]
           date == IF c.decision = "rejected" /\ c.previous # c.read.date THEN c.previous
                   ELSE old.date
<1>1. SaveAppliedIs(a, p)
  BY SaveAppliedDoes
<1>2. c # Idle /\ p \in Payments /\ c.at = "saveApplied"
  BY <1>1 DEF SaveAppliedIs, Busy
<1>3. Told(a, p) /\ Decided(c) /\ Marked(p, "pending", c.entry) /\ p \in Here /\ Apart(p)
      /\ old.line = None /\ c.ids = Here /\ c.read = old
  BY <1>2, LoneTells DEF Work, Marked
<1>4. PaymentIs(p, old.value, date, [state |-> c.decision, entry |-> c.entry], old.line)
      /\ UNCHANGED <<void, bank, entry, undone>> /\ Turns(a, "sync")
      /\ c.decision \in {"approved", "rejected"}
  BY <1>1, <1>3 DEF SaveAppliedIs
<1>5. OnlyOf(p)
  BY <1>4, OnlyPayment DEF PaymentIs
<1>6. call'[a] # Idle /\ call'[a].p = p /\ call'[a].at = "sync" /\ Others(a)
  BY <1>4 DEF Turns
<1>7. p \in Here' /\ payment'[p].line = None
  BY <1>2, <1>3, <1>4 DEF PaymentIs, Here
<1>8. LateRests(p)'
  <2>1. c.decision = "rejected" => date = entry[c.entry].previous
    BY <1>3 DEF Decided
  <2>2. entry[c.entry] # None
    BY <1>3 DEF Decided
  <2>3. ASSUME NEW e, e = c.entry
        PROVE  payment'[p].late.state = "rejected" =>
                 entry'[e] # None /\ Returned(p, e)'
    BY <1>4, <2>1, <2>2, <2>3 DEF PaymentIs, Returned
  <2>4. payment'[p].late = [state |-> c.decision, entry |-> c.entry]
    BY <1>4 DEF PaymentIs
  <2> QED
    BY <1>4, <2>3, <2>4 DEF LateRests
<1>9. Work(call[a])'
  BY <1>6, <1>7, <1>8 DEF Work, Syncs, Loose
<1>10. \A f \in Entries : Waits(f)' /\ entry'[f].of = p => f \in undone'
  BY <1>2, <1>3, <1>4, Claimed DEF Deciding, Waits
<1>11. Reaches(a, p)
  BY <1>2, <1>3, <1>4, <1>5, <1>6, <1>7, <1>9, <1>10, OnlyApart DEF Reaches, Told
<1> QED
  BY <1>2, <1>5, <1>11, LoneStep

LEMMA LoneRefuse ==
  ASSUME IInv, Lone, NEW a \in Actors, NEW p, p = call[a].p, Refuse(a) PROVE Lone'
<1> DEFINE c == call[a]
           old == payment[p]
<1>1. RefuseIs(a, p)
  BY RefuseDoes
<1>2. c # Idle /\ p \in Payments /\ c.at = "refuse"
  BY <1>1 DEF RefuseIs, Busy
<1>3. Told(a, p) /\ Decided(c) /\ Marked(p, "pending", c.entry) /\ p \in Here /\ Apart(p)
      /\ old.line = None /\ c.previous = None
  BY <1>2, LoneTells DEF Work, Marked
<1>4. PaymentIs(p, old.value, old.date, [state |-> "rejected", entry |-> c.entry], old.line)
      /\ UNCHANGED <<void, bank, entry, undone>> /\ Carries(a, "refused")
  BY <1>1, <1>3 DEF RefuseIs
<1>5. OnlyOf(p)
  BY <1>4, OnlyPayment DEF PaymentIs
<1>6. call'[a] # Idle /\ call'[a].p = p /\ call'[a].at = "refused" /\ Others(a)
      /\ call'[a].entry = c.entry /\ call'[a].previous = c.previous
  BY <1>4 DEF Carries, Turns
<1>7. p \in Here' /\ payment'[p].line = None
      /\ payment'[p].late = [state |-> "rejected", entry |-> call'[a].entry]
  BY <1>2, <1>3, <1>4, <1>6 DEF PaymentIs, Here
<1>8. Decided(call[a])'
  BY <1>3, <1>4, <1>6 DEF Decided
<1>9. Work(call[a])'
  BY <1>3, <1>6, <1>7, <1>8 DEF Work, Marked
<1>10. \A f \in Entries : Waits(f)' /\ entry'[f].of = p => f \in undone'
  BY <1>2, <1>3, <1>4, Claimed DEF Deciding, Waits
<1>11. Reaches(a, p)
  BY <1>2, <1>3, <1>4, <1>5, <1>6, <1>7, <1>9, <1>10, OnlyApart DEF Reaches, Told
<1> QED
  BY <1>2, <1>5, <1>11, LoneStep

LEMMA LoneDeleteRefused ==
  ASSUME IInv, Lone, NEW a \in Actors, NEW p, p = call[a].p, DeleteRefused(a) PROVE Lone'
<1> DEFINE c == call[a]
<1>1. DeleteRefusedIs(a, p)
  BY DeleteRefusedDoes
<1>2. c # Idle /\ p \in Payments /\ c.at = "refused"
  BY <1>1 DEF DeleteRefusedIs, Busy
<1>3. Told(a, p) /\ Decided(c) /\ Marked(p, "rejected", c.entry) /\ p \in Here /\ Apart(p)
      /\ payment[p].line = None /\ c.previous = None
  BY <1>2, LoneTells DEF Work, Marked
<1>4. UNCHANGED <<void, payment, bank, entry, undone>>
  BY <1>1 DEF DeleteRefusedIs
<1>5. OnlyOf(p)
  BY <1>4, OnlyNothing
<1>6. \/ Turns(a, "delete") /\ call'[a].read = payment[p]
      \/ Carries(a, "giveBack")
  BY <1>1, <1>3 DEF DeleteRefusedIs
<1>7. call'[a] # Idle /\ call'[a].p = p /\ Others(a) /\ p \in Here'
  BY <1>3, <1>4, <1>6 DEF Carries, Turns, Here
<1>8. Work(call[a])' /\ call'[a].at \in {"delete", "giveBack"}
  <2>1. CASE Turns(a, "delete") /\ call'[a].read = payment[p]
    BY <1>3, <1>4, <1>7, <2>1 DEF Work, Turns, Loose
  <2>2. CASE Carries(a, "giveBack")
    <3>1. call'[a].at = "giveBack" /\ call'[a].entry = c.entry /\ call'[a].previous = c.previous
      BY <2>2 DEF Carries, Turns
    <3>2. Decided(call[a])' /\ Marked(p, "rejected", call[a].entry)'
      BY <1>3, <1>4, <1>7, <3>1 DEF Decided, Marked
    <3> QED
      BY <1>3, <1>4, <1>7, <2>2, <3>1, <3>2 DEF Work
  <2> QED
    BY <1>6, <2>1, <2>2
<1>9. \A f \in Entries : Waits(f)' /\ entry'[f].of = p => f \in undone'
  BY <1>2, <1>3, <1>4, Claimed DEF Deciding, Waits
<1>10. Reaches(a, p)
  BY <1>2, <1>3, <1>4, <1>5, <1>7, <1>8, <1>9, OnlyApart DEF Reaches, Told
<1> QED
  BY <1>2, <1>5, <1>10, LoneStep

LEMMA LoneGiveBack ==
  ASSUME IInv, Lone, NEW a \in Actors, NEW p, p = call[a].p, GiveBack(a) PROVE Lone'
<1> DEFINE e == call[a].entry
<1>1. GiveBackIs(a, p)
  BY GiveBackDoes
<1>2. call[a] # Idle /\ p \in Payments /\ call[a].at = "giveBack" /\ e \in Entries
  BY <1>1 DEF GiveBackIs, Busy
<1>3. Told(a, p) /\ Decided(call[a]) /\ Marked(p, "rejected", e) /\ p \in Here /\ Apart(p)
      /\ payment[p].line = None /\ call[a].previous = None
  BY <1>2, LoneTells DEF Work, Marked
<1>4. UNCHANGED <<void, payment, bank>> /\ Ends(a) /\ Marks(e, "pending")
      /\ undone' = undone \cup {e}
  BY <1>1 DEF GiveBackIs
<1>5. OnlyOf(p)
  BY <1>2, <1>3, <1>4, OnlyMarked DEF Decided
<1>6. payment'[p].late = [state |-> "rejected", entry |-> e] /\ payment'[p].line = None
      /\ p \in Here'
  BY <1>3, <1>4 DEF Marked, Here
<1>7. LateRests(p)'
  <2>1. ASSUME NEW f, f = e PROVE entry'[f] # None /\ Returned(p, f)'
    BY <1>3, <1>4, <2>1 DEF Marks, Decided, Returned
  <2> QED
    BY <1>6, <2>1 DEF LateRests
<1>8. LineRests(p)'
  <2>1. [state |-> "rejected", entry |-> e] # None
    BY <1>2, NoneAssumption DEF Asked
  <2>2. TurnedDown(p)' /\ ~IsAsked(payment[p].late)'
    BY <1>4, <1>6, <2>1 DEF TurnedDown, IsAsked
  <2> QED
    BY <1>6, <2>2 DEF LineRests
<1>9. \A f \in Entries : Waits(f)' /\ entry'[f].of = p => f \in undone'
  <2> SUFFICES ASSUME NEW f \in Entries, Waits(f)', entry'[f].of = p, f # e PROVE f \in undone
    BY <1>4
  <2>1. Waits(f) /\ entry[f].of = p
    BY <1>4 DEF Marks, Waits
  <2> QED
    BY <1>2, <1>3, <2>1, Claimed DEF Deciding, Waits
<1>10. Reaches(a, p)
  BY <1>2, <1>3, <1>4, <1>5, <1>6, <1>7, <1>8, <1>9, OnlyApart DEF Reaches, Ends, Rests, Told
<1> QED
  BY <1>2, <1>5, <1>10, LoneStep

----------------------------------------------------------------------------
(* What calls are about was given out. *)

LEMMA InitIds == Init => Ids
  BY DEF Init, Ids, Here, Idle

LEMMA IdsStep ==
  ASSUME IInv, Ids, NEW a \in Actors, NEW p, p \in used', OtherPayments(p), Others(a),
         used \subseteq used',
         \A l \in Lines : bank'[l] # None => bank[l] # None \/ l \in used',
         p \in Here' /\ payment'[p].line # None => payment'[p].line \in used',
         \A e \in Entries : entry'[e] # None =>
            entry'[e].of = p \/ (entry[e] # None /\ entry'[e].of = entry[e].of),
         call'[a] # Idle =>
            /\ call'[a].p = p
            /\ call'[a].at = "link" /\ call'[a].line # None => call'[a].line \in used'
  PROVE  Ids'
<1>1. \A q \in Here' : q # p => q \in Here /\ payment'[q] = payment[q]
  BY DEF OtherPayments, Here
<1>2. \A q \in Here' : q \in used' /\ (payment'[q].line # None => payment'[q].line \in used')
  BY <1>1 DEF Ids
<1>3. \A b \in Actors : call'[b] # Idle =>
        /\ call'[b].p \in used'
        /\ call'[b].at = "link" /\ call'[b].line # None => call'[b].line \in used'
  BY DEF Others, Ids
<1> QED
  BY <1>2, <1>3 DEF Ids

\* No line is made, and the payment keeps its own or has none.
LEMMA IdsSame ==
  ASSUME IInv, Ids, NEW a \in Actors, NEW p, p = call[a].p, call[a] # Idle,
         OtherPayments(p), Others(a),
         p \in Here' =>
            payment'[p].line = None \/ (p \in Here /\ payment'[p].line = payment[p].line),
         \A l \in Lines : bank'[l] # None => bank[l] # None,
         \A e \in Entries : entry'[e] # None =>
            entry'[e].of = p \/ (entry[e] # None /\ entry'[e].of = entry[e].of),
         used' = used,
         call'[a] # Idle => call'[a].p = p /\ (call'[a].at = "link" => call'[a].line = None)
  PROVE  Ids'
<1>1. p \in used' /\ used \subseteq used'
  BY DEF Ids
<1>2. p \in Here' /\ payment'[p].line # None => payment'[p].line \in used'
  BY DEF Ids
<1>3. call'[a] # Idle =>
        /\ call'[a].p = p
        /\ call'[a].at = "link" /\ call'[a].line # None => call'[a].line \in used'
  OBVIOUS
<1> QED
  BY <1>1, <1>2, <1>3, IdsStep

LEMMA IdsMarked ==
  ASSUME NEW e \in Entries, entry[e] # None, NEW state, Marks(e, state)
  PROVE  \A f \in Entries : entry'[f] # None => entry[f] # None /\ entry'[f].of = entry[f].of
  BY DEF Marks

LEMMA ContinueIds ==
  ASSUME IInv, Ids, NEW a \in Actors, Continue(a) PROVE Ids'
<1> SUFFICES ASSUME NEW p, p = call[a].p PROVE Ids'
  OBVIOUS
<1>0. call[a].at \in Deciding \cup {"asked", "claim"} =>
        call[a].entry \in Entries /\ entry[call[a].entry] # None
  <2>1. ASSUME call[a].at \in Deciding \cup {"asked", "claim"} PROVE call[a].entry \in Entries
    <3>1. Shaped(call[a])
      BY <2>1, BusyAt DEF Deciding, Steps
    <3> QED
      BY <2>1, <3>1 DEF Shaped
  <2> QED
    BY <2>1 DEF IInv, EntriesAreThere
<1>1. CASE SaveRecord(a)
  <2>1. SaveRecordIs(a, p)
    BY <1>1, SaveRecordDoes
  <2> QED
    BY <2>1, IdsSame DEF SaveRecordIs, Busy, Turns
<1>2. CASE SaveEdit(a)
  <2>1. SaveEditIs(a, p)
    BY <1>2, SaveEditDoes
  <2>2. CASE payment' = payment /\ Ends(a)
    BY <2>1, <2>2, IdsSame DEF SaveEditIs, Busy, Ends, OtherPayments, Here
  <2>3. CASE payment' # payment \/ ~Ends(a)
    <3>1. OtherPayments(p) /\ payment'[p].line = payment[p].line /\ Here = call[a].ids
          /\ call'[a] # Idle /\ call'[a].p = p /\ call'[a].at # "link" /\ Others(a)
      BY <2>1, <2>3 DEF SaveEditIs, PaymentIs, Turns
    <3>2. p \in Here
      <4>1. Shaped(call[a]) /\ call[a].at = "edit"
        BY <2>1, BusyAt DEF SaveEditIs, Steps
      <4> QED
        BY <3>1, <4>1 DEF Shaped
    <3> QED
      BY <2>1, <3>1, <3>2, IdsSame DEF SaveEditIs, Busy
  <2> QED
    BY <2>2, <2>3
<1>3. CASE SaveDelete(a)
  <2>1. SaveDeleteIs(a, p)
    BY <1>3, SaveDeleteDoes
  <2> QED
    BY <2>1, IdsSame DEF SaveDeleteIs, Busy, Carries, Turns, Here
<1>4. CASE RemoveLine(a)
  <2>1. RemoveLineIs(a, p)
    BY <1>4, RemoveLineDoes
  <2> QED
    BY <2>1, IdsSame DEF RemoveLineIs, Busy, Turns, Removes, OtherPayments, Here
<1>5. CASE Reask(a)
  <2>1. ReaskIs(a, p)
    BY <1>5, ReaskDoes
  <2> QED
    BY <2>1, IdsSame DEF ReaskIs, Busy, Carries, Turns, Withdraws, OtherPayments, Here
<1>6. CASE Ask(a)
  <2>1. AskIs(a, p)
    BY <1>6, AskDoes
  <2>2. \A e \in Entries : entry'[e] # None =>
          entry'[e].of = p \/ (entry[e] # None /\ entry'[e].of = entry[e].of)
    BY <2>1 DEF AskIs
  <2> QED
    BY <2>1, <2>2, IdsSame DEF AskIs, Busy, Turns, OtherPayments, Here
<1>7. CASE Unask(a)
  <2>1. UnaskIs(a, p)
    BY <1>7, UnaskDoes
  <2> QED
    BY <2>1, IdsSame DEF UnaskIs, Busy, Ends, Turns, Withdraws, OtherPayments, Here
<1>8. CASE Sync(a)
  <2>1. SyncIs(a, p)
    BY <1>8, SyncDoes
  <2> QED
    BY <2>1, IdsSame DEF SyncIs, Busy, Ends, Turns, OtherPayments, Here
<1>9. CASE KeepOrRemove(a)
  <2>1. KeepOrRemoveIs(a, p)
    BY <1>9, KeepOrRemoveDoes
  <2>2. \A l \in Lines : bank'[l] # None => bank[l] # None
    BY <2>1 DEF KeepOrRemoveIs, Removes
  <2>3. /\ Others(a)
        /\ call'[a] # Idle => call'[a].p = p /\ (call'[a].at = "link" => call'[a].line = None)
    BY <2>1 DEF KeepOrRemoveIs, Ends, Turns, Carries
  <2> QED
    BY <2>1, <2>2, <2>3, IdsSame DEF KeepOrRemoveIs, Busy, OtherPayments, Here
<1>10. CASE Make(a)
  <2>1. MakeIs(a, p)
    BY <1>10, MakeDoes
  <2>2. PICK l \in Lines :
          /\ used' = used \cup {l} /\ \A m \in Lines : m # l => bank'[m] = bank[m]
          /\ Turns(a, "link") /\ call'[a].line = l
    BY <2>1 DEF MakeIs
  <2>3. p \in used
    BY <2>1 DEF MakeIs, Busy, Ids
  <2>4. p \in Here' /\ payment'[p].line # None => payment'[p].line \in used'
    BY <2>1, <2>2 DEF MakeIs, Ids, Here
  <2> QED
    BY <2>1, <2>2, <2>3, <2>4, IdsStep DEF MakeIs, Turns, OtherPayments
<1>11. CASE Link(a)
  <2>1. LinkIs(a, p)
    BY <1>11, LinkDoes
  <2>2. p \in used /\ (call[a].line # None => call[a].line \in used)
    BY <2>1 DEF LinkIs, Busy, Ids
  <2>3. p \in Here' /\ payment'[p].line # None => payment'[p].line \in used'
    BY <2>1, <2>2 DEF LinkIs, PaymentIs, Here
  <2> QED
    BY <2>1, <2>2, <2>3, IdsStep DEF LinkIs, Ends, PaymentIs, OtherPayments
<1>12. CASE StillAsked(a)
  <2>1. StillAskedIs(a, p)
    BY <1>12, StillAskedDoes
  <2>2. \A f \in Entries : entry'[f] # None => entry[f] # None /\ entry'[f].of = entry[f].of
    BY <1>0, <2>1, IdsMarked DEF StillAskedIs
  <2> QED
    BY <2>1, <2>2, IdsSame DEF StillAskedIs, Busy, Ends, Carries, Turns, OtherPayments, Here
<1>13. CASE Claim(a)
  <2>1. ClaimIs(a, p)
    BY <1>13, ClaimDoes
  <2>2. \A f \in Entries : entry'[f] # None => entry[f] # None /\ entry'[f].of = entry[f].of
    BY <1>0, <2>1, IdsMarked DEF ClaimIs
  <2> QED
    BY <2>1, <2>2, IdsSame
       DEF ClaimIs, Busy, Ends, Carries, Turns, OtherPayments, Here, Applying
<1>14. CASE Apply(a)
  <2>1. ApplyIs(a, p)
    BY <1>14, ApplyDoes
  <2> QED
    BY <2>1, IdsSame DEF ApplyIs, Busy, Ends, Turns, OtherPayments, Here
<1>15. CASE SaveApplied(a)
  <2>1. SaveAppliedIs(a, p)
    BY <1>15, SaveAppliedDoes
  <2>2. p \in Here' => p \in Here /\ payment'[p].line = payment[p].line
    <3>1. Shaped(call[a]) /\ call[a].at = "saveApplied"
      BY <2>1, BusyAt DEF SaveAppliedIs, Steps
    <3> QED
      BY <2>1, <3>1 DEF SaveAppliedIs, Shaped, PaymentIs, Here
  <2> QED
    BY <2>1, <2>2, IdsSame DEF SaveAppliedIs, Busy, Carries, Turns, PaymentIs, OtherPayments
<1>16. CASE Refuse(a)
  <2>1. RefuseIs(a, p)
    BY <1>16, RefuseDoes
  <2> QED
    BY <2>1, IdsSame DEF RefuseIs, Busy, Carries, Turns, PaymentIs, OtherPayments, Here
<1>17. CASE DeleteRefused(a)
  <2>1. DeleteRefusedIs(a, p)
    BY <1>17, DeleteRefusedDoes
  <2> QED
    BY <2>1, IdsSame DEF DeleteRefusedIs, Busy, Carries, Turns, OtherPayments, Here
<1>18. CASE GiveBack(a)
  <2>1. GiveBackIs(a, p)
    BY <1>18, GiveBackDoes
  <2>2. \A f \in Entries : entry'[f] # None => entry[f] # None /\ entry'[f].of = entry[f].of
    BY <1>0, <2>1, IdsMarked DEF GiveBackIs, Deciding
  <2> QED
    BY <2>1, <2>2, IdsSame DEF GiveBackIs, Busy, Ends, OtherPayments, Here
<1> QED
  BY <1>1, <1>2, <1>3, <1>4, <1>5, <1>6, <1>7, <1>8, <1>9, <1>10, <1>11, <1>12, <1>13, <1>14,
     <1>15, <1>16, <1>17, <1>18 DEF Continue

----------------------------------------------------------------------------
(* A call that begins when none is in progress. *)

LEMMA WorkStarts ==
  ASSUME NEW a, NEW r, call'[a] = r, r.at \in {"record", "edit", "delete", "asked"}, Work(r),
         UNCHANGED <<void, payment, bank, entry, undone>>
  PROVE  Work(call[a])'
<1>1. Here' = Here
  BY DEF Here
<1>2. \A p \in Here : Rests(p) => Rests(p)'
  BY DEF Rests, LineRests, LateRests, Waits, Returned, TurnedDown
<1>3. CASE r.at = "edit"
  BY <1>1, <1>2, <1>3 DEF Work, EditReads, Loose
<1>4. CASE r.at = "record"
  BY <1>1, <1>4 DEF Work
<1>5. CASE r.at = "delete"
  BY <1>1, <1>5 DEF Work, Loose
<1>6. CASE r.at = "asked"
  BY <1>1, <1>2, <1>6 DEF Work, Decided, Waits
<1> QED
  BY <1>3, <1>4, <1>5, <1>6

LEMMA StartOne ==
  ASSUME IInv, Ids, OneInv, NEW a \in Actors, NEW r, Begin(a, r),
         UNCHANGED <<void, payment, bank, entry, undone>>, used \subseteq used', r.p \in used',
         r.at \in {"record", "edit", "delete", "asked"},
         Lone /\ (\A q \in Here : Rests(q)) => Work(r)
  PROVE  OneInv' /\ Ids'
<1>1. call'[a] = r /\ Others(a)
  BY DEF Begin, Others, IInv, TypeOK
<1>2. Ids'
  BY <1>1 DEF Ids, Here, Others
<1>3. ASSUME ~raced' PROVE Lone'
  <2>1. \A b \in Actors : call[b] = Idle
    BY <1>3 DEF Begin, Together
  <2>2. Lone
    BY <1>3 DEF OneInv, Begin
  <2>3. \A q \in Here : Rests(q)
    BY <2>1, <2>2 DEF Lone, Untouched
  <2>4. Work(call[a])'
    BY <1>1, <2>2, <2>3, WorkStarts
  <2> QED
    BY <1>1, <2>1, <2>2, <2>4, LoneStart
<1> QED
  BY <1>2, <1>3 DEF OneInv

LEMMA OneRecord ==
  ASSUME IInv, Ids, OneInv, NEW a \in Actors, NEW p \in Payments, NEW value \in Values,
         NEW date \in Dates, Record(a, p, value, date)
  PROVE  OneInv' /\ Ids'
<1> DEFINE r == [About(p, "record") EXCEPT !.value = value, !.date = date]
<1>1. r.at = "record" /\ r.p = p
  BY DEF About
<1> HIDE DEF r
<1>2. Begin(a, r) /\ UNCHANGED <<void, payment, bank, entry, undone>>
      /\ used' = used \cup {p} /\ p \notin used
  BY DEF Record, r
<1>3. Work(r)
  BY <1>1, <1>2 DEF Work, Ids
<1> QED
  BY <1>1, <1>2, <1>3, StartOne

LEMMA OneRecordLate ==
  ASSUME IInv, Ids, OneInv, NEW a \in Actors, NEW p \in Payments, NEW e \in Entries,
         NEW value \in Values, NEW date \in Dates, RecordLate(a, p, e, value, date)
  PROVE  OneInv' /\ Ids'
<1> DEFINE r == [About(p, "record") EXCEPT !.value = value, !.date = date, !.entry = e]
<1>1. r.at = "record" /\ r.p = p
  BY DEF About
<1> HIDE DEF r
<1>2. Begin(a, r) /\ UNCHANGED <<void, payment, bank, entry, undone>> /\ used' = used \cup {p, e}
      /\ p \notin used
  BY DEF RecordLate, r
<1>3. Work(r)
  BY <1>1, <1>2 DEF Work, Ids
<1> QED
  BY <1>1, <1>2, <1>3, StartOne

LEMMA OneEdit ==
  ASSUME IInv, Ids, OneInv, NEW a \in Actors, NEW p \in Payments, NEW value \in Values,
         NEW date \in Dates, Edit(a, p, value, date)
  PROVE  OneInv' /\ Ids'
<1> DEFINE gone == /\ date # payment[p].date
                   /\ payment[p].late # None /\ payment[p].late.state # "approved"
           was  == Editing(p, value, date)
           r    == [was EXCEPT !.cleared = gone]
<1>1. was \in Call /\ p \in Here
  BY EditingIsCall DEF Edit, MayEdit
<1>2. /\ was.at = "edit" /\ was.p = p /\ was.value = value /\ was.date = date
      /\ was.read = payment[p] /\ was.ids = Here /\ was.late = None /\ was.entry = None
  BY DEF Editing, About
<1>3. Begin(a, r) /\ UNCHANGED <<void, payment, bank, entry, used, undone>>
      /\ (value.lands # payment[p].value.lands \/ date # payment[p].date => Loose(payment[p].line))
  BY DEF Edit, MayEdit, Movable, Loose
<1> HIDE DEF was
<1>4. /\ r.at = "edit" /\ r.p = p /\ r.value = value /\ r.date = date
      /\ r.read = payment[p] /\ r.ids = Here /\ r.late = None /\ r.entry = None
      /\ r.cleared = gone
  BY <1>1, <1>2 DEF Call
<1> HIDE DEF r
<1>5. ASSUME \A q \in Here : Rests(q) PROVE Work(r)
  <2>1. EditReads(r)
    BY <1>1, <1>3, <1>4, <1>5 DEF EditReads
  <2> QED
    BY <1>4, <2>1 DEF Work
<1> QED
  BY <1>1, <1>3, <1>4, <1>5, StartOne DEF Ids

LEMMA OneEditLate ==
  ASSUME IInv, Ids, OneInv, NEW a \in Actors, NEW p \in Payments, NEW e \in Entries,
         NEW value \in Values, NEW date \in Dates, EditLate(a, p, e, value, date)
  PROVE  OneInv' /\ Ids'
<1> DEFINE was == Editing(p, value, date)
           sub == [state |-> "pending", entry |-> e]
           r   == [was EXCEPT !.entry = e, !.late = sub, !.previous = Before(p)]
<1>1. was \in Call /\ p \in Here
  BY EditingIsCall DEF EditLate, MayEdit
<1>2. /\ was.at = "edit" /\ was.p = p /\ was.value = value /\ was.date = date
      /\ was.read = payment[p] /\ was.ids = Here /\ was.cleared = FALSE
  BY DEF Editing, About
<1>3. Begin(a, r) /\ UNCHANGED <<void, payment, bank, entry, undone>> /\ used' = used \cup {e}
      /\ date # payment[p].date /\ (payment[p].late # None => payment[p].late.state # "rejected")
      /\ (value.lands # payment[p].value.lands \/ date # payment[p].date => Loose(payment[p].line))
  BY DEF EditLate, MayEdit, Movable, Loose
<1> HIDE DEF was
<1>4. /\ r.at = "edit" /\ r.p = p /\ r.value = value /\ r.date = date
      /\ r.read = payment[p] /\ r.ids = Here /\ r.late = sub /\ r.entry = e
      /\ r.cleared = FALSE
  BY <1>1, <1>2 DEF Call
<1> HIDE DEF r
<1>5. ASSUME \A q \in Here : Rests(q) PROVE Work(r)
  <2>1. e # None
    BY NoneAssumption
  <2>2. EditReads(r)
    BY <1>1, <1>3, <1>4, <1>5, <2>1 DEF EditReads
  <2> QED
    BY <1>4, <2>2 DEF Work
<1> QED
  BY <1>1, <1>3, <1>4, <1>5, StartOne DEF Ids

LEMMA OneDelete ==
  ASSUME IInv, Ids, OneInv, NEW a \in Actors, NEW p \in Payments, Delete(a, p)
  PROVE  OneInv' /\ Ids'
<1> DEFINE r == [About(p, "delete") EXCEPT !.read = payment[p]]
<1>1. r.at = "delete" /\ r.p = p /\ r.read = payment[p]
  BY DEF About
<1> HIDE DEF r
<1>2. Begin(a, r) /\ UNCHANGED <<void, payment, bank, entry, used, undone>> /\ p \in Here /\ Movable(p)
  BY DEF Delete, r
<1>3. Work(r)
  BY <1>1, <1>2 DEF Work, Movable, Loose
<1> QED
  BY <1>1, <1>2, <1>3, StartOne DEF Ids

LEMMA OneDecide ==
  ASSUME IInv, Ids, OneInv, NEW a \in Actors, NEW e \in Entries,
         NEW decision \in {"approved", "rejected"}, Decide(a, e, decision)
  PROVE  OneInv' /\ Ids'
<1> DEFINE r == [About(entry[e].of, "asked") EXCEPT !.entry = e, !.decision = decision,
                                                    !.previous = entry[e].previous]
<1>1. r.at = "asked" /\ r.p = entry[e].of /\ r.entry = e /\ r.previous = entry[e].previous
  BY DEF About
<1> HIDE DEF r
<1>2. Begin(a, r) /\ UNCHANGED <<void, payment, bank, entry, used, undone>>
      /\ entry[e] # None /\ entry[e].state = "pending"
  BY DEF Decide, r
<1>3. ASSUME \A q \in Here : Rests(q) PROVE Work(r)
  BY <1>1, <1>2, <1>3 DEF Work, Decided, Waits
<1> QED
  BY <1>1, <1>2, <1>3, StartOne DEF Ids

----------------------------------------------------------------------------
(* What happens around a call, when none is in progress. *)

LEMMA LoneAround ==
  ASSUME IInv, Lone, \A a \in Actors : call[a] = Idle, UNCHANGED <<payment, call, undone>>,
         \A l \in Lines : bank'[l] # None => bank[l] # None,
         \A l \in Lines : bank[l] # None =>
            bank'[l] # None /\ bank'[l].value = bank[l].value /\ bank'[l].date = bank[l].date,
         \A e \in Entries : Waits(e)' => Waits(e) /\ entry'[e].of = entry[e].of,
         \A e \in Entries : Waits(e) =>
            (Waits(e)' /\ entry'[e].of = entry[e].of) \/ ~WaitsOn(entry[e].of, e),
         \A e \in Entries : entry[e] # None =>
            entry'[e] # None /\ entry'[e].previous = entry[e].previous
  PROVE  Lone'
<1>1. Alone' /\ (\A a \in Actors : call'[a] = Idle) /\ Here' = Here
  BY DEF Alone, Here
<1>2. ASSUME NEW q \in Here PROVE Apart(q)' /\ Rests(q)'
  <2>1. Apart(q) /\ Rests(q) /\ payment[q] \in Payment
    BY PaymentFields DEF Lone, Untouched
  <2>2. payment[q].line # None => payment[q].line \in Lines
    BY <2>1 DEF Payment
  <2>3. LineRests(q)'
    BY <2>1, <2>2 DEF Rests, LineRests, Same, TurnedDown
  <2>4. ASSUME NEW f, f = payment[q].late.entry, payment[q].late # None
        PROVE  /\ payment[q].late.state = "pending" => Waits(f)' /\ entry'[f].of = q
               /\ payment[q].late.state = "rejected" =>
                    entry'[f] # None /\ Returned(q, f)'
    <3>1. f \in Entries /\ payment[q].late = [state |-> payment[q].late.state, entry |-> f]
      BY <2>1, <2>4 DEF Payment, Asked
    <3>2. payment[q].late.state = "pending" =>
            Waits(f) /\ WaitsOn(entry[f].of, f) /\ entry[f].of = q
      BY <2>1, <2>4, <3>1 DEF Rests, LateRests, WaitsOn
    <3> QED
      BY <2>1, <2>4, <3>1, <3>2 DEF Rests, LateRests, Returned
  <2>5. LateRests(q)'
    BY <2>4 DEF LateRests
  <2> QED
    BY <1>1, <2>1, <2>3, <2>5 DEF Rests, Apart
<1>3. \A l \in Lines : bank'[l] # None => \E q \in Here : payment[q].line = l
  BY DEF Lone, Idle
<1>4. ASSUME NEW e \in Entries, Waits(e)' PROVE e \in undone' \/ WaitsOn(entry[e].of, e)'
  <2>1. Waits(e) /\ entry'[e].of = entry[e].of
    BY <1>4
  <2>2. e \in undone \/ WaitsOn(entry[e].of, e)
    BY <2>1 DEF Lone, Idle
  <2> QED
    BY <1>1, <2>1, <2>2 DEF WaitsOn
<1> QED
  BY <1>1, <1>2, <1>3, <1>4 DEF Lone

LEMMA OneVoidOrRestore == ASSUME IInv, Ids, OneInv, Void \/ Restore PROVE OneInv' /\ Ids'
<1>1. UNCHANGED <<payment, bank, entry, used, call, undone>> /\ raced' = (raced \/ Together)
  BY DEF Void, Restore
<1>2. Ids'
  BY <1>1 DEF Ids, Here
<1>3. ASSUME ~raced' PROVE Lone'
  <2>1. Lone /\ \A a \in Actors : call[a] = Idle
    BY <1>1, <1>3 DEF OneInv, Together
  <2> QED
    BY <1>1, <2>1, LoneAround DEF Waits
<1> QED
  BY <1>2, <1>3 DEF OneInv

LEMMA ReconcileDoes ==
  ASSUME IInv, NEW l \in Lines, Reconcile(l)
  PROVE  /\ bank[l] # None /\ bank'[l] # None
         /\ bank'[l].value = bank[l].value /\ bank'[l].date = bank[l].date
         /\ \A m \in Lines : m # l => bank'[m] = bank[m]
         /\ UNCHANGED <<void, payment, entry, used, call, undone>> /\ raced' = (raced \/ Together)
<1> DEFINE new == [bank[l] EXCEPT !.reconciled = ~@]
<1>1. bank[l] \in Line /\ bank[l] # None /\ bank' = [bank EXCEPT ![l] = new]
  BY DEF Reconcile, IInv, TypeOK
<1>2. new \in Line /\ new.value = bank[l].value /\ new.date = bank[l].date
  BY <1>1 DEF Line
<1> HIDE DEF new
<1>3. bank'[l] = new /\ \A m \in Lines : m # l => bank'[m] = bank[m]
  BY <1>1 DEF IInv, TypeOK
<1>4. new # None
  BY <1>2, NoneAssumption
<1> QED
  BY <1>1, <1>2, <1>3, <1>4 DEF Reconcile

LEMMA OneReconcile == ASSUME IInv, Ids, OneInv, NEW l \in Lines, Reconcile(l) PROVE OneInv' /\ Ids'
<1>1. Ids'
  BY ReconcileDoes DEF Ids, Here
<1>2. ASSUME ~raced' PROVE Lone'
  <2>1. Lone /\ \A a \in Actors : call[a] = Idle
    BY <1>2, ReconcileDoes DEF OneInv, Together
  <2>2. \A m \in Lines : bank[m] # None =>
          bank'[m] # None /\ bank'[m].value = bank[m].value /\ bank'[m].date = bank[m].date
    BY ReconcileDoes
  <2>3. \A m \in Lines : bank'[m] # None => bank[m] # None
    BY ReconcileDoes
  <2> QED
    BY <2>1, <2>2, <2>3, ReconcileDoes, LoneAround DEF Waits
<1> QED
  BY <1>1, <1>2 DEF OneInv

LEMMA OneSweep == ASSUME IInv, Ids, OneInv, NEW e \in Entries, Sweep(e) PROVE OneInv' /\ Ids'
<1>1. /\ entry[e] # None /\ ~WaitsOn(entry[e].of, e)
      /\ entry' = [entry EXCEPT ![e].state = "withdrawn"]
      /\ UNCHANGED <<void, payment, bank, used, call, undone>> /\ raced' = (raced \/ Together)
  BY DEF Sweep
<1>2. Marks(e, "withdrawn")
  <2>1. entry'[e] # None
    BY <1>1, Marking
  <2> QED
    BY <1>1, <2>1, MarkingIs
<1>3. Ids'
  BY <1>1, <1>2, IdsMarked DEF Ids, Here
<1>4. ASSUME ~raced' PROVE Lone'
  <2>1. Lone /\ \A a \in Actors : call[a] = Idle
    BY <1>1, <1>4 DEF OneInv, Together
  <2>2. \A f \in Entries : Waits(f)' => Waits(f) /\ entry'[f].of = entry[f].of
    BY <1>2 DEF Marks, Waits
  <2>3. \A f \in Entries : Waits(f) =>
          (Waits(f)' /\ entry'[f].of = entry[f].of) \/ ~WaitsOn(entry[f].of, f)
    BY <1>1, <1>2 DEF Marks, Waits
  <2>4. \A f \in Entries : entry[f] # None =>
          entry'[f] # None /\ entry'[f].previous = entry[f].previous
    BY <1>2 DEF Marks
  <2> QED
    BY <1>1, <2>1, <2>2, <2>3, <2>4, LoneAround
<1> QED
  BY <1>3, <1>4 DEF OneInv

----------------------------------------------------------------------------
LEMMA InitOne == Init => OneInv
<1> SUFFICES ASSUME Init PROVE Lone
  BY DEF OneInv
<1>1. \A a \in Actors : call[a] = Idle
  BY DEF Init
<1>2. Here = {} /\ (\A l \in Lines : bank[l] = None) /\ \A e \in Entries : entry[e] = None
  BY DEF Init, Here
<1> QED
  BY <1>1, <1>2 DEF Lone, Alone, Waits

LEMMA ContinueLone ==
  ASSUME IInv, Ids, Lone, NEW a \in Actors, Continue(a)
  PROVE  Lone'
  BY LoneSaveRecord, LoneSaveEdit, LoneSaveDelete, LoneRemoveLine, LoneReask, LoneAsk,
     LoneUnask, LoneSync, LoneKeepOrRemove, LoneMake, LoneLink, LoneStillAsked, LoneClaim,
     LoneApply, LoneSaveApplied, LoneRefuse, LoneDeleteRefused, LoneGiveBack
     DEF Continue

LEMMA ContinueRaced == ASSUME NEW a \in Actors, Continue(a) PROVE raced' = raced
  BY DEF Continue, SaveRecord, SaveEdit, SaveDelete, RemoveLine, Reask, Ask, Unask, Sync,
     KeepOrRemove, Make, Link, StillAsked, Claim, Apply, SaveApplied, Refuse, DeleteRefused,
     GiveBack

LEMMA OneUnchanged ==
  ASSUME OneInv, Ids, UNCHANGED <<void, payment, bank, entry, used, call, raced, undone>>
  PROVE  OneInv' /\ Ids'
<1>1. Here' = Here
  BY DEF Here
<1>2. ASSUME NEW p
      PROVE  /\ LineRests(p) => LineRests(p)'
             /\ LateRests(p) => LateRests(p)'
             /\ Apart(p) => Apart(p)'
             /\ Untouched(p)' => Untouched(p)
  BY <1>1 DEF LineRests, LateRests, Waits, Apart, Untouched, Returned, TurnedDown
<1>3. ASSUME NEW a \in Actors, Work(call[a]) PROVE Work(call[a])'
  <2>1. \A p : Rests(p) => Rests(p)'
    BY <1>2 DEF Rests
  <2>2. \A p : Syncs(p) => Syncs(p)'
    BY <1>1, <1>2 DEF Syncs, Loose, Lands
  <2>3. call[a].at = "edit" => EditReads(call[a])'
    <3> SUFFICES ASSUME call[a].at = "edit" PROVE EditReads(call[a])'
      OBVIOUS
    <3>1. EditReads(call[a])
      BY <1>3 DEF Work
    <3> QED
      BY <1>1, <2>1, <3>1 DEF EditReads, Loose
  <2>4. call[a].at \in {"sync", "line"} => Syncs(call[a].p)'
    BY <1>3, <2>2 DEF Work
  <2>5. call[a].at \in {"asked", "claim"} /\ call[a].p \in Here => Rests(call[a].p)'
    BY <1>3, <2>1 DEF Work
  <2>6. call[a].at \in {"make", "link"} => LateRests(call[a].p)'
    BY <1>2, <1>3 DEF Work
  <2> DEFINE first == {"record", "edit", "delete", "removeLine", "forget", "reask", "ask", "unask"}
  <2>7. CASE call[a].at \in first
    BY <1>1, <1>3, <2>3, <2>7 DEF Work, Loose, Marked, Waits
  <2>8. CASE call[a].at \in {"sync", "line", "make", "link"}
    BY <1>1, <1>3, <2>4, <2>6, <2>8 DEF Work, Gone
  <2>9. CASE call[a].at \notin first \cup {"sync", "line", "make", "link"}
    BY <1>1, <1>3, <2>5, <2>9 DEF Work, Marked, Waits, Decided
  <2> QED
    BY <2>7, <2>8, <2>9
<1>4. ASSUME Lone PROVE Lone'
  <2>1. Alone'
    BY <1>4 DEF Lone, Alone
  <2>2. \A a \in Actors : call'[a] # Idle => Work(call[a])'
    BY <1>3, <1>4 DEF Lone
  <2>3. \A p \in Here' : Apart(p)' /\ (Untouched(p)' => Rests(p)')
    BY <1>1, <1>2, <1>4 DEF Lone, Rests
  <2> QED
    BY <1>1, <1>4, <2>1, <2>2, <2>3 DEF Lone, Waits, WaitsOn
<1> QED
  BY <1>1, <1>4 DEF OneInv, Ids

LEMMA NextOne == IInv /\ Ids /\ OneInv /\ [Next]_vars => OneInv' /\ Ids'
<1> SUFFICES ASSUME IInv, Ids, OneInv, [Next]_vars PROVE OneInv' /\ Ids'
  OBVIOUS
<1>1. ASSUME NEW a \in Actors, Start(a) PROVE OneInv' /\ Ids'
  BY <1>1, OneRecord, OneRecordLate, OneEdit, OneEditLate, OneDelete, OneDecide DEF Start
<1>2. ASSUME NEW a \in Actors, Continue(a) PROVE OneInv' /\ Ids'
  BY <1>2, ContinueLone, ContinueRaced, ContinueIds DEF OneInv
<1>3. CASE UNCHANGED vars
  BY <1>3, OneUnchanged DEF vars
<1> QED
  BY <1>1, <1>2, <1>3, OneVoidOrRestore, OneReconcile, OneSweep DEF Next

LEMMA OneAtATime == Spec => [](OneInv /\ Ids)
  BY InitIds, InitOne, Invariance, NextOne, PTL DEF Spec

LEMMA SettledRests ==
  ASSUME OneInv, Settled
  PROVE  /\ \A p \in Here : Rests(p)
         /\ \A l \in Lines : bank[l] # None => \E p \in Here : payment[p].line = l
         /\ \A e \in Entries : Waits(e) => e \in undone \/ WaitsOn(entry[e].of, e)
<1>1. Lone /\ \A a \in Actors : call[a] = Idle
  BY DEF OneInv, Settled
<1> QED
  BY <1>1 DEF Lone, Untouched, Idle

\* syncPaymentLine, for any number of payments, and however often the invoice is
\* voided and restored: while calls are made one at a time, the account holds
\* exactly a line for each payment, with what the payment says, but those that
\* wait for a manager and those turned down that could not be deleted.
THEOREM LineForEachPayment == Spec => []LinesFollow
<1>1. OneInv => LinesFollow
  BY SettledRests DEF LinesFollow, Rests, LineRests
<1> QED
  BY <1>1, OneAtATime, PTL

\* openLateEntry, withdrawLateFor and decideLateEntry: while calls are made one at
\* a time, managers are shown every late entry a payment waits on, and no other
\* but those that were given back, voided and restored as the invoice may be.
THEOREM ManagersSeeWhatWaits == Spec => []AskedIsShown
<1>1. IInv /\ OneInv => AskedIsShown
  <2> SUFFICES ASSUME IInv, OneInv, Settled, NEW e \in Entries
               PROVE  LET asked == \E p \in Payments : WaitsOn(p, e)
                      IN  (asked => Waits(e)) /\ (Waits(e) => asked \/ e \in undone)
    BY DEF AskedIsShown, Waits
  <2>1. ASSUME Waits(e), e \notin undone PROVE WaitsOn(entry[e].of, e) /\ entry[e].of \in Payments
    BY <2>1, SettledRests, EntryFields DEF Entry, Waits
  <2>2. ASSUME NEW p \in Payments, WaitsOn(p, e) PROVE Waits(e)
    <3>1. p \in Here /\ LateRests(p) /\ payment[p].late = [state |-> "pending", entry |-> e]
      BY <2>2, SettledRests DEF WaitsOn, Rests
    <3>2. payment[p].late # None
      BY <3>1, NoneAssumption DEF Asked
    <3> QED
      BY <3>1, <3>2 DEF LateRests
  <2> QED
    BY <2>1, <2>2
<1> QED
  BY <1>1, Invariance, OneAtATime, PTL

\* apply, rejecting: while calls are made one at a time, a payment whose late
\* date a manager turned down is back at the date it had when that was asked, or
\* it is one entered late that could not be deleted, and its entry was given back.
THEOREM TurnedDownGoesBack == Spec => []RejectedGoes
<1>1. IInv /\ OneInv => RejectedGoes
  <2> SUFFICES ASSUME IInv, OneInv, Settled, NEW p \in Here, payment[p].late # None,
                      payment[p].late.state = "rejected"
               PROVE  LET previous == entry[payment[p].late.entry].previous IN
                        IF previous = None THEN TurnedDown(p) ELSE payment[p].date = previous
    BY DEF RejectedGoes
  <2>1. Returned(p, payment[p].late.entry)
    BY SettledRests DEF Rests, LateRests
  <2>2. payment[p].date # None
    BY PaymentFields, NoneAssumption DEF Payment
  <2> QED
    BY <2>1, <2>2 DEF Returned, TurnedDown
<1> QED
  BY <1>1, Invariance, OneAtATime, PTL

----------------------------------------------------------------------------
(* Lines that are reconciled. *)

Stand == \A l \in Lines : bank[l] # None /\ bank[l].reconciled =>
            \/ bank'[l] # None /\ Same(bank'[l], bank[l])
            \/ \E p \in Here : payment[p].line = l /\ Lands(p)

LEMMA LinesStay == ASSUME IInv, UNCHANGED bank PROVE Stand
<1>1. \A l \in Lines : bank[l] # None => bank[l] \in Line
  BY DEF IInv, TypeOK
<1> QED
  BY <1>1 DEF Stand, Same

LEMMA RemoveLooseOnly ==
  ASSUME NEW l, Removes(l), l \in Lines => Loose(l), NoneAssumption PROVE Stand
  BY DEF Stand, Removes, Loose, Same

LEMMA ContinueStands ==
  ASSUME IInv, Ids, Lone, NEW a \in Actors, Continue(a) PROVE Stand
<1> SUFFICES ASSUME NEW p, p = call[a].p PROVE Stand
  OBVIOUS
<1>1. CASE RemoveLine(a)
  <2>1. RemoveLineIs(a, p)
    BY <1>1, RemoveLineDoes
  <2>2. Loose(call[a].read.line)
    BY <2>1, LoneTells DEF RemoveLineIs, Busy, Work
  <2> QED
    BY <2>1, <2>2, RemoveLooseOnly, NoneAssumption DEF RemoveLineIs
<1>2. CASE KeepOrRemove(a)
  <2>1. KeepOrRemoveIs(a, p)
    BY <1>2, KeepOrRemoveDoes
  <2>2. Syncs(p) /\ call[a].read = payment[p]
    BY <2>1, LoneTells DEF KeepOrRemoveIs, Busy, Work
  <2>3. CASE UNCHANGED bank
    BY <2>3, LinesStay
  <2>4. CASE ~Agrees(payment[p]) /\ Removes(payment[p].line)
    <3>1. CASE Loose(payment[p].line)
      BY <2>4, <3>1, RemoveLooseOnly, NoneAssumption
    <3>2. CASE Lands(p)
      <4>1. \A l \in Lines : bank[l] # None => bank[l] \in Line
        BY DEF IInv, TypeOK
      <4> QED
        BY <2>2, <2>4, <3>2, <4>1, NoneAssumption DEF Syncs, Removes, Stand, Same
    <3> QED
      BY <2>2, <3>1, <3>2 DEF Syncs
  <2> QED
    BY <2>1, <2>2, <2>3, <2>4 DEF KeepOrRemoveIs
<1>3. CASE Make(a)
  <2>1. MakeIs(a, p)
    BY <1>3, MakeDoes
  <2>2. PICK l \in Lines : l \notin used /\ \A m \in Lines : m # l => bank'[m] = bank[m]
    BY <2>1 DEF MakeIs
  <2>3. bank[l] = None
    BY <2>2 DEF Ids
  <2> QED
    BY <2>2, <2>3 DEF Stand, Same
<1>4. CASE UNCHANGED bank
  BY <1>4, LinesStay
<1> QED
  BY <1>1, <1>2, <1>3, <1>4
     DEF Continue, SaveRecord, SaveEdit, SaveDelete, Reask, Ask, Unask, Sync, Link, StillAsked,
         Claim, Apply, SaveApplied, Refuse, DeleteRefused, GiveBack

\* assertLineMovable and syncPaymentLine: while calls are made one at a time, a
\* line that was reconciled with a bank statement stays as it is, in every step
\* of whichever call, or makes way for one of its own payment's that puts the
\* same in the account on the same date.
THEOREM ReconciledStillLands == Spec => ReconciledLands
<1>1. ASSUME IInv, Ids, OneInv, [Next]_vars, ~raced' PROVE Stand
  <2>1. ASSUME NEW a \in Actors, Continue(a) PROVE Stand
    BY <1>1, <2>1, ContinueRaced, ContinueStands DEF OneInv
  <2>2. ASSUME NEW a \in Actors, Start(a) PROVE UNCHANGED bank
    <3>1. ASSUME NEW p, NEW value, NEW date, Record(a, p, value, date) PROVE UNCHANGED bank
      BY <3>1 DEF Record
    <3>2. ASSUME NEW p, NEW value, NEW date, Edit(a, p, value, date) PROVE UNCHANGED bank
      BY <3>2 DEF Edit
    <3>3. ASSUME NEW p, NEW e, NEW value, NEW date, RecordLate(a, p, e, value, date)
          PROVE  UNCHANGED bank
      BY <3>3 DEF RecordLate
    <3>4. ASSUME NEW p, NEW e, NEW value, NEW date, EditLate(a, p, e, value, date)
          PROVE  UNCHANGED bank
      BY <3>4 DEF EditLate
    <3>5. ASSUME NEW p, Delete(a, p) PROVE UNCHANGED bank
      BY <3>5 DEF Delete
    <3>6. ASSUME NEW e, NEW decision, Decide(a, e, decision) PROVE UNCHANGED bank
      BY <3>6 DEF Decide
    <3> QED
      BY <2>2, <3>1, <3>2, <3>3, <3>4, <3>5, <3>6 DEF Start
  <2>3. ASSUME NEW l \in Lines, Reconcile(l) PROVE Stand
    BY <1>1, <2>3, ReconcileDoes DEF Stand, Same
  <2>4. CASE UNCHANGED bank
    BY <1>1, <2>4, LinesStay
  <2> QED
    BY <1>1, <2>1, <2>2, <2>3, <2>4 DEF Next, Void, Restore, Sweep, vars
<1>2. IInv /\ Ids /\ OneInv /\ [Next]_vars =>
        [~raced' => \A l \in Lines : bank[l] # None /\ bank[l].reconciled =>
                        \/ bank'[l] # None /\ Same(bank'[l], bank[l])
                        \/ \E p \in Here : /\ payment[p].line = l
                                          /\ ~IsAsked(payment[p].late)
                                          /\ payment[p].date = bank[l].date
                                          /\ payment[p].value.lands = bank[l].value.lands]_vars
  BY <1>1 DEF Stand, Lands
<1> QED
  BY <1>2, Invariance, OneAtATime, PTL DEF Spec, ReconciledLands
=============================================================================
