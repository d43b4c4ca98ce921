----------------------------- MODULE PaymentLines -----------------------------
(***************************************************************************)
(* The payments of one invoice and their lines in a bank account           *)
(* (apps/api/src/modules/invoice/payment-bank.ts, with recordPayment,      *)
(* updatePayment, deletePayment, voidInvoice and restoreInvoice of         *)
(* invoice.service.ts), and the payments entered late, that wait for a     *)
(* manager and have no line meanwhile                                      *)
(* (apps/api/src/modules/late-entry/late-entry.service.ts).                *)
(*                                                                         *)
(* A call saves the payment first, then its late entry, then its line.     *)
(* Each read or write of the database is a step.                           *)
(***************************************************************************)
EXTENDS Integers, FiniteSets

CONSTANTS
    Payments,   \* ids of payments, each given once
    Lines,      \* ids of bank lines (a payment's credit and its charges' debit are one)
    Entries,    \* ids of late entries, each given once
    Values,     \* what a payment is: [lands, charges], in the account and taken off
    DaysBack,   \* how old a payment may be dated; beyond 0 it is late
    Actors,     \* calls that may be in progress together
    None

ASSUME BoundsAssumption == DaysBack \in Nat

VARIABLES
    void,      \* the invoice is
    payment,   \* [value, date, late, line] or None
    bank,      \* each bank line: [value, date, reconciled] or None
    entry,     \* each late entry: [of, previous, state] or None
    used,      \* ids given out
    call,      \* each call, from one step to the next
    raced,     \* (for the properties) two calls were in progress at once
    undone     \* (for the properties) late entries a decision on which was given back

vars == <<void, payment, bank, entry, used, call, raced, undone>>

Dates == 0..DaysBack
Late(date) == date > 0

Asked == [state : {"pending", "approved", "rejected"}, entry : Entries]

Payment == [value : Values, date : Dates, late : Asked \cup {None}, line : Lines \cup {None}]

Line == [value : Values, date : Dates, reconciled : BOOLEAN]

Entry == [of : Payments, previous : Dates \cup {None},
          state : {"pending", "approved", "rejected", "withdrawn"}]

Steps == {"record", "edit", "reask", "ask", "unask", "delete", "removeLine", "forget",
          "sync", "line", "make", "link", "asked", "claim", "apply", "saveApplied",
          "refuse", "refused", "giveBack"}

Call == [at       : Steps,
         p        : Payments,
         value    : Values \cup {None},         \* what it is to become
         date     : Dates,
         late     : Asked \cup {None},          \* its late entry; None: it stays, unless
         cleared  : BOOLEAN,                    \* it goes
         read     : Payment \cup {None},        \* the payment as it was read
         ids      : SUBSET Payments,            \* the invoice's payments by then
         previous : Dates \cup {None},          \* the date a late entry was asked over
         entry    : Entries \cup {None},        \* the late entry asked or decided
         decision : {"approved", "rejected", None},
         line     : Lines \cup {None}]          \* the line made

Idle == [at |-> "idle"]

ASSUME NoneAssumption ==
    /\ None \notin Payments \cup Lines \cup Entries \cup Dates
    /\ None \notin Values /\ None \notin Asked /\ None \notin Payment /\ None \notin Line /\ None \notin Entry

Init ==
    /\ void = FALSE
    /\ payment = [p \in Payments |-> None]
    /\ bank = [l \in Lines |-> None]
    /\ entry = [e \in Entries |-> None]
    /\ used = {}
    /\ call = [a \in Actors |-> Idle]
    /\ raced = FALSE
    /\ undone = {}

----------------------------------------------------------------------------
Here == {p \in Payments : payment[p] # None}

Together == \E a \in Actors : call[a] # Idle

Begin(a, record) ==
    /\ call[a] = Idle
    /\ call' = [call EXCEPT ![a] = record]
    /\ raced' = (raced \/ Together)

About(p, at) == [at |-> at, p |-> p, value |-> None, date |-> 0, read |-> None, ids |-> {},
                 late |-> None, cleared |-> FALSE, previous |-> None, entry |-> None, decision |-> None, line |-> None]

To(a, record) == call' = [call EXCEPT ![a] = record]
Go(a, at) == call' = [call EXCEPT ![a].at = at]
GoSync(a) == To(a, About(call[a].p, "sync"))
Done(a) == To(a, Idle)

\* A bug it could have: it is not looked at.
MovableAnyway(p) == p \in Here

\* assertLineMovable: not once it was reconciled with a bank statement.
Movable(p) == LET l == payment[p].line IN l # None /\ bank[l] # None => ~bank[l].reconciled

IsAsked(late) == late # None /\ late.state = "pending"

\* wantedLines
Wanted(p) == IF IsAsked(p.late) THEN None
             ELSE [value |-> p.value, date |-> p.date, reconciled |-> FALSE]

----------------------------------------------------------------------------
(* recordPayment, updatePayment, deletePayment, voidInvoice, restoreInvoice. *)

\* From elsewhere, or typed with a date that is not late.
Record(a, p, value, date) ==
    /\ ~void /\ p \notin used
    /\ Begin(a, [About(p, "record") EXCEPT !.value = value, !.date = date])
    /\ used' = used \cup {p}
    /\ UNCHANGED <<void, payment, bank, entry, undone>>

\* Typed too far back: it waits for a manager.
RecordLate(a, p, e, value, date) ==
    /\ ~void /\ p \notin used /\ e \notin used /\ Late(date)
    /\ Begin(a, [About(p, "record") EXCEPT !.value = value, !.date = date, !.entry = e])
    /\ used' = used \cup {p, e}
    /\ UNCHANGED <<void, payment, bank, entry, undone>>

SaveRecord(a) ==
    /\ call[a].at = "record"
    /\ LET c == call[a] IN
         /\ payment' = [payment EXCEPT ![c.p] =
                          [value |-> c.value, date |-> c.date, line |-> None,
                           late  |-> IF c.entry = None THEN None
                                     ELSE [state |-> "pending", entry |-> c.entry]]]
         /\ IF c.entry = None THEN GoSync(a) ELSE To(a, [About(c.p, "reask") EXCEPT !.entry = c.entry])
    /\ UNCHANGED <<void, bank, entry, used, raced, undone>>

Editing(p, value, date) == [About(p, "edit") EXCEPT !.value = value, !.date = date,
                                                    !.read = payment[p], !.ids = Here]

\* Moved by its date or by what lands, if its line is let.
MayEdit(p, value, date) ==
    /\ ~void /\ p \in Here
    /\ value.lands # payment[p].value.lands \/ date # payment[p].date => Movable(p)

\* lateForDate: moved within the days it is not asked, nor barred.
Edit(a, p, value, date) ==
    /\ MayEdit(p, value, date)
    /\ date = payment[p].date \/ ~Late(date)
    /\ Begin(a, [Editing(p, value, date) EXCEPT
                   !.cleared = /\ date # payment[p].date
                               /\ payment[p].late # None /\ payment[p].late.state # "approved"])
    /\ UNCHANGED <<void, payment, bank, entry, used, undone>>

\* Where a rejection goes back to: of one that waits already, what that did.
Before(p) == LET late == payment[p].late IN
    IF IsAsked(late) /\ entry[late.entry] # None THEN entry[late.entry].previous ELSE payment[p].date

\* Moved too far back it is asked, and never once a manager said no.
EditLate(a, p, e, value, date) ==
    /\ MayEdit(p, value, date) /\ e \notin used
    /\ date # payment[p].date /\ Late(date)
    /\ payment[p].late # None => payment[p].late.state # "rejected"
    /\ Begin(a, [Editing(p, value, date) EXCEPT
                   !.entry = e, !.late = [state |-> "pending", entry |-> e], !.previous = Before(p)])
    /\ used' = used \cup {e}
    /\ UNCHANGED <<void, payment, bank, entry, undone>>

\* What changed is written, unless a payment was added or deleted since.
SaveEdit(a) ==
    /\ call[a].at = "edit"
    /\ LET c == call[a] old == payment[c.p] IN
         IF Here # c.ids THEN UNCHANGED payment /\ Done(a)
         ELSE /\ payment' = [payment EXCEPT ![c.p] =
                   [old EXCEPT
                      !.value = IF c.value # c.read.value THEN c.value ELSE old.value,
                      !.date  = IF c.date # c.read.date THEN c.date ELSE old.date,
                      !.late  = IF c.cleared THEN None ELSE IF c.late = None THEN old.late ELSE c.late]]
              /\ IF c.entry # None
                 THEN To(a, [About(c.p, "reask") EXCEPT !.entry = c.entry, !.previous = c.previous])
                 ELSE IF c.cleared /\ IsAsked(c.read.late) THEN To(a, About(c.p, "unask"))
                 ELSE GoSync(a)
    /\ UNCHANGED <<void, bank, entry, used, raced, undone>>

Delete(a, p) ==
    /\ ~void /\ p \in Here /\ Movable(p)
    /\ Begin(a, [About(p, "delete") EXCEPT !.read = payment[p]])
    /\ UNCHANGED <<void, payment, bank, entry, used, undone>>

SaveDelete(a) ==
    /\ call[a].at = "delete"
    /\ payment' = [payment EXCEPT ![call[a].p] = None]
    /\ Go(a, "removeLine")
    /\ UNCHANGED <<void, bank, entry, used, raced, undone>>

\* removePaymentLine: the line it had when it was read.
RemoveLine(a) ==
    /\ call[a].at = "removeLine"
    /\ bank' = [l \in Lines |-> IF l = call[a].read.line THEN None ELSE bank[l]]
    /\ To(a, About(call[a].p, "forget"))
    /\ UNCHANGED <<void, payment, entry, used, raced, undone>>

\* Read and saved with nothing awaited in between; what waits is left waiting.
Void ==
    /\ ~void /\ void' = TRUE
    /\ raced' = (raced \/ Together)
    /\ UNCHANGED <<payment, bank, entry, used, call, undone>>

\* With the payments it has.
Restore ==
    /\ void /\ void' = FALSE
    /\ raced' = (raced \/ Together)
    /\ UNCHANGED <<payment, bank, entry, used, call, undone>>

----------------------------------------------------------------------------
(* Late entries: openLateEntry, withdrawLateFor. *)

Withdrawn(p) == [e \in Entries |-> IF entry[e] # None /\ entry[e].of = p /\ entry[e].state = "pending"
                                   THEN [entry[e] EXCEPT !.state = "withdrawn"] ELSE entry[e]]

\* A bug it could have: the one asked before is left waiting.
ReaskOnly(a) ==
    /\ call[a].at = "reask"
    /\ Go(a, "ask")
    /\ UNCHANGED <<void, payment, bank, entry, used, raced, undone>>

Reask(a) ==
    /\ call[a].at = "reask"
    /\ entry' = Withdrawn(call[a].p)
    /\ Go(a, "ask")
    /\ UNCHANGED <<void, payment, bank, used, raced, undone>>

Ask(a) ==
    /\ call[a].at = "ask"
    /\ LET c == call[a] IN
         entry' = [entry EXCEPT ![c.entry] = [of |-> c.p, previous |-> c.previous, state |-> "pending"]]
    /\ GoSync(a)
    /\ UNCHANGED <<void, payment, bank, used, raced, undone>>

\* Moved back within the days, or deleted: no longer asked.
Unask(a) ==
    /\ call[a].at \in {"unask", "forget"}
    /\ entry' = Withdrawn(call[a].p)
    /\ IF call[a].at = "unask" THEN GoSync(a) ELSE Done(a)
    /\ UNCHANGED <<void, payment, bank, used, raced, undone>>

----------------------------------------------------------------------------
(* syncPaymentLine, syncOne. *)

\* The payment is read anew, after the call's own save.
Sync(a) ==
    /\ call[a].at = "sync"
    /\ IF call[a].p \in Here
       THEN To(a, [call[a] EXCEPT !.at = "line", !.read = payment[call[a].p]])
       ELSE Done(a)
    /\ UNCHANGED <<void, payment, bank, entry, used, raced, undone>>

Same(line, want) == want # None /\ line.value = want.value /\ line.date = want.date

\* What it has is what it should have.
Stands(have, want) == \/ have = None /\ want = None
                      \/ have # None /\ bank[have] # None /\ Same(bank[have], want)

\* A bug it could have: a new line is made and the old one left.
KeepOld(a) ==
    /\ call[a].at = "line"
    /\ LET c == call[a] want == Wanted(c.read) have == c.read.line IN
         IF Stands(have, want) THEN Done(a)
         ELSE IF want = None THEN To(a, About(c.p, "link")) ELSE Go(a, "make")
    /\ UNCHANGED <<void, payment, bank, entry, used, raced, undone>>

\* The line it has is kept if it is the one wanted, else removed.
KeepOrRemove(a) ==
    /\ call[a].at = "line"
    /\ LET c == call[a] want == Wanted(c.read) have == c.read.line IN
         IF Stands(have, want) THEN Done(a) /\ UNCHANGED bank
         ELSE /\ bank' = [l \in Lines |-> IF l = have THEN None ELSE bank[l]]
              /\ IF want = None THEN To(a, About(c.p, "link")) ELSE Go(a, "make")
    /\ UNCHANGED <<void, payment, entry, used, raced, undone>>

Make(a) ==
    /\ call[a].at = "make"
    /\ \E l \in Lines \ used :
         /\ bank' = [bank EXCEPT ![l] = Wanted(call[a].read)]
         /\ used' = used \cup {l}
         /\ To(a, [About(call[a].p, "link") EXCEPT !.line = l])
    /\ UNCHANGED <<void, payment, entry, raced, undone>>

\* The payment is told its line, if it is still there.
Link(a) ==
    /\ call[a].at = "link"
    /\ payment' = [p \in Payments |-> IF p = call[a].p /\ p \in Here
                                      THEN [payment[p] EXCEPT !.line = call[a].line] ELSE payment[p]]
    /\ Done(a)
    /\ UNCHANGED <<void, bank, entry, used, raced, undone>>

----------------------------------------------------------------------------
(* decideLateEntry, by a manager. *)

Decide(a, e, decision) ==
    /\ entry[e] # None /\ entry[e].state = "pending"
    /\ Begin(a, [About(entry[e].of, "asked") EXCEPT !.entry = e, !.decision = decision,
                                                    !.previous = entry[e].previous])
    /\ UNCHANGED <<void, payment, bank, entry, used, undone>>

WaitsOn(p, e) == p \in Here /\ payment[p].late = [state |-> "pending", entry |-> e]

\* listLateEntries: one that is not waited on goes once somebody looks.
Sweep(e) ==
    /\ entry[e] # None /\ entry[e].state = "pending" /\ ~WaitsOn(entry[e].of, e)
    /\ entry' = [entry EXCEPT ![e].state = "withdrawn"]
    /\ raced' = (raced \/ Together)
    /\ UNCHANGED <<void, payment, bank, used, call, undone>>

\* stillAsked; if not, it is withdrawn whatever it is by now.
StillAsked(a) ==
    /\ call[a].at = "asked"
    /\ LET c == call[a] IN
         IF WaitsOn(c.p, c.entry) THEN Go(a, "claim") /\ UNCHANGED entry
         ELSE Done(a) /\ entry' = [entry EXCEPT ![c.entry].state = "withdrawn"]
    /\ UNCHANGED <<void, payment, bank, used, raced, undone>>

\* A bug it could have: one that had no date before is not told apart.
ApplyingAlike(c) == "apply"

Applying(c) == IF c.decision = "rejected" /\ c.previous = None THEN "refuse" ELSE "apply"

\* A bug it could have: whoever has decided it meanwhile.
ClaimAnyway(a) ==
    /\ call[a].at = "claim"
    /\ entry' = [entry EXCEPT ![call[a].entry].state = call[a].decision]
    /\ Go(a, Applying(call[a]))
    /\ UNCHANGED <<void, payment, bank, used, raced, undone>>

\* "Claimed first, so two managers pressing at once do not both act."
Claim(a) ==
    /\ call[a].at = "claim"
    /\ LET c == call[a] IN
         IF entry[c.entry].state # "pending" THEN Done(a) /\ UNCHANGED entry
         ELSE entry' = [entry EXCEPT ![c.entry].state = c.decision] /\ Go(a, Applying(c))
    /\ UNCHANGED <<void, payment, bank, used, raced, undone>>

\* apply: approved it stands, rejected it gets its date back ...
Apply(a) ==
    /\ call[a].at = "apply"
    /\ IF call[a].p \in Here
       THEN To(a, [call[a] EXCEPT !.at = "saveApplied", !.ids = Here, !.read = payment[call[a].p]])
       ELSE Done(a)
    /\ UNCHANGED <<void, payment, bank, entry, used, raced, undone>>

\* A bug it could have: rejected, it keeps the late date.
SaveAppliedOnly(a) ==
    /\ call[a].at = "saveApplied"
    /\ LET c == call[a] IN
         IF Here # c.ids THEN UNCHANGED payment /\ Go(a, "giveBack")
         ELSE /\ payment' = [payment EXCEPT ![c.p].late = [state |-> c.decision, entry |-> c.entry]]
              /\ GoSync(a)
    /\ UNCHANGED <<void, bank, entry, used, raced, undone>>

SaveApplied(a) ==
    /\ call[a].at = "saveApplied"
    /\ LET c == call[a] old == payment[c.p] IN
         IF Here # c.ids THEN UNCHANGED payment /\ Go(a, "giveBack")
         ELSE /\ payment' = [payment EXCEPT ![c.p] =
                   [old EXCEPT
                      !.late = [state |-> c.decision, entry |-> c.entry],
                      !.date = IF c.decision = "rejected" /\ c.previous # c.read.date
                               THEN c.previous ELSE old.date]]
              /\ GoSync(a)
    /\ UNCHANGED <<void, bank, entry, used, raced, undone>>

\* ... and a new one that is rejected is marked so, and deleted.
Refuse(a) ==
    /\ call[a].at = "refuse"
    /\ LET c == call[a] IN
         payment' = [p \in Payments |->
                       IF p = c.p /\ p \in Here
                       THEN [payment[p] EXCEPT !.late = [state |-> "rejected", entry |-> c.entry]]
                       ELSE payment[p]]
    /\ Go(a, "refused")
    /\ UNCHANGED <<void, bank, entry, used, raced, undone>>

\* deletePayment, and what it throws.
DeleteRefused(a) ==
    /\ call[a].at = "refused"
    /\ IF ~void /\ call[a].p \in Here /\ Movable(call[a].p)
       THEN To(a, [call[a] EXCEPT !.at = "delete", !.read = payment[call[a].p]])
       ELSE Go(a, "giveBack")
    /\ UNCHANGED <<void, payment, bank, entry, used, raced, undone>>

\* It threw: the entry waits again.
GiveBack(a) ==
    /\ call[a].at = "giveBack"
    /\ entry' = [entry EXCEPT ![call[a].entry].state = "pending"]
    /\ undone' = undone \cup {call[a].entry}
    /\ Done(a)
    /\ UNCHANGED <<void, payment, bank, used, raced>>

----------------------------------------------------------------------------
(* Around them. *)

\* A line is reconciled with a bank statement, or that is undone.
Reconcile(l) ==
    /\ bank[l] # None
    /\ bank' = [bank EXCEPT ![l].reconciled = ~@]
    /\ raced' = (raced \/ Together)
    /\ UNCHANGED <<void, payment, entry, used, call, undone>>

----------------------------------------------------------------------------
Start(a) ==
    \/ \E p \in Payments, value \in Values, date \in Dates :
         \/ Record(a, p, value, date) \/ Edit(a, p, value, date)
         \/ \E e \in Entries : RecordLate(a, p, e, value, date) \/ EditLate(a, p, e, value, date)
    \/ \E p \in Payments : Delete(a, p)
    \/ \E e \in Entries : Decide(a, e, "approved") \/ Decide(a, e, "rejected")

Continue(a) ==
    \/ SaveRecord(a) \/ SaveEdit(a) \/ SaveDelete(a) \/ RemoveLine(a)
    \/ Reask(a) \/ Ask(a) \/ Unask(a)
    \/ Sync(a) \/ KeepOrRemove(a) \/ Make(a) \/ Link(a)
    \/ StillAsked(a) \/ Claim(a) \/ Apply(a) \/ SaveApplied(a)
    \/ Refuse(a) \/ DeleteRefused(a) \/ GiveBack(a)

Next == \/ \E a \in Actors : Start(a) \/ Continue(a)
        \/ Void \/ Restore \/ \E l \in Lines : Reconcile(l)
        \/ \E e \in Entries : Sweep(e)

Spec == Init /\ [][Next]_vars
----------------------------------------------------------------------------
(* Properties. *)

TypeOK ==
    /\ void \in BOOLEAN
    /\ payment \in [Payments -> Payment \cup {None}]
    /\ bank \in [Lines -> Line \cup {None}]
    /\ entry \in [Entries -> Entry \cup {None}]
    /\ used \subseteq Payments \cup Lines \cup Entries
    /\ call \in [Actors -> Call \cup {Idle}]
    /\ raced \in BOOLEAN
    /\ undone \subseteq Entries

Settled == ~raced /\ \A a \in Actors : call[a] = Idle

\* Turned down, and not deleted as it should have been.
TurnedDown(p) == LET late == payment[p].late IN
    late # None /\ late.state = "rejected" /\ late.entry \in undone

\* One call at a time, whether the invoice is voided, restored or neither: the
\* account holds one line for each payment, of its value and date, none for one
\* that waits for a manager or was turned down and could not be deleted, and
\* none that no payment owns (syncPaymentLine).
LinesFollow ==
    Settled =>
        /\ \A p \in Here :
             LET l == payment[p].line IN
               IF l = None THEN IsAsked(payment[p].late) \/ TurnedDown(p)
               ELSE ~IsAsked(payment[p].late) /\ bank[l] # None /\ Same(bank[l], payment[p])
        /\ \A l \in Lines : bank[l] # None => \E p \in Here : payment[p].line = l

\* One call at a time: every payment that waits for a manager is shown to one,
\* and nothing is shown that no payment waits on, except what was given back
\* (openLateEntry, withdrawLateFor, decideLateEntry).
AskedIsShown ==
    Settled =>
        \A e \in Entries :
            LET shown == entry[e] # None /\ entry[e].state = "pending"
                asked == \E p \in Payments : WaitsOn(p, e)
            IN  (asked => shown) /\ (shown => asked \/ e \in undone)

\* "Claimed first, so two managers pressing at once do not both act"
\* (decideLateEntry), however the two and everybody else's calls interleave: no
\* entry is being applied by two.
OneDecider ==
    \A a, b \in Actors :
        /\ a # b
        /\ call[a].at \in {"apply", "saveApplied", "refuse", "refused"}
        /\ call[b].at \in {"apply", "saveApplied", "refuse", "refused"}
        => call[a].entry # call[b].entry

\* "Edited, it moves; deleted, it goes -- unless a bank statement has been
\* reconciled against it" (payment-bank.ts): one call at a time, a reconciled line
\* is neither changed nor removed, except for another of its payment that puts
\* the same in the account on the same date (assertLineMovable is not asked then).
ReconciledLands ==
    [][~raced' => \A l \in Lines : bank[l] # None /\ bank[l].reconciled =>
                      \/ bank'[l] # None /\ Same(bank'[l], bank[l])
                      \/ \E p \in Here : /\ payment[p].line = l
                                        /\ ~IsAsked(payment[p].late)
                                        /\ payment[p].date = bank[l].date
                                        /\ payment[p].value.lands = bank[l].value.lands]_vars

\* One call at a time: a date that was rejected is not on the payment when its
\* call is done (apply), unless it never had another and could not be deleted.
RejectedGoes ==
    Settled =>
        \A p \in Here : payment[p].late # None /\ payment[p].late.state = "rejected" =>
            LET previous == entry[payment[p].late.entry].previous IN
                IF previous = None THEN TurnedDown(p) ELSE payment[p].date = previous

\* "Not done after all: back to waiting, so it can be decided again"
\* (decideLateEntry): what waits for a manager is waited on by its payment, or
\* no decision on it is taken.
WaitingIsAsked ==
    Settled => \A e \in Entries : entry[e] # None /\ entry[e].state = "pending" =>
                   WaitsOn(entry[e].of, e)
=============================================================================
