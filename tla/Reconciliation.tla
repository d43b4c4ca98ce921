---------------------------- MODULE Reconciliation ----------------------------
(***************************************************************************)
(* Reconciling one bank account with the bank's statements: the            *)
(* reconciliations and the lines of banking.service.ts                     *)
(* (apps/api/src/modules/banking).                                         *)
(*                                                                         *)
(* A clerk starts a reconciliation of a period, ticks lines, corrects its  *)
(* figures, completes it, reopens or deletes the latest one completed, one *)
(* call after another; whoever keeps the lines adds, corrects and deletes  *)
(* them meanwhile.  A call writes the lines, the account and the           *)
(* reconciliation one after the other, and may die in between.             *)
(***************************************************************************)
EXTENDS Integers, FiniteSets

CONSTANTS
    Sessions,   \* ids of reconciliations, each given once
    Lines,      \* ids of bank lines, each given once
    Amounts,    \* what a line may be of
    LastDay,
    Balances,   \* what a statement may open or close at
    None,
    MaxFaults   \* bound: calls of the clerk that die

ASSUME NoneAssumption == None \notin Sessions \cup Lines \cup Balances
ASSUME FiguresAssumption == Amounts \subseteq Int /\ Balances \subseteq Int /\ LastDay \in Nat \ {0}
ASSUME BoundsAssumption == MaxFaults \in Nat

VARIABLES
    session,   \* [status, from, to, opening, balance, closing, ticks] or None; balance: the statement's
    line,      \* [day, amount, lock] or None; lock: reconciledSessionId
    used,      \* ids of reconciliations and lines given out
    last,      \* the account's lastReconciledStatementBalanceMinor
    clerk,     \* the clerk's call, from one await to the next
    keeper,    \* the call of whoever keeps the lines
    faults,
    stale,     \* (history) reconciliations a ticked line was changed under, after it
               \* was read unreconciled, and those a call died about
    overtaken  \* (history) reconciliations a line of which another reconciled again

vars == <<session, line, used, last, clerk, keeper, faults, stale, overtaken>>

Days == 1..LastDay

Session == [status : {"open", "completed"}, from : Days, to : Days, opening : Balances,
            balance : Balances, closing : Int, difference : Int, ticks : SUBSET Lines]

Line == [day : Days, amount : Amounts, lock : Sessions \cup {None}]

ASSUME NothingAssumption == None \notin Session /\ None \notin Line

Idle == [at |-> "idle"]

Init ==
    /\ session = [s \in Sessions |-> None]
    /\ line = [l \in Lines |-> None]
    /\ used = {} /\ last = None
    /\ clerk = Idle /\ keeper = Idle /\ faults = 0
    /\ stale = {} /\ overtaken = {}

----------------------------------------------------------------------------
Here == {l \in Lines : line[l] # None}

Of(status) == {s \in Sessions : session[s] # None /\ session[s].status = status}

Opens(s) == s \in Of("open")
Signed(s) == s \in Of("completed")

\* lastReconciledDay: a period is free if it starts after every one completed.
Free(from) == \A s \in Of("completed") : session[s].to < from

\* A bug it could have: any completed one will do.
AnyCompleted(s) == Signed(s)

\* latestCompletedId
IsLatest(s) == Signed(s) /\ \A other \in Of("completed") : session[other].to <= session[s].to

\* What comes in less what goes out, counted a unit at a time.
SumOf(amount) ==
    LET ins  == {{l} \X (1..amount[l]) : l \in DOMAIN amount}
        outs == {{l} \X (1..-amount[l]) : l \in DOMAIN amount} IN
    Cardinality(UNION ins) - Cardinality(UNION outs)

TotalOf(lines) == SumOf([l \in lines \cap Here |-> line[l].amount])

----------------------------------------------------------------------------
(* The clerk. *)

\* reconciliationOpening: at the closing balance of the one that ends the day
\* before, or at the figure the clerk gives.
Start(s, from, to, opening, balance) ==
    /\ clerk = Idle /\ s \notin used
    /\ Of("open") = {} /\ from <= to /\ Free(from)
    /\ session' = [session EXCEPT ![s] =
                     [status |-> "open", from |-> from, to |-> to, opening |-> opening,
                      balance |-> balance, closing |-> opening,
                      difference |-> balance - opening, ticks |-> {}]]
    /\ used' = used \cup {s}
    /\ UNCHANGED <<line, last, clerk, keeper, faults, stale, overtaken>>

\* The lines are read and added up: any of the account's, whichever day they are
\* of and whatever reconciled them before, and ids of lines gone since ...
Tick(s, ticks) ==
    /\ clerk = Idle /\ Opens(s) /\ ticks \subseteq used
    /\ clerk' = [at |-> "tick", session |-> s, ticks |-> ticks,
                 closing |-> session[s].opening + TotalOf(ticks)]
    /\ UNCHANGED <<session, line, used, last, keeper, faults, stale, overtaken>>

\* ... and the ticks saved with the figures.
SaveTicks ==
    /\ clerk.at = "tick"
    /\ session' = [session EXCEPT ![clerk.session] =
                     [@ EXCEPT !.ticks = clerk.ticks, !.closing = clerk.closing,
                               !.difference = session[clerk.session].balance - clerk.closing]]
    /\ clerk' = Idle
    /\ UNCHANGED <<line, used, last, keeper, faults, stale, overtaken>>

Edit(s, from, to, opening, balance) ==
    /\ clerk = Idle /\ Opens(s) /\ from <= to
    /\ Free(from) \/ (from = session[s].from /\ to = session[s].to)
    /\ \A l \in session[s].ticks \cap Here : line[l].day <= to
    /\ clerk' = [at |-> "edit", session |-> s, from |-> from, to |-> to, opening |-> opening,
                 balance |-> balance, closing |-> opening + TotalOf(session[s].ticks)]
    /\ UNCHANGED <<session, line, used, last, keeper, faults, stale, overtaken>>

\* A bug it could have: the opening balance is corrected, the closing one left.
SaveEditOpening ==
    /\ clerk.at = "edit"
    /\ session' = [session EXCEPT ![clerk.session] =
                     [@ EXCEPT !.from = clerk.from, !.to = clerk.to, !.opening = clerk.opening,
                               !.balance = clerk.balance, !.difference = clerk.balance - session[clerk.session].closing]]
    /\ clerk' = Idle
    /\ UNCHANGED <<line, used, last, keeper, faults, stale, overtaken>>

SaveEdit ==
    /\ clerk.at = "edit"
    /\ session' = [session EXCEPT ![clerk.session] =
                     [@ EXCEPT !.from = clerk.from, !.to = clerk.to, !.opening = clerk.opening,
                               !.balance = clerk.balance, !.closing = clerk.closing,
                               !.difference = clerk.balance - clerk.closing]]
    /\ clerk' = Idle
    /\ UNCHANGED <<line, used, last, keeper, faults, stale, overtaken>>

\* s locks lines that others had locked.
Overtakes(s, lines) == overtaken' = overtaken \cup ({line[l].lock : l \in lines} \ {None, s})

\* A bug it could have: all the lines of the period are reconciled.
LockPeriod(s) ==
    /\ clerk = Idle /\ Opens(s)
    /\ line' = [l \in Lines |-> IF l \in Here /\ line[l].day \in session[s].from..session[s].to
                                THEN [line[l] EXCEPT !.lock = s] ELSE line[l]]
    /\ clerk' = [at |-> "last", session |-> s]
    /\ Overtakes(s, {l \in Here : line[l].day \in session[s].from..session[s].to})
    /\ UNCHANGED <<session, used, last, keeper, faults, stale>>

\* completeReconciliation: the ticked lines, reconciled or not, the account, the
\* reconciliation.
Lock(s) ==
    /\ clerk = Idle /\ Opens(s)
    /\ line' = [l \in Lines |-> IF l \in Here \cap session[s].ticks
                                THEN [line[l] EXCEPT !.lock = s] ELSE line[l]]
    /\ clerk' = [at |-> "last", session |-> s]
    /\ Overtakes(s, Here \cap session[s].ticks)
    /\ UNCHANGED <<session, used, last, keeper, faults, stale>>

\* A bug it could have: the book's balance is taken for the statement's.
LastBook ==
    /\ clerk.at = "last"
    /\ last' = session[clerk.session].closing
    /\ clerk' = [clerk EXCEPT !.at = "sign"]
    /\ UNCHANGED <<session, line, used, keeper, faults, stale, overtaken>>

LastSigned ==
    /\ clerk.at = "last"
    /\ last' = session[clerk.session].balance
    /\ clerk' = [clerk EXCEPT !.at = "sign"]
    /\ UNCHANGED <<session, line, used, keeper, faults, stale, overtaken>>

Sign ==
    /\ clerk.at = "sign"
    /\ session' = [session EXCEPT ![clerk.session].status = "completed"]
    /\ clerk' = Idle
    /\ UNCHANGED <<line, used, last, keeper, faults, stale, overtaken>>

\* releaseLines
Release(s, at) ==
    /\ line' = [l \in Lines |-> IF l \in Here /\ line[l].lock = s
                                THEN [line[l] EXCEPT !.lock = None] ELSE line[l]]
    /\ clerk' = [at |-> at, session |-> s]
    /\ UNCHANGED <<session, used, last, keeper, faults, stale, overtaken>>

\* reopenReconciliation
Reopen(s) == /\ clerk = Idle /\ IsLatest(s) /\ Of("open") = {}
             /\ Release(s, "reopen")

SaveReopened ==
    /\ clerk.at = "reopen"
    /\ session' = [session EXCEPT ![clerk.session].status = "open"]
    /\ clerk' = [clerk EXCEPT !.at = "restore"]
    /\ UNCHANGED <<line, used, last, keeper, faults, stale, overtaken>>

\* deleteReconciliation: an open one simply goes ...
Drop(s) ==
    /\ clerk = Idle /\ Opens(s)
    /\ session' = [session EXCEPT ![s] = None]
    /\ UNCHANGED <<line, used, last, clerk, keeper, faults, stale, overtaken>>

\* ... and a completed one, the latest, lets its lines go first.
Delete(s) == /\ clerk = Idle /\ IsLatest(s)
             /\ Release(s, "delete")

SaveDeleted ==
    /\ clerk.at = "delete"
    /\ session' = [session EXCEPT ![clerk.session] = None]
    /\ clerk' = [clerk EXCEPT !.at = "restore"]
    /\ UNCHANGED <<line, used, last, keeper, faults, stale, overtaken>>

\* A bug it could have: the account is left with none.
RestoreNone ==
    /\ clerk.at = "restore"
    /\ last' = None
    /\ clerk' = Idle
    /\ UNCHANGED <<session, line, used, keeper, faults, stale, overtaken>>

\* restoreLastReconciled: back to the one that is the latest now.
Restore ==
    /\ clerk.at = "restore"
    /\ last' = IF Of("completed") = {} THEN None
               ELSE session[CHOOSE s \in Sessions : IsLatest(s)].balance
    /\ clerk' = Idle
    /\ UNCHANGED <<session, line, used, keeper, faults, stale, overtaken>>

Die ==
    /\ clerk # Idle /\ faults < MaxFaults
    /\ faults' = faults + 1 /\ clerk' = Idle
    /\ stale' = stale \cup {clerk.session}
    /\ UNCHANGED <<session, line, used, last, keeper, overtaken>>

----------------------------------------------------------------------------
(* Whoever keeps the lines. *)

Add(l, day, amount) ==
    /\ keeper = Idle /\ l \notin used
    /\ line' = [line EXCEPT ![l] = [day |-> day, amount |-> amount, lock |-> None]]
    /\ used' = used \cup {l}
    /\ UNCHANGED <<session, last, clerk, keeper, faults, stale, overtaken>>

Loose == Of("open") \cup (IF clerk = Idle THEN {} ELSE {clerk.session})

\* assertEditable: a reconciled line is nobody's to change.
Editable(l) == l \in Here /\ line[l].lock = None

Keep(l, what) ==
    /\ keeper = Idle /\ Editable(l)
    /\ keeper' = [at |-> what, line |-> l, lock |-> line[l].lock, open |-> Loose]
    /\ UNCHANGED <<session, line, used, last, clerk, faults, stale, overtaken>>

\* Reconciliations that tick the line, or are about to.
Ticking(l) ==
    {s \in Sessions : \/ session[s] # None /\ l \in session[s].ticks
                      \/ clerk.at = "tick" /\ clerk.session = s /\ l \in clerk.ticks}

\* Those of them that were open, or in a call, since the line was read, and the
\* one that came to lock it after that.
Under == Ticking(keeper.line)
             \cap (keeper.open \cup Loose \cup ({line[keeper.line].lock} \ {None, keeper.lock}))

Correct(day, amount) ==
    /\ keeper.at = "correct"
    /\ line' = [line EXCEPT ![keeper.line].day = day, ![keeper.line].amount = amount]
    /\ stale' = stale \cup Under
    /\ keeper' = Idle
    /\ UNCHANGED <<session, used, last, clerk, faults, overtaken>>

RemoveLine ==
    /\ keeper.at = "remove"
    /\ line' = [line EXCEPT ![keeper.line] = None]
    /\ stale' = stale \cup Under
    /\ keeper' = Idle
    /\ UNCHANGED <<session, used, last, clerk, faults, overtaken>>

----------------------------------------------------------------------------
Clerk ==
    \/ \E s \in Sessions, from, to \in Days, opening, balance \in Balances :
         Start(s, from, to, opening, balance) \/ Edit(s, from, to, opening, balance)
    \/ \E s \in Sessions : \E ticks \in SUBSET Lines : Tick(s, ticks)
    \/ \E s \in Sessions : Lock(s) \/ Reopen(s) \/ Drop(s) \/ Delete(s)
    \/ SaveTicks \/ SaveEdit \/ LastSigned \/ Sign \/ SaveReopened \/ SaveDeleted \/ Restore
    \/ Die

Keeper ==
    \/ \E l \in Lines : \/ \E day \in Days, amount \in Amounts : Add(l, day, amount)
                        \/ Keep(l, "correct") \/ Keep(l, "remove")
    \/ \E day \in Days, amount \in Amounts : Correct(day, amount)
    \/ RemoveLine

Next == Clerk \/ Keeper

Spec == Init /\ [][Next]_vars
----------------------------------------------------------------------------
(* Properties. *)

TypeOK ==
    /\ session \in [Sessions -> Session \cup {None}]
    /\ line \in [Lines -> Line \cup {None}]
    /\ used \subseteq Sessions \cup Lines
    /\ last \in Balances \cup {None}
    /\ faults \in 0..MaxFaults
    /\ stale \subseteq Sessions /\ overtaken \subseteq Sessions

\* With no call under way and none that died, whatever was completed, reopened,
\* deleted or changed: a line is reconciled by a completed reconciliation that
\* ticks it and by none that is open or gone, and a completed one's lines are
\* reconciled by it until another reconciles one of them again (nothing in
\* updateReconciliation or completeReconciliation keeps it from that).
LockedBySigned ==
    clerk = Idle /\ faults = 0 =>
        \A l \in Here, s \in Sessions :
            /\ line[l].lock = s => Signed(s) /\ l \in session[s].ticks
            /\ Signed(s) /\ l \in session[s].ticks /\ s \notin overtaken => line[l].lock = s

\* With no call under way and none that died: the account's last reconciled
\* balance is that of the latest reconciliation that still stands.
LastIsLatest ==
    clerk = Idle /\ faults = 0 =>
        IF Of("completed") = {} THEN last = None
        ELSE \E s \in Sessions : IsLatest(s) /\ last = session[s].balance

\* "A reconciled row is evidence: it was signed off against a statement balance"
\* (assertEditable): the figures a reconciliation shows are those of the lines
\* it ticks.  Not so if one of them was changed that had been read before the
\* reconciliation was completed; if a call about it died; or if another
\* reconciled a line of its again, and may have let it go since.
FiguresAgree ==
    \A s \in Sessions \ (stale \cup overtaken) : session[s] # None =>
        /\ session[s].closing = session[s].opening + TotalOf(session[s].ticks)
        /\ session[s].difference = session[s].balance - session[s].closing

\* Periods completed never overlap and only the latest is withdrawn, whatever
\* dies: reconciling implements SignedStatements.
InOrder == INSTANCE SignedStatements WITH
    signed <- {[from |-> session[s].from, to |-> session[s].to,
                balance |-> session[s].balance] : s \in Of("completed")}

SignedInOrder == InOrder!Spec
=============================================================================
