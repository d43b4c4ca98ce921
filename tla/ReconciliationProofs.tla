------------------------ MODULE ReconciliationProofs ------------------------
(***************************************************************************)
(* What Reconciliation guarantees for any number of reconciliations, lines *)
(* and days, any amounts and any deaths.                                   *)
(*                                                                         *)
(* The periods are in order whatever dies (Ordered).  What a completed     *)
(* reconciliation ticks stays reconciled by it until another, which may    *)
(* tick it too, reconciles a line of it again (TickedIsLocked), and so no  *)
(* line of it is changed before that without a mark (FiguresRight).        *)
(***************************************************************************)
EXTENDS Reconciliation, FiniteSetTheorems, WellFoundedInduction, TLAPS

ClerkCall ==
    [at : {"tick"}, session : Sessions, ticks : SUBSET Lines, closing : Int]
    \cup [at : {"edit"}, session : Sessions, from : Days, to : Days, opening : Balances,
          balance : Balances, closing : Int]
    \cup [at : {"last", "sign", "reopen", "delete", "restore"}, session : Sessions]

KeeperCall == [at : {"correct", "remove"}, line : Lines, lock : {None}, open : SUBSET Sessions]

Typed == TypeOK /\ clerk \in ClerkCall \cup {Idle} /\ keeper \in KeeperCall \cup {Idle}

There == {s \in Sessions : session[s] # None}

\* The clerk's call is about s, at one of these steps.
In(steps, s) == clerk # Idle /\ clerk.at \in steps /\ clerk.session = s

\* Ids are given once, and a finite number of them; the line being kept stays.
Ids ==
    /\ IsFiniteSet(used) /\ Here \subseteq used /\ There \subseteq used
    /\ \A s \in There : session[s].ticks \subseteq used
    /\ clerk # Idle /\ clerk.at = "tick" => clerk.ticks \subseteq used
    /\ keeper # Idle => keeper.line \in Here

\* One is open at most, the completed ones follow one another, and the one open
\* follows them all.
Ordered ==
    /\ \A s, t \in Of("open") : s = t
    /\ \A s \in There : session[s].from <= session[s].to
    /\ \A s, t \in Of("completed") :
          s # t => session[s].to < session[t].from \/ session[t].to < session[s].from
    /\ \A s \in Of("open") : Free(session[s].from)

\* What a call of the clerk found still stands.
ClerkAgrees ==
    clerk # Idle =>
        LET s == clerk.session IN
        /\ clerk.at \in {"tick", "edit", "last", "sign"} => Opens(s)
        /\ clerk.at \in {"reopen", "delete"} => IsLatest(s)
        /\ clerk.at = "reopen" => Of("open") = {}
        /\ clerk.at = "edit" =>
              /\ clerk.from <= clerk.to
              /\ Free(clerk.from) \/ (clerk.from = session[s].from /\ clerk.to = session[s].to)
        /\ clerk.at = "sign" => last = session[s].balance

\* No call about s died, nor (once one about any did) was a line of its changed
\* under it.
Fresh(s) == faults = 0 \/ s \notin stale

\* The reconciliations whose lines are reconciled.
Holds(s) == \/ Signed(s) /\ ~In({"reopen", "delete"}, s)
            \/ In({"last", "sign"}, s)

TickedIsLocked ==
    \A s \in Sessions \ overtaken : Fresh(s) /\ Holds(s) =>
        \A l \in session[s].ticks \cap Here : line[l].lock = s

LockedIsTicked ==
    faults = 0 =>
        \A l \in Here, s \in Sessions : line[l].lock = s => Holds(s) /\ l \in session[s].ticks

LastStands ==
    faults = 0 /\ (clerk = Idle \/ clerk.at \in {"tick", "edit"}) =>
        IF Of("completed") = {} THEN last = None
        ELSE \E s \in Sessions : IsLatest(s) /\ last = session[s].balance

\* TotalOf, with the lines there are given.
Total(lines, there, of) == SumOf([l \in lines \cap there |-> of[l].amount])

FiguresRight ==
    \A s \in There \ (stale \cup overtaken) :
        /\ session[s].closing = session[s].opening + Total(session[s].ticks, Here, line)
        /\ session[s].difference = session[s].balance - session[s].closing

\* The figures a call is to save are right too.
Figures ==
    clerk # Idle /\ clerk.session \notin stale =>
        /\ clerk.at = "tick" =>
              clerk.closing = session[clerk.session].opening + Total(clerk.ticks, Here, line)
        /\ clerk.at = "edit" =>
              clerk.closing = clerk.opening + Total(session[clerk.session].ticks, Here, line)

IInv == /\ Typed /\ Ids /\ Ordered /\ ClerkAgrees
        /\ TickedIsLocked /\ LockedIsTicked /\ LastStands /\ Figures /\ FiguresRight

----------------------------------------------------------------------------
(* The amount of a set of lines. *)

\* The amounts of finitely many lines add up to an integer.
LEMMA SumTyped ==
    ASSUME NEW amount, IsFiniteSet(DOMAIN amount), \A l \in DOMAIN amount : amount[l] \in Int
    PROVE  SumOf(amount) \in Int
<1> DEFINE units(l) == {l} \X (1..amount[l])
           less(l) == {l} \X (1..-amount[l])
           ins == {units(l) : l \in DOMAIN amount}
           outs == {less(l) : l \in DOMAIN amount}
<1>1. ASSUME NEW l \in DOMAIN amount PROVE IsFiniteSet(units(l)) /\ IsFiniteSet(less(l))
  <2>1. IsFiniteSet({l})
    BY FS_Singleton
  <2>2. 1 \in Int /\ amount[l] \in Int /\ -amount[l] \in Int
    BY <1>1
  <2>3. IsFiniteSet(1..amount[l]) /\ IsFiniteSet(1..-amount[l])
    BY <2>2, FS_Interval
  <2> QED
    BY <2>1, <2>3, FS_Product
<1>2. IsFiniteSet(ins)
  <2> DEFINE f == [l \in DOMAIN amount |-> units(l)]
  <2>1. f \in Surjection(DOMAIN amount, ins)
    BY DEF Surjection
  <2> QED
    BY <2>1, FS_Surjection
<1>3. IsFiniteSet(outs)
  <2> DEFINE f == [l \in DOMAIN amount |-> less(l)]
  <2>1. f \in Surjection(DOMAIN amount, outs)
    BY DEF Surjection
  <2> QED
    BY <2>1, FS_Surjection
<1>4. IsFiniteSet(UNION ins) /\ IsFiniteSet(UNION outs)
  BY <1>1, <1>2, <1>3, FS_UNION
<1>5. Cardinality(UNION ins) \in Int /\ Cardinality(UNION outs) \in Int
  BY <1>4, FS_CardinalityType
<1>6. SumOf(amount) = Cardinality(UNION ins) - Cardinality(UNION outs)
  BY DEF SumOf
<1> HIDE DEF ins, outs
<1> QED
  BY <1>5, <1>6

LEMMA LineTyped == ASSUME TypeOK, NEW l \in Here PROVE l \in Lines /\ line[l] \in Line
BY DEF TypeOK, Here

LEMMA TotalIs == ASSUME NEW lines PROVE TotalOf(lines) = Total(lines, Here, line)
BY DEF TotalOf, Total

LEMMA TotalTyped ==
    ASSUME TypeOK, Ids, NEW lines PROVE TotalOf(lines) \in Int
<1> DEFINE amount == [l \in lines \cap Here |-> line[l].amount]
<1>1. IsFiniteSet(lines \cap Here)
  BY FS_Subset DEF Ids
<1>2. \A l \in lines \cap Here : line[l].amount \in Int
  BY LineTyped, FiguresAssumption DEF Line
<1>3. SumOf(amount) \in Int
  BY <1>1, <1>2, SumTyped
<1> QED
  BY <1>3 DEF TotalOf

\* Only the lines there are count, and only what each is of.
LEMMA TotalKept ==
    ASSUME NEW lines, NEW there, NEW of, NEW there2, NEW of2,
           lines \cap there2 = lines \cap there,
           \A l \in lines \cap there : of2[l].amount = of[l].amount
    PROVE  Total(lines, there2, of2) = Total(lines, there, of)
<1>1. [l \in lines \cap there2 |-> of2[l].amount] = [l \in lines \cap there |-> of[l].amount]
  OBVIOUS
<1> QED
  BY <1>1 DEF Total

LEMMA TotalOfNone == ASSUME NEW there, NEW of PROVE Total({}, there, of) = 0
<1> DEFINE amount == [l \in {} \cap there |-> of[l].amount]
<1>1. DOMAIN amount = {}
  OBVIOUS
<1>2. /\ UNION {{l} \X (1..amount[l]) : l \in DOMAIN amount} = {}
      /\ UNION {{l} \X (1..-amount[l]) : l \in DOMAIN amount} = {}
  BY <1>1
<1>3. Cardinality({}) = 0
  BY FS_EmptySet
<1>4. SumOf(amount) = Cardinality({}) - Cardinality({})
  <2> HIDE DEF amount
  <2> QED
    BY <1>2 DEF SumOf
<1> QED
  BY <1>3, <1>4 DEF Total

\* Of finitely many days one is the last.
LEMMA HasLatest ==
    ASSUME TypeOK, Of("completed") # {} PROVE \E s \in Sessions : IsLatest(s)
<1> DEFINE left == {LastDay - session[s].to : s \in Of("completed")}
<1>1. \A s \in Of("completed") : session[s].to \in Days /\ s \in Sessions
  BY DEF Of, TypeOK, Session
<1>2. left \subseteq Nat /\ left # {}
  BY <1>1, FiguresAssumption DEF Days
<1>3. PICK least \in left : \A n \in left : <<n, least>> \notin OpToRel(<, Nat)
  BY <1>2, WFMin, NatLessThanWellFounded
<1>4. \A n \in left : least <= n
  <2> HIDE DEF left
  <2>1. \A n \in left : n \in Nat /\ least \in Nat
    BY <1>2, <1>3
  <2>2. \A n \in left : ~(n < least)
    BY <1>3, <2>1, Zenon DEF OpToRel
  <2> QED
    BY <2>1, <2>2
<1>5. PICK s \in Of("completed") : least = LastDay - session[s].to
  BY <1>3
<1>6. ASSUME NEW t \in Of("completed") PROVE session[t].to <= session[s].to
  <2>1. LastDay - session[t].to \in left
    OBVIOUS
  <2>2. LastDay - session[s].to <= LastDay - session[t].to
    BY <1>4, <1>5, <2>1
  <2>3. session[t].to \in Int /\ session[s].to \in Int /\ LastDay \in Int
    BY <1>1, <1>6, FiguresAssumption DEF Days
  <2> QED
    BY <2>2, <2>3
<1> QED
  BY <1>1, <1>5, <1>6 DEF IsLatest, Signed

----------------------------------------------------------------------------
(* What each action does to the reconciliations, the lines and the calls. *)

OtherSessions(s) == \A t \in Sessions : t # s => session'[t] = session[t]

LEMMA SessionSet ==
    ASSUME TypeOK, NEW s \in Sessions, NEW new \in Session \cup {None},
           session' = [session EXCEPT ![s] = new]
    PROVE  session' \in [Sessions -> Session \cup {None}] /\ session'[s] = new /\ OtherSessions(s)
BY DEF TypeOK, OtherSessions

LEMMA SessionTyped ==
    ASSUME TypeOK, NEW s \in There PROVE s \in Sessions /\ session[s] \in Session
BY DEF TypeOK, There

LEMMA OfThere ==
    ASSUME NEW status PROVE Of(status) \subseteq There
BY DEF Of, There

LEMMA ClerkTyped ==
    ASSUME Typed, clerk # Idle
    PROVE  /\ clerk \in ClerkCall /\ clerk.session \in Sessions
           /\ clerk.at \in {"tick", "edit", "last", "sign", "reopen", "delete", "restore"}
           /\ clerk.at = "tick" => clerk.ticks \in SUBSET Lines /\ clerk.closing \in Int
           /\ clerk.at = "edit" => /\ clerk.from \in Days /\ clerk.to \in Days
                                   /\ clerk.opening \in Balances /\ clerk.balance \in Balances
                                   /\ clerk.closing \in Int
BY DEF Typed, ClerkCall

LEMMA BusyClerk ==
    ASSUME NEW at, at # "idle", clerk.at = at PROVE clerk # Idle
BY DEF Idle

\* The same reconciliations, as far as their states go.
SameStates == /\ There' = There /\ Of("open")' = Of("open") /\ Of("completed")' = Of("completed")
              /\ session' \in [Sessions -> Session \cup {None}]

\* One open one is corrected: its ticks and figures, or its period and figures.
StartIs(s, from, to, opening, balance) ==
    /\ clerk = Idle /\ clerk' = Idle /\ s \in Sessions \ used /\ from <= to /\ Free(from)
    /\ Of("open") = {}
    /\ session' \in [Sessions -> Session \cup {None}] /\ OtherSessions(s)
    /\ There' = There \cup {s} /\ Of("open")' = {s} /\ Of("completed")' = Of("completed")
    /\ session'[s] \in Session
    /\ session'[s].from = from /\ session'[s].to = to /\ session'[s].ticks = {}
    /\ session'[s].opening = opening /\ session'[s].balance = balance
    /\ session'[s].closing = opening /\ session'[s].difference = balance - opening
    /\ used' = used \cup {s} /\ UNCHANGED <<line, last, keeper, faults, stale, overtaken>>

LEMMA StartStep ==
    ASSUME Typed, Ids, NEW s \in Sessions, NEW from \in Days, NEW to \in Days,
           NEW opening \in Balances, NEW balance \in Balances,
           Start(s, from, to, opening, balance)
    PROVE  StartIs(s, from, to, opening, balance)
<1> DEFINE new == [status |-> "open", from |-> from, to |-> to, opening |-> opening,
                   balance |-> balance, closing |-> opening,
                   difference |-> balance - opening, ticks |-> {}]
<1>1. new \in Session /\ new.status = "open"
  BY FiguresAssumption DEF Session
<1>2. /\ new.from = from /\ new.to = to /\ new.ticks = {} /\ new.opening = opening
      /\ new.balance = balance /\ new.closing = opening /\ new.difference = balance - opening
  OBVIOUS
<1>3. session' = [session EXCEPT ![s] = new]
  BY DEF Start
<1> HIDE DEF new
<1>4. session' \in [Sessions -> Session \cup {None}] /\ session'[s] = new /\ OtherSessions(s)
  BY <1>1, <1>3, SessionSet DEF Typed
<1>5. s \notin used /\ s \notin There /\ new # None
  BY <1>1, NothingAssumption DEF Start, Ids
<1>6. There' = There \cup {s} /\ Of("open")' = Of("open") \cup {s}
      /\ Of("completed")' = Of("completed")
  BY <1>1, <1>4, <1>5 DEF There, Of, OtherSessions
<1> QED
  BY <1>1, <1>2, <1>4, <1>5, <1>6 DEF Start, StartIs

TickIs(s, ticks) ==
    /\ clerk = Idle /\ s \in Of("open") /\ ticks \subseteq used /\ ticks \subseteq Lines
    /\ clerk' \in ClerkCall /\ clerk' # Idle /\ clerk'.at = "tick" /\ clerk'.session = s
    /\ clerk'.ticks = ticks
    /\ clerk'.closing = session[s].opening + Total(ticks, Here, line)
    /\ UNCHANGED <<session, line, used, last, keeper, faults, stale, overtaken>>

LEMMA TickStep ==
    ASSUME Typed, Ids, NEW s \in Sessions, NEW ticks \in SUBSET Lines, Tick(s, ticks)
    PROVE  TickIs(s, ticks)
<1>1. s \in Of("open") /\ session[s] \in Session
  BY OfThere, SessionTyped DEF Tick, Opens, Typed
<1>2. session[s].opening \in Int /\ TotalOf(ticks) \in Int
  BY <1>1, TotalTyped, FiguresAssumption DEF Session, Typed
<1>3. session[s].opening + TotalOf(ticks) \in Int
  BY <1>2
<1>4. clerk' = [at |-> "tick", session |-> s, ticks |-> ticks,
                closing |-> session[s].opening + TotalOf(ticks)]
  BY DEF Tick
<1>5. clerk' \in ClerkCall /\ clerk' # Idle
  BY <1>3, <1>4 DEF ClerkCall, Idle
<1> QED
  BY <1>1, <1>4, <1>5, TotalIs DEF Tick, TickIs

SaveTicksIs(s) ==
    /\ In({"tick"}, s) /\ s \in Sessions /\ clerk' = Idle
    /\ SameStates /\ OtherSessions(s)
    /\ session'[s].from = session[s].from /\ session'[s].to = session[s].to
    /\ session'[s].opening = session[s].opening /\ session'[s].balance = session[s].balance
    /\ session'[s].ticks = clerk.ticks
    /\ session'[s].closing = clerk.closing
    /\ session'[s].difference = session[s].balance - clerk.closing
    /\ UNCHANGED <<line, used, last, keeper, faults, stale, overtaken>>

\* An open one becomes another, also open.
LEMMA StaysOpen ==
    ASSUME TypeOK, NEW s \in Of("open"), NEW new \in Session, new.status = "open",
           session' = [session EXCEPT ![s] = new]
    PROVE  SameStates /\ OtherSessions(s) /\ session'[s] = new
<1>1. s \in Sessions
  BY DEF Of
<1>2. session' \in [Sessions -> Session \cup {None}] /\ session'[s] = new /\ OtherSessions(s)
  BY <1>1, SessionSet
<1>3. new # None
  BY NothingAssumption
<1> QED
  BY <1>2, <1>3 DEF SameStates, There, Of, OtherSessions

LEMMA SaveTicksStep ==
    ASSUME Typed, ClerkAgrees, SaveTicks PROVE SaveTicksIs(clerk.session)
<1> DEFINE s == clerk.session
           old == session[s]
           new == [old EXCEPT !.ticks = clerk.ticks, !.closing = clerk.closing,
                              !.difference = old.balance - clerk.closing]
<1>1. clerk # Idle /\ clerk.at = "tick"
  BY BusyClerk DEF SaveTicks
<1>2. s \in Sessions /\ s \in Of("open") /\ clerk.ticks \in SUBSET Lines /\ clerk.closing \in Int
  BY <1>1, ClerkTyped DEF ClerkAgrees, Opens
<1>3. old \in Session /\ old.status = "open" /\ old.balance \in Int
  BY <1>2, OfThere, SessionTyped, FiguresAssumption DEF Of, Typed, Session
<1>4. new \in Session
  <2>1. old.balance - clerk.closing \in Int
    BY <1>2, <1>3
  <2> HIDE DEF old
  <2> QED
    BY <1>2, <1>3, <2>1 DEF Session
<1>5. /\ new.status = "open" /\ new.from = old.from /\ new.to = old.to
      /\ new.opening = old.opening /\ new.balance = old.balance
      /\ new.ticks = clerk.ticks /\ new.closing = clerk.closing
      /\ new.difference = old.balance - clerk.closing
  BY <1>3 DEF Session
<1>6. session' = [session EXCEPT ![s] = new]
  BY DEF SaveTicks
<1> HIDE DEF new
<1>7. SameStates /\ OtherSessions(s) /\ session'[s] = new
  BY <1>2, <1>4, <1>5, <1>6, StaysOpen DEF Typed
<1> QED
  BY <1>1, <1>2, <1>5, <1>7 DEF SaveTicks, SaveTicksIs, In

EditIs(s) ==
    /\ clerk = Idle /\ s \in Of("open")
    /\ clerk' \in ClerkCall /\ clerk' # Idle /\ clerk'.at = "edit" /\ clerk'.session = s
    /\ clerk'.from <= clerk'.to
    /\ Free(clerk'.from) \/ (clerk'.from = session[s].from /\ clerk'.to = session[s].to)
    /\ clerk'.closing = clerk'.opening + Total(session[s].ticks, Here, line)
    /\ UNCHANGED <<session, line, used, last, keeper, faults, stale, overtaken>>

LEMMA EditStep ==
    ASSUME Typed, Ids, NEW s \in Sessions, NEW from \in Days, NEW to \in Days,
           NEW opening \in Balances, NEW balance \in Balances,
           Edit(s, from, to, opening, balance)
    PROVE  EditIs(s)
<1>1. opening \in Int /\ TotalOf(session[s].ticks) \in Int
  BY TotalTyped, FiguresAssumption DEF Typed
<1>2. opening + TotalOf(session[s].ticks) \in Int
  BY <1>1
<1>3. clerk' = [at |-> "edit", session |-> s, from |-> from, to |-> to, opening |-> opening,
                balance |-> balance, closing |-> opening + TotalOf(session[s].ticks)]
  BY DEF Edit
<1>4. clerk' \in ClerkCall /\ clerk' # Idle
  BY <1>2, <1>3 DEF ClerkCall, Idle
<1> QED
  BY <1>3, <1>4, TotalIs DEF Edit, EditIs, Opens

SaveEditIs(s) ==
    /\ In({"edit"}, s) /\ s \in Sessions /\ clerk' = Idle
    /\ SameStates /\ OtherSessions(s)
    /\ session'[s].from = clerk.from /\ session'[s].to = clerk.to
    /\ session'[s].opening = clerk.opening /\ session'[s].balance = clerk.balance
    /\ session'[s].ticks = session[s].ticks
    /\ session'[s].closing = clerk.closing
    /\ session'[s].difference = clerk.balance - clerk.closing
    /\ UNCHANGED <<line, used, last, keeper, faults, stale, overtaken>>

LEMMA SaveEditStep ==
    ASSUME Typed, ClerkAgrees, SaveEdit PROVE SaveEditIs(clerk.session)
<1> DEFINE s == clerk.session
           old == session[s]
           new == [old EXCEPT !.from = clerk.from, !.to = clerk.to, !.opening = clerk.opening,
                              !.balance = clerk.balance, !.closing = clerk.closing,
                              !.difference = clerk.balance - clerk.closing]
<1>1. clerk # Idle /\ clerk.at = "edit"
  BY BusyClerk DEF SaveEdit
<1>2. /\ s \in Sessions /\ s \in Of("open") /\ clerk.from \in Days /\ clerk.to \in Days
      /\ clerk.opening \in Balances /\ clerk.balance \in Balances /\ clerk.closing \in Int
  BY <1>1, ClerkTyped DEF ClerkAgrees, Opens
<1>3. old \in Session /\ old.status = "open" /\ clerk.balance \in Int
  BY <1>2, OfThere, SessionTyped, FiguresAssumption DEF Of, Typed, Session
<1>4. new \in Session
  <2>1. clerk.balance - clerk.closing \in Int
    BY <1>2, <1>3
  <2> HIDE DEF old
  <2> QED
    BY <1>2, <1>3, <2>1 DEF Session
<1>5. /\ new.status = "open" /\ new.from = clerk.from /\ new.to = clerk.to
      /\ new.opening = clerk.opening /\ new.balance = clerk.balance
      /\ new.ticks = old.ticks /\ new.closing = clerk.closing
      /\ new.difference = clerk.balance - clerk.closing
  BY <1>3 DEF Session
<1>6. session' = [session EXCEPT ![s] = new]
  BY DEF SaveEdit
<1> HIDE DEF new
<1>7. SameStates /\ OtherSessions(s) /\ session'[s] = new
  BY <1>2, <1>4, <1>5, <1>6, StaysOpen DEF Typed
<1> QED
  BY <1>1, <1>2, <1>5, <1>7 DEF SaveEdit, SaveEditIs, In

\* Only locks change, of lines there are.
SameLines == /\ line' \in [Lines -> Line \cup {None}] /\ Here' = Here
             /\ \A l \in Here : line'[l].amount = line[l].amount /\ line'[l].day = line[l].day

LEMMA Relocked ==
    ASSUME TypeOK, NEW lock \in [Lines -> Sessions \cup {None}],
           NEW lines \in SUBSET Here,
           line' = [l \in Lines |-> IF l \in lines THEN [line[l] EXCEPT !.lock = lock[l]] ELSE line[l]]
    PROVE  /\ SameLines
           /\ \A l \in Here : line'[l].lock = IF l \in lines THEN lock[l] ELSE line[l].lock
<1>1. ASSUME NEW l \in lines
      PROVE  /\ line'[l] \in Line /\ line'[l].lock = lock[l]
             /\ line'[l].amount = line[l].amount /\ line'[l].day = line[l].day
  <2>1. l \in Lines /\ line[l] \in Line
    BY LineTyped
  <2>2. line'[l] = [line[l] EXCEPT !.lock = lock[l]]
    BY <2>1
  <2> QED
    BY <2>1, <2>2 DEF Line
<1>2. \A l \in Lines \ lines : line'[l] = line[l]
  OBVIOUS
<1>3. line' \in [Lines -> Line \cup {None}]
  <2>1. \A l \in Lines : line'[l] \in Line \cup {None}
    BY <1>1, <1>2 DEF TypeOK
  <2> QED
    BY <2>1
<1>4. Here' = Here
  <2>1. \A l \in lines : line'[l] # None /\ line[l] # None /\ l \in Lines
    BY <1>1, NothingAssumption DEF Here
  <2> QED
    BY <1>2, <2>1 DEF Here
<1> QED
  BY <1>1, <1>2, <1>3, <1>4 DEF SameLines, Here

LockIs(s) ==
    /\ clerk = Idle /\ s \in Of("open")
    /\ clerk' = [at |-> "last", session |-> s]
    /\ SameLines
    /\ \A l \in Here : line'[l].lock = IF l \in session[s].ticks THEN s ELSE line[l].lock
    /\ overtaken \subseteq overtaken' /\ overtaken' \subseteq Sessions
    /\ \A l \in Here \cap session[s].ticks :
          line[l].lock \in Sessions \ {s} => line[l].lock \in overtaken'
    /\ UNCHANGED <<session, used, last, keeper, faults, stale>>

LEMMA LockStep == ASSUME Typed, NEW s \in Sessions, Lock(s) PROVE LockIs(s)
<1> DEFINE lines == Here \cap session[s].ticks
           lock == [l \in Lines |-> s]
<1>1. lock \in [Lines -> Sessions \cup {None}] /\ lines \in SUBSET Here
  OBVIOUS
<1>2. line' = [l \in Lines |-> IF l \in lines THEN [line[l] EXCEPT !.lock = lock[l]] ELSE line[l]]
  BY DEF Lock
<1>3. /\ SameLines
      /\ \A l \in Here : line'[l].lock = IF l \in lines THEN lock[l] ELSE line[l].lock
  <2> HIDE DEF lines, lock
  <2> QED
    BY <1>1, <1>2, Relocked DEF Typed
<1>4. \A l \in Here : l \in Lines /\ line[l].lock \in Sessions \cup {None}
  BY LineTyped DEF Here, Line, Typed
<1>5. overtaken' = overtaken \cup ({line[l].lock : l \in lines} \ {None, s})
  BY DEF Lock, Overtakes
<1>6. overtaken \subseteq overtaken' /\ overtaken' \subseteq Sessions
  BY <1>4, <1>5 DEF Typed, TypeOK
<1>7. \A l \in lines : line[l].lock \in Sessions \ {s} => line[l].lock \in overtaken'
  BY <1>5, NoneAssumption
<1> QED
  BY <1>3, <1>4, <1>6, <1>7 DEF Lock, LockIs, Opens

ReleaseIs(s, at) ==
    /\ clerk = Idle /\ IsLatest(s) /\ s \in Of("completed")
    /\ clerk' = [at |-> at, session |-> s]
    /\ SameLines
    /\ \A l \in Here : line'[l].lock = IF line[l].lock = s THEN None ELSE line[l].lock
    /\ UNCHANGED <<session, used, last, keeper, faults, stale, overtaken>>

LEMMA ReleaseStep ==
    ASSUME Typed, NEW s \in Sessions, NEW at, clerk = Idle, IsLatest(s), Release(s, at)
    PROVE  ReleaseIs(s, at)
<1> DEFINE lines == {l \in Here : line[l].lock = s}
           lock == [l \in Lines |-> None]
<1>1. lock \in [Lines -> Sessions \cup {None}] /\ lines \in SUBSET Here
  OBVIOUS
<1>2. line' = [l \in Lines |-> IF l \in lines THEN [line[l] EXCEPT !.lock = lock[l]] ELSE line[l]]
  BY DEF Release
<1>3. /\ SameLines
      /\ \A l \in Here : line'[l].lock = IF l \in lines THEN lock[l] ELSE line[l].lock
  <2> HIDE DEF lines, lock
  <2> QED
    BY <1>1, <1>2, Relocked DEF Typed
<1>4. \A l \in Here : l \in Lines
  BY DEF Here
<1> QED
  BY <1>3, <1>4 DEF Release, ReleaseIs, IsLatest, Signed

LastSignedIs(s) ==
    /\ In({"last"}, s) /\ s \in Of("open")
    /\ clerk' = [at |-> "sign", session |-> s]
    /\ last' = session[s].balance /\ last' \in Balances
    /\ UNCHANGED <<session, line, used, keeper, faults, stale, overtaken>>

LEMMA AtLast ==
    ASSUME Typed, clerk # Idle, clerk.at \in {"last", "sign", "reopen", "delete", "restore"}
    PROVE  clerk = [at |-> clerk.at, session |-> clerk.session]
BY DEF Typed, ClerkCall

LEMMA LastSignedStep ==
    ASSUME Typed, ClerkAgrees, LastSigned PROVE LastSignedIs(clerk.session)
<1>1. clerk # Idle /\ clerk.at = "last"
  BY BusyClerk DEF LastSigned
<1>2. clerk.session \in Of("open") /\ session[clerk.session] \in Session
  BY <1>1, OfThere, SessionTyped DEF ClerkAgrees, Opens, Typed
<1>3. clerk' = [at |-> "sign", session |-> clerk.session]
  BY <1>1, AtLast DEF LastSigned
<1> QED
  BY <1>1, <1>2, <1>3 DEF LastSigned, LastSignedIs, In, Session

\* One changes from open to completed, or back, and nothing else of it.
SameButStatus(s) ==
    /\ session' \in [Sessions -> Session \cup {None}] /\ There' = There /\ OtherSessions(s)
    /\ session'[s].from = session[s].from /\ session'[s].to = session[s].to
    /\ session'[s].opening = session[s].opening /\ session'[s].balance = session[s].balance
    /\ session'[s].ticks = session[s].ticks /\ session'[s].closing = session[s].closing
    /\ session'[s].difference = session[s].difference

LEMMA StatusSet ==
    ASSUME TypeOK, NEW s \in There, NEW status \in {"open", "completed"},
           session' = [session EXCEPT ![s].status = status]
    PROVE  SameButStatus(s) /\ session'[s].status = status
<1> DEFINE new == [session[s] EXCEPT !.status = status]
<1>1. s \in Sessions /\ session[s] \in Session
  BY SessionTyped
<1>2. new \in Session /\ new # None
  BY <1>1, NothingAssumption DEF Session
<1>3. /\ new.from = session[s].from /\ new.to = session[s].to /\ new.status = status
      /\ new.opening = session[s].opening /\ new.balance = session[s].balance
      /\ new.ticks = session[s].ticks /\ new.closing = session[s].closing
      /\ new.difference = session[s].difference
  BY <1>1 DEF Session
<1> HIDE DEF new
<1>4. session' = [session EXCEPT ![s] = new]
  BY DEF new
<1>5. session' \in [Sessions -> Session \cup {None}] /\ session'[s] = new /\ OtherSessions(s)
  BY <1>1, <1>2, <1>4, SessionSet
<1>6. There' = There
  BY <1>2, <1>5 DEF There, OtherSessions
<1> QED
  BY <1>3, <1>5, <1>6 DEF SameButStatus

SignIs(s) ==
    /\ In({"sign"}, s) /\ s \in Of("open") /\ clerk' = Idle /\ last = session[s].balance
    /\ SameButStatus(s)
    /\ Of("open")' = Of("open") \ {s} /\ Of("completed")' = Of("completed") \cup {s}
    /\ UNCHANGED <<line, used, last, keeper, faults, stale, overtaken>>

LEMMA SignStep == ASSUME Typed, ClerkAgrees, Sign PROVE SignIs(clerk.session)
<1> DEFINE s == clerk.session
<1>1. clerk # Idle /\ clerk.at = "sign"
  BY BusyClerk DEF Sign
<1>2. s \in Of("open") /\ s \in There /\ last = session[s].balance
  BY <1>1, OfThere DEF ClerkAgrees, Opens
<1>3. SameButStatus(s) /\ session'[s].status = "completed"
  BY <1>2, StatusSet DEF Sign, Typed
<1>4. Of("open")' = Of("open") \ {s} /\ Of("completed")' = Of("completed") \cup {s}
  BY <1>2, <1>3 DEF SameButStatus, OtherSessions, Of, There
<1> QED
  BY <1>1, <1>2, <1>3, <1>4 DEF Sign, SignIs, In

SaveReopenedIs(s) ==
    /\ In({"reopen"}, s) /\ s \in Of("completed") /\ IsLatest(s) /\ Of("open") = {}
    /\ clerk' = [at |-> "restore", session |-> s]
    /\ SameButStatus(s)
    /\ Of("open")' = {s} /\ Of("completed")' = Of("completed") \ {s}
    /\ UNCHANGED <<line, used, last, keeper, faults, stale, overtaken>>

LEMMA SaveReopenedStep ==
    ASSUME Typed, ClerkAgrees, SaveReopened PROVE SaveReopenedIs(clerk.session)
<1> DEFINE s == clerk.session
<1>1. clerk # Idle /\ clerk.at = "reopen"
  BY BusyClerk DEF SaveReopened
<1>2. IsLatest(s) /\ s \in Of("completed") /\ s \in There /\ Of("open") = {}
  BY <1>1, OfThere DEF ClerkAgrees, IsLatest, Signed
<1>3. SameButStatus(s) /\ session'[s].status = "open"
  BY <1>2, StatusSet DEF SaveReopened, Typed
<1>4. Of("open")' = {s} /\ Of("completed")' = Of("completed") \ {s}
  BY <1>2, <1>3 DEF SameButStatus, OtherSessions, Of, There
<1>5. clerk' = [at |-> "restore", session |-> s]
  BY <1>1, AtLast DEF SaveReopened
<1> QED
  BY <1>1, <1>2, <1>3, <1>4, <1>5 DEF SaveReopened, SaveReopenedIs, In

\* One goes.
Gone(s) == /\ session' \in [Sessions -> Session \cup {None}] /\ OtherSessions(s)
           /\ There' = There \ {s}
           /\ Of("open")' = Of("open") \ {s} /\ Of("completed")' = Of("completed") \ {s}

LEMMA GoneStep ==
    ASSUME TypeOK, NEW s \in Sessions, session' = [session EXCEPT ![s] = None] PROVE Gone(s)
<1>1. session' \in [Sessions -> Session \cup {None}] /\ session'[s] = None /\ OtherSessions(s)
  BY SessionSet
<1> QED
  BY <1>1 DEF Gone, There, Of, OtherSessions

DropIs(s) ==
    /\ clerk = Idle /\ clerk' = Idle /\ s \in Of("open") /\ Gone(s)
    /\ UNCHANGED <<line, used, last, keeper, faults, stale, overtaken>>

LEMMA DropStep == ASSUME Typed, NEW s \in Sessions, Drop(s) PROVE DropIs(s)
BY GoneStep DEF Drop, DropIs, Opens, Typed

SaveDeletedIs(s) ==
    /\ In({"delete"}, s) /\ s \in Of("completed") /\ IsLatest(s)
    /\ clerk' = [at |-> "restore", session |-> s] /\ Gone(s)
    /\ UNCHANGED <<line, used, last, keeper, faults, stale, overtaken>>

LEMMA SaveDeletedStep ==
    ASSUME Typed, ClerkAgrees, SaveDeleted PROVE SaveDeletedIs(clerk.session)
<1> DEFINE s == clerk.session
<1>1. clerk # Idle /\ clerk.at = "delete"
  BY BusyClerk DEF SaveDeleted
<1>2. IsLatest(s) /\ s \in Of("completed") /\ s \in Sessions
  BY <1>1, ClerkTyped DEF ClerkAgrees, IsLatest, Signed
<1>3. clerk' = [at |-> "restore", session |-> s]
  BY <1>1, AtLast DEF SaveDeleted
<1> QED
  BY <1>1, <1>2, <1>3, GoneStep DEF SaveDeleted, SaveDeletedIs, In, Typed

RestoreIs ==
    /\ clerk # Idle /\ clerk.at = "restore" /\ clerk' = Idle
    /\ last' \in Balances \cup {None}
    /\ IF Of("completed") = {} THEN last' = None
       ELSE \E s \in Sessions : IsLatest(s) /\ last' = session[s].balance
    /\ UNCHANGED <<session, line, used, keeper, faults, stale, overtaken>>

LEMMA RestoreStep == ASSUME Typed, Restore PROVE RestoreIs
<1>1. clerk # Idle
  BY BusyClerk DEF Restore
<1>2. CASE Of("completed") = {}
  BY <1>1, <1>2 DEF Restore, RestoreIs
<1>3. CASE Of("completed") # {}
  <2> DEFINE s == CHOOSE x \in Sessions : IsLatest(x)
  <2>1. s \in Sessions /\ IsLatest(s)
    BY <1>3, HasLatest DEF Typed
  <2>2. session[s] \in Session
    BY <2>1, OfThere, SessionTyped DEF IsLatest, Signed, Typed
  <2>3. last' = session[s].balance
    BY <1>3 DEF Restore
  <2> HIDE DEF s
  <2> QED
    BY <1>1, <1>3, <2>1, <2>2, <2>3 DEF Restore, RestoreIs, Session
<1> QED
  BY <1>2, <1>3

DieIs ==
    /\ clerk # Idle /\ clerk' = Idle /\ faults' # 0 /\ faults' \in 0..MaxFaults
    /\ stale' = stale \cup {clerk.session} /\ stale' \subseteq Sessions
    /\ UNCHANGED <<session, line, used, last, keeper, overtaken>>

LEMMA DieStep == ASSUME Typed, Die PROVE DieIs
<1>1. clerk # Idle /\ clerk.session \in Sessions
  BY ClerkTyped DEF Die
<1>2. faults' # 0 /\ faults' \in 0..MaxFaults
  BY BoundsAssumption DEF Die, Typed, TypeOK
<1> QED
  BY <1>1, <1>2 DEF Die, DieIs, Typed, TypeOK

AddIs(l) ==
    /\ keeper = Idle /\ keeper' = Idle /\ l \in Lines \ used /\ l \notin Here
    /\ line' \in [Lines -> Line \cup {None}] /\ Here' = Here \cup {l}
    /\ line'[l].lock = None /\ \A m \in Here : line'[m] = line[m]
    /\ used' = used \cup {l} /\ UNCHANGED <<session, last, clerk, faults, stale, overtaken>>

LEMMA AddStep ==
    ASSUME Typed, Ids, NEW l \in Lines, NEW day \in Days, NEW amount \in Amounts,
           Add(l, day, amount)
    PROVE  AddIs(l)
<1> DEFINE new == [day |-> day, amount |-> amount, lock |-> None]
<1>1. new \in Line /\ new.lock = None /\ new # None
  BY NothingAssumption DEF Line
<1>2. line' = [line EXCEPT ![l] = new] /\ keeper = Idle /\ l \notin used
  BY DEF Add
<1> HIDE DEF new
<1>3. line' \in [Lines -> Line \cup {None}] /\ line'[l] = new
      /\ \A m \in Lines : m # l => line'[m] = line[m]
  BY <1>1, <1>2 DEF Typed, TypeOK
<1>4. l \notin Here
  BY <1>2 DEF Ids
<1>5. Here' = Here \cup {l}
  BY <1>1, <1>3 DEF Here
<1>6. \A m \in Here : line'[m] = line[m]
  BY <1>3, <1>4 DEF Here
<1> QED
  BY <1>1, <1>2, <1>3, <1>4, <1>5, <1>6 DEF Add, AddIs

KeepIs(l) ==
    /\ keeper = Idle /\ keeper' \in KeeperCall /\ keeper' # Idle /\ keeper'.line = l /\ l \in Here
    /\ UNCHANGED <<session, line, used, last, clerk, faults, stale, overtaken>>

LEMMA LooseTyped == ASSUME Typed PROVE Loose \subseteq Sessions
BY ClerkTyped DEF Loose, Of

LEMMA KeepStep ==
    ASSUME Typed, NEW l \in Lines, NEW what \in {"correct", "remove"}, Keep(l, what)
    PROVE  KeepIs(l)
<1>1. l \in Here /\ line[l].lock = None
  BY DEF Keep, Editable
<1>2. keeper' = [at |-> what, line |-> l, lock |-> None, open |-> Loose]
  BY <1>1 DEF Keep
<1>3. keeper' \in KeeperCall /\ keeper' # Idle /\ keeper'.line = l
  BY <1>2, LooseTyped DEF KeeperCall, Idle
<1> QED
  BY <1>1, <1>3 DEF Keep, KeepIs

\* A line is corrected or goes: of those that tick it, the one open, the clerk's
\* and the one it is reconciled by are marked.
ChangedIs(l) ==
    /\ l \in Here /\ keeper' = Idle
    /\ line' \in [Lines -> Line \cup {None}]
    /\ Here' \subseteq Here /\ Here \ {l} \subseteq Here'
    /\ \A m \in Here' : line'[m].lock = line[m].lock
    /\ \A m \in Here' : m # l => line'[m].amount = line[m].amount
    /\ stale \subseteq stale' /\ stale' \subseteq Sessions
    /\ \A s \in Ticking(l) : s \in Loose \/ line[l].lock = s => s \in stale'
    /\ UNCHANGED <<session, used, last, clerk, faults, overtaken>>

LEMMA KeeperTyped ==
    ASSUME Typed, keeper # Idle
    PROVE  keeper.line \in Lines /\ keeper.lock = None /\ keeper.open \subseteq Sessions
BY DEF Typed, KeeperCall

LEMMA UnderMarks ==
    ASSUME Typed, Ids, keeper # Idle, stale' = stale \cup Under
    PROVE  /\ stale \subseteq stale' /\ stale' \subseteq Sessions
           /\ \A s \in Ticking(keeper.line) :
                 s \in Loose \/ line[keeper.line].lock = s => s \in stale'
<1>1. keeper.lock = None
  BY KeeperTyped
<1>2. Ticking(keeper.line) \subseteq Sessions
  BY DEF Ticking
<1>3. None \notin Ticking(keeper.line)
  BY <1>2, NoneAssumption
<1> QED
  BY <1>1, <1>2, <1>3 DEF Under, Typed, TypeOK

LEMMA CorrectStep ==
    ASSUME Typed, Ids, NEW day \in Days, NEW amount \in Amounts, Correct(day, amount)
    PROVE  ChangedIs(keeper.line)
<1> DEFINE l == keeper.line
           new == [line[l] EXCEPT !.day = day, !.amount = amount]
<1>1. keeper # Idle
  BY DEF Correct, Idle
<1>2. l \in Here /\ l \in Lines /\ line[l] \in Line
  BY <1>1, LineTyped DEF Ids, Typed
<1>3. new \in Line /\ new.lock = line[l].lock /\ new # None
  BY <1>2, NothingAssumption DEF Line
<1>4. line' = [line EXCEPT ![l] = new]
  BY <1>2 DEF Correct, Typed, TypeOK
<1> HIDE DEF new
<1>5. line' \in [Lines -> Line \cup {None}] /\ line'[l] = new
      /\ \A m \in Lines : m # l => line'[m] = line[m]
  BY <1>2, <1>3, <1>4 DEF Typed, TypeOK
<1>6. Here' = Here
  BY <1>2, <1>3, <1>5 DEF Here
<1>7. \A m \in Here : m # l => line'[m] = line[m]
  BY <1>5 DEF Here
<1> HIDE DEF l
<1> QED
  BY <1>1, <1>2, <1>3, <1>5, <1>6, <1>7, UnderMarks DEF Correct, ChangedIs, l

LEMMA RemoveStep == ASSUME Typed, Ids, RemoveLine PROVE ChangedIs(keeper.line)
<1> DEFINE l == keeper.line
<1>1. keeper # Idle
  BY DEF RemoveLine, Idle
<1>2. l \in Here /\ l \in Lines
  BY <1>1, LineTyped DEF Ids, Typed
<1>3. line' \in [Lines -> Line \cup {None}] /\ line'[l] = None
      /\ \A m \in Lines : m # l => line'[m] = line[m]
  BY <1>2 DEF RemoveLine, Typed, TypeOK
<1>4. Here' = Here \ {l}
  BY <1>2, <1>3 DEF Here
<1>5. \A m \in Here : m # l => line'[m] = line[m]
  BY <1>3 DEF Here
<1> HIDE DEF l
<1> QED
  BY <1>1, <1>2, <1>3, <1>4, <1>5, UnderMarks DEF RemoveLine, ChangedIs, l

\* Where nothing of a kind changes.
LEMMA SessionsStay == ASSUME Typed, UNCHANGED session PROVE SameStates
BY DEF SameStates, There, Of, Typed, TypeOK

LEMMA LinesStay == ASSUME Typed, UNCHANGED line PROVE SameLines
BY DEF SameLines, Here, Typed, TypeOK

LEMMA TotalsStay ==
    ASSUME SameLines, NEW lines PROVE Total(lines, Here', line') = Total(lines, Here, line)
BY TotalKept DEF SameLines

LEMMA Basics ==
    ASSUME Typed
    PROVE  /\ There \subseteq Sessions
           /\ Of("open") \subseteq There /\ Of("completed") \subseteq There
           /\ Of("open") \cap Of("completed") = {}
           /\ There \subseteq Of("open") \cup Of("completed")
           /\ \A s \in There : session[s].from \in Int /\ session[s].to \in Int
<1>1. There \subseteq Sessions /\ Of("open") \cap Of("completed") = {}
  BY DEF There, Of
<1>2. \A s \in There : session[s].from \in Int /\ session[s].to \in Int
  BY SessionTyped DEF Typed, Session, Days
<1>3. There \subseteq Of("open") \cup Of("completed")
  BY <1>1, SessionTyped DEF Typed, Session, Of, There
<1> QED
  BY <1>1, <1>2, <1>3, OfThere

----------------------------------------------------------------------------
(* What each action keeps. *)

LEMMA StartKeeps ==
    ASSUME IInv, NEW s \in Sessions, NEW from \in Days, NEW to \in Days,
           NEW opening \in Balances, NEW balance \in Balances, Start(s, from, to, opening, balance)
    PROVE  IInv'
<1>1. StartIs(s, from, to, opening, balance)
  BY StartStep DEF IInv
<1>2. /\ There \subseteq Sessions
      /\ Of("open") \subseteq There /\ Of("completed") \subseteq There
      /\ Of("open") \cap Of("completed") = {}
      /\ There \subseteq Of("open") \cup Of("completed")
      /\ \A t \in There : session[t].from \in Int /\ session[t].to \in Int
  BY Basics DEF IInv
<1>3. SameLines
  BY <1>1, LinesStay DEF IInv, StartIs, OtherSessions
<1>4. s \notin There /\ \A t \in There : session'[t] = session[t]
  BY <1>2, <1>1 DEF StartIs, OtherSessions, IInv, Ids
<1>5. Typed'
  BY <1>2, <1>1, <1>3, <1>4 DEF IInv, Typed, TypeOK, StartIs, OtherSessions, SameLines
<1>6. Ids'
  BY <1>2, <1>1, FS_AddElement, <1>3, <1>4 DEF IInv, Ids, StartIs, OtherSessions, SameLines
<1>7. Ordered'
  BY <1>2, <1>1, <1>3, <1>4 DEF IInv, Ordered, Free, StartIs, OtherSessions, SameLines
<1>8. ClerkAgrees'
  BY <1>2, <1>1, <1>3, <1>4
  DEF IInv, ClerkAgrees, Free, IsLatest, Signed, Opens, StartIs, OtherSessions, SameLines
<1>9. TickedIsLocked'
  BY <1>2, <1>1, <1>3, <1>4
  DEF IInv, TickedIsLocked, Fresh, Holds, In, Signed, StartIs, OtherSessions, SameLines
<1>10. LockedIsTicked'
  BY <1>2, <1>1, <1>3, <1>4
  DEF IInv, LockedIsTicked, Holds, In, Signed, StartIs, OtherSessions, SameLines
<1>11. LastStands'
  BY <1>2, <1>1, <1>3, <1>4
  DEF IInv, LastStands, IsLatest, Signed, StartIs, OtherSessions, SameLines
<1>12. Figures'
  BY <1>2, <1>1, TotalsStay, <1>3, <1>4 DEF IInv, Figures, StartIs, OtherSessions, SameLines
<1>13. FiguresRight'
  <2>1. ASSUME NEW t \in There \ (stale \cup overtaken)
        PROVE  /\ session'[t].closing = session'[t].opening + Total(session'[t].ticks, Here', line')
               /\ session'[t].difference = session'[t].balance - session'[t].closing
    BY <1>3, <1>4, TotalsStay DEF IInv, FiguresRight
  <2>2. opening + Total({}, Here', line') = opening
    BY TotalOfNone, FiguresAssumption
  <2> QED
    BY <1>1, <2>1, <2>2 DEF FiguresRight, StartIs
<1> QED
  BY <1>5, <1>6, <1>7, <1>8, <1>9, <1>10, <1>11, <1>12, <1>13 DEF IInv

LEMMA TickKeeps ==
    ASSUME IInv, NEW s \in Sessions, NEW ticks \in SUBSET Lines, Tick(s, ticks)
    PROVE  IInv'
<1>1. TickIs(s, ticks)
  BY TickStep DEF IInv
<1>2. /\ There \subseteq Sessions
      /\ Of("open") \subseteq There /\ Of("completed") \subseteq There
      /\ Of("open") \cap Of("completed") = {}
      /\ There \subseteq Of("open") \cup Of("completed")
      /\ \A t \in There : session[t].from \in Int /\ session[t].to \in Int
  BY Basics DEF IInv
<1>3. SameStates /\ SameLines
  BY <1>1, SessionsStay, LinesStay DEF IInv, TickIs
<1>4. Typed'
  BY <1>2, <1>1, <1>3 DEF IInv, Typed, TypeOK, TickIs, SameStates, SameLines
<1>5. Ids'
  BY <1>2, <1>1, <1>3 DEF IInv, Ids, TickIs, SameStates, SameLines
<1>6. Ordered'
  BY <1>2, <1>1, <1>3 DEF IInv, Ordered, Free, TickIs, SameStates, SameLines
<1>7. ClerkAgrees'
  BY <1>2, <1>1, <1>3
  DEF IInv, ClerkAgrees, Free, IsLatest, Signed, Opens, TickIs, SameStates, SameLines
<1>8. TickedIsLocked'
  BY <1>2, <1>1, <1>3
  DEF IInv, TickedIsLocked, Fresh, Holds, In, Signed, TickIs, SameStates, SameLines
<1>9. LockedIsTicked'
  BY <1>2, <1>1, <1>3
  DEF IInv, LockedIsTicked, Holds, In, Signed, TickIs, SameStates, SameLines
<1>10. LastStands'
  BY <1>2, <1>1, <1>3 DEF IInv, LastStands, IsLatest, Signed, TickIs, SameStates, SameLines
<1>11. Figures'
  BY <1>2, <1>1, TotalsStay, <1>3 DEF IInv, Figures, TickIs, SameStates, SameLines
<1>12. FiguresRight'
  BY <1>2, <1>1, TotalsStay, <1>3 DEF IInv, FiguresRight, TickIs, SameStates, SameLines
<1> QED
  BY <1>4, <1>5, <1>6, <1>7, <1>8, <1>9, <1>10, <1>11, <1>12 DEF IInv

LEMMA SaveTicksKeeps ==
    ASSUME IInv, SaveTicks
    PROVE  IInv'
<1>1. SaveTicksIs(clerk.session)
  BY SaveTicksStep DEF IInv
<1>2. /\ There \subseteq Sessions
      /\ Of("open") \subseteq There /\ Of("completed") \subseteq There
      /\ Of("open") \cap Of("completed") = {}
      /\ There \subseteq Of("open") \cup Of("completed")
      /\ \A t \in There : session[t].from \in Int /\ session[t].to \in Int
  BY Basics DEF IInv
<1>3. SameLines
  BY <1>1, LinesStay DEF IInv, SaveTicksIs, OtherSessions, In
<1>4. /\ \A t \in There : t # clerk.session => session'[t] = session[t]
      /\ clerk.session \in Of("open")
      /\ session'[clerk.session].ticks = clerk.ticks
  BY <1>2, <1>1 DEF SaveTicksIs, OtherSessions, In, IInv, ClerkAgrees, Opens
<1>5. Typed'
  BY <1>2, <1>1, <1>3, <1>4
  DEF IInv, Typed, TypeOK, SaveTicksIs, OtherSessions, In, SameStates, SameLines
<1>6. Ids'
  BY <1>2, <1>1, <1>3, <1>4 DEF IInv, Ids, SaveTicksIs, OtherSessions, In, SameStates, SameLines
<1>7. Ordered'
  BY <1>2, <1>1, <1>3, <1>4
  DEF IInv, Ordered, Free, SaveTicksIs, OtherSessions, In, SameStates, SameLines
<1>8. ClerkAgrees'
  BY <1>2, <1>1, <1>3, <1>4
  DEF IInv, ClerkAgrees, Free, IsLatest, Signed, Opens, SaveTicksIs, OtherSessions, In,
      SameStates, SameLines
<1>9. TickedIsLocked'
  BY <1>2, <1>1, <1>3, <1>4
  DEF IInv, TickedIsLocked, Fresh, Holds, In, Signed, SaveTicksIs, OtherSessions, SameStates,
      SameLines
<1>10. LockedIsTicked'
  BY <1>2, <1>1, <1>3, <1>4
  DEF IInv, LockedIsTicked, Holds, In, Signed, SaveTicksIs, OtherSessions, SameStates,
      SameLines
<1>11. LastStands'
  BY <1>2, <1>1, <1>3, <1>4
  DEF IInv, LastStands, IsLatest, Signed, SaveTicksIs, OtherSessions, In, SameStates, SameLines
<1>12. Figures'
  BY <1>2, <1>1, TotalsStay, <1>3, <1>4
  DEF IInv, Figures, SaveTicksIs, OtherSessions, In, SameStates, SameLines
<1>13. FiguresRight'
  <2> DEFINE s == clerk.session
  <2>1. There' = There /\ stale' = stale /\ overtaken' = overtaken
    BY <1>1 DEF SaveTicksIs, SameStates
  <2>2. ASSUME s \notin stale
        PROVE  /\ session'[s].closing = session'[s].opening + Total(session'[s].ticks, Here', line')
               /\ session'[s].difference = session'[s].balance - session'[s].closing
    BY <1>1, <1>3, <1>4, <2>2, TotalsStay DEF IInv, Figures, SaveTicksIs, In
  <2>3. ASSUME NEW t \in There \ (stale \cup overtaken), t # s
        PROVE  /\ session'[t].closing = session'[t].opening + Total(session'[t].ticks, Here', line')
               /\ session'[t].difference = session'[t].balance - session'[t].closing
    BY <1>3, <1>4, <2>3, TotalsStay DEF IInv, FiguresRight
  <2> HIDE DEF s
  <2> QED
    BY <2>1, <2>2, <2>3 DEF FiguresRight
<1> QED
  BY <1>5, <1>6, <1>7, <1>8, <1>9, <1>10, <1>11, <1>12, <1>13 DEF IInv

LEMMA EditKeeps ==
    ASSUME IInv, NEW s \in Sessions, NEW from \in Days, NEW to \in Days,
           NEW opening \in Balances, NEW balance \in Balances, Edit(s, from, to, opening, balance)
    PROVE  IInv'
<1>1. EditIs(s)
  BY EditStep DEF IInv
<1>2. /\ There \subseteq Sessions
      /\ Of("open") \subseteq There /\ Of("completed") \subseteq There
      /\ Of("open") \cap Of("completed") = {}
      /\ There \subseteq Of("open") \cup Of("completed")
      /\ \A t \in There : session[t].from \in Int /\ session[t].to \in Int
  BY Basics DEF IInv
<1>3. SameStates /\ SameLines
  BY <1>1, SessionsStay, LinesStay DEF IInv, EditIs
<1>4. Typed'
  BY <1>2, <1>1, <1>3 DEF IInv, Typed, TypeOK, EditIs, SameStates, SameLines
<1>5. Ids'
  BY <1>2, <1>1, <1>3 DEF IInv, Ids, EditIs, SameStates, SameLines
<1>6. Ordered'
  BY <1>2, <1>1, <1>3 DEF IInv, Ordered, Free, EditIs, SameStates, SameLines
<1>7. ClerkAgrees'
  BY <1>2, <1>1, <1>3
  DEF IInv, ClerkAgrees, Free, IsLatest, Signed, Opens, EditIs, SameStates, SameLines
<1>8. TickedIsLocked'
  BY <1>2, <1>1, <1>3
  DEF IInv, TickedIsLocked, Fresh, Holds, In, Signed, EditIs, SameStates, SameLines
<1>9. LockedIsTicked'
  BY <1>2, <1>1, <1>3 DEF IInv, LockedIsTicked, Holds, In, Signed, EditIs, SameStates, SameLines
<1>10. LastStands'
  BY <1>2, <1>1, <1>3 DEF IInv, LastStands, IsLatest, Signed, EditIs, SameStates, SameLines
<1>11. Figures'
  BY <1>2, <1>1, TotalsStay, <1>3 DEF IInv, Figures, EditIs, SameStates, SameLines
<1>12. FiguresRight'
  BY <1>2, <1>1, TotalsStay, <1>3 DEF IInv, FiguresRight, EditIs, SameStates, SameLines
<1> QED
  BY <1>4, <1>5, <1>6, <1>7, <1>8, <1>9, <1>10, <1>11, <1>12 DEF IInv

LEMMA SaveEditKeeps ==
    ASSUME IInv, SaveEdit
    PROVE  IInv'
<1>1. SaveEditIs(clerk.session)
  BY SaveEditStep DEF IInv
<1>2. /\ There \subseteq Sessions
      /\ Of("open") \subseteq There /\ Of("completed") \subseteq There
      /\ Of("open") \cap Of("completed") = {}
      /\ There \subseteq Of("open") \cup Of("completed")
      /\ \A t \in There : session[t].from \in Int /\ session[t].to \in Int
  BY Basics DEF IInv
<1>3. SameLines
  BY <1>1, LinesStay DEF IInv, SaveEditIs, OtherSessions, In
<1>4. /\ \A t \in There : t # clerk.session => session'[t] = session[t]
      /\ clerk.session \in Of("open")
      /\ session'[clerk.session].ticks = session[clerk.session].ticks
  BY <1>2, <1>1 DEF SaveEditIs, OtherSessions, In, IInv, ClerkAgrees, Opens
<1>5. Typed'
  BY <1>2, <1>1, <1>3, <1>4
  DEF IInv, Typed, TypeOK, SaveEditIs, OtherSessions, In, SameStates, SameLines
<1>6. Ids'
  BY <1>2, <1>1, <1>3, <1>4 DEF IInv, Ids, SaveEditIs, OtherSessions, In, SameStates, SameLines
<1>7. Ordered'
  <2>1. /\ clerk.from <= clerk.to
        /\ Free(clerk.from) \/ (clerk.from = session[clerk.session].from /\ clerk.to = session[clerk.session].to)
    BY <1>1 DEF IInv, ClerkAgrees, SaveEditIs, In
  <2>2. Free(clerk.from)
    BY <1>4, <2>1 DEF IInv, Ordered
  <2> QED
    BY <1>2, <1>1, <1>4, <2>1, <2>2 DEF IInv, Ordered, Free, SaveEditIs, SameStates
<1>8. ClerkAgrees'
  BY <1>2, <1>1, <1>3, <1>4
  DEF IInv, ClerkAgrees, Free, IsLatest, Signed, Opens, SaveEditIs, OtherSessions, In,
      SameStates, SameLines
<1>9. TickedIsLocked'
  BY <1>2, <1>1, <1>3, <1>4
  DEF IInv, TickedIsLocked, Fresh, Holds, In, Signed, SaveEditIs, OtherSessions, SameStates,
      SameLines
<1>10. LockedIsTicked'
  BY <1>2, <1>1, <1>3, <1>4
  DEF IInv, LockedIsTicked, Holds, In, Signed, SaveEditIs, OtherSessions, SameStates, SameLines
<1>11. LastStands'
  BY <1>2, <1>1, <1>3, <1>4
  DEF IInv, LastStands, IsLatest, Signed, SaveEditIs, OtherSessions, In, SameStates, SameLines
<1>12. Figures'
  BY <1>2, <1>1, TotalsStay, <1>3, <1>4
  DEF IInv, Figures, SaveEditIs, OtherSessions, In, SameStates, SameLines
<1>13. FiguresRight'
  <2> DEFINE s == clerk.session
  <2>1. There' = There /\ stale' = stale /\ overtaken' = overtaken
    BY <1>1 DEF SaveEditIs, SameStates
  <2>2. ASSUME s \notin stale
        PROVE  /\ session'[s].closing = session'[s].opening + Total(session'[s].ticks, Here', line')
               /\ session'[s].difference = session'[s].balance - session'[s].closing
    BY <1>1, <1>3, <1>4, <2>2, TotalsStay DEF IInv, Figures, SaveEditIs, In
  <2>3. ASSUME NEW t \in There \ (stale \cup overtaken), t # s
        PROVE  /\ session'[t].closing = session'[t].opening + Total(session'[t].ticks, Here', line')
               /\ session'[t].difference = session'[t].balance - session'[t].closing
    BY <1>3, <1>4, <2>3, TotalsStay DEF IInv, FiguresRight
  <2> HIDE DEF s
  <2> QED
    BY <2>1, <2>2, <2>3 DEF FiguresRight
<1> QED
  BY <1>5, <1>6, <1>7, <1>8, <1>9, <1>10, <1>11, <1>12, <1>13 DEF IInv

LEMMA LockKeeps ==
    ASSUME IInv, NEW s \in Sessions, Lock(s)
    PROVE  IInv'
<1>1. LockIs(s)
  BY LockStep DEF IInv
<1>2. /\ There \subseteq Sessions
      /\ Of("open") \subseteq There /\ Of("completed") \subseteq There
      /\ Of("open") \cap Of("completed") = {}
      /\ There \subseteq Of("open") \cup Of("completed")
      /\ \A t \in There : session[t].from \in Int /\ session[t].to \in Int
  BY Basics DEF IInv
<1>3. SameStates
  BY <1>1, SessionsStay DEF IInv, LockIs
<1>4. Typed'
  BY <1>2, <1>1, <1>3 DEF IInv, Typed, TypeOK, LockIs, SameStates, SameLines, ClerkCall, Idle
<1>5. Ids'
  BY <1>2, <1>1, <1>3 DEF IInv, Ids, LockIs, SameStates, SameLines, Idle
<1>6. Ordered'
  BY <1>2, <1>1, <1>3 DEF IInv, Ordered, Free, LockIs, SameStates, SameLines, Idle
<1>7. ClerkAgrees'
  BY <1>2, <1>1, <1>3
  DEF IInv, ClerkAgrees, Free, IsLatest, Signed, Opens, LockIs, SameStates, SameLines, Idle
<1>8. TickedIsLocked'
  <2> SUFFICES ASSUME NEW p \in Sessions \ overtaken', Fresh(p), Holds(p)',
                      NEW l \in session[p].ticks \cap Here
               PROVE  line'[l].lock = p
    BY <1>1, <1>3 DEF TickedIsLocked, Fresh, LockIs, SameLines
  <2>1. line'[l].lock = IF l \in session[s].ticks THEN s ELSE line[l].lock
    BY <1>1 DEF LockIs
  <2>2. CASE p = s
    BY <2>1, <2>2
  <2>3. CASE p # s
    <3>1. p \in Of("completed") /\ Holds(p) /\ p \notin overtaken
      BY <1>1, <1>3, <2>3 DEF Holds, In, LockIs, Signed, SameStates
    <3>2. line[l].lock = p
      BY <3>1 DEF IInv, TickedIsLocked
    <3>3. l \notin session[s].ticks
      BY <1>1, <2>3, <3>2 DEF LockIs
    <3> QED
      BY <2>1, <3>2, <3>3
  <2> QED
    BY <2>2, <2>3
<1>9. LockedIsTicked'
  BY <1>2, <1>1, <1>3
  DEF IInv, LockedIsTicked, Holds, In, Signed, LockIs, SameStates, SameLines, Idle
<1>10. LastStands'
  BY <1>2, <1>1, <1>3 DEF IInv, LastStands, IsLatest, Signed, LockIs, SameStates, SameLines, Idle
<1>11. Figures'
  BY <1>2, <1>1, TotalsStay, <1>3 DEF IInv, Figures, LockIs, SameStates, SameLines, Idle
<1>12. FiguresRight'
  BY <1>2, <1>1, TotalsStay, <1>3 DEF IInv, FiguresRight, LockIs, SameStates, SameLines, Idle
<1> QED
  BY <1>4, <1>5, <1>6, <1>7, <1>8, <1>9, <1>10, <1>11, <1>12 DEF IInv

LEMMA ReopenKeeps ==
    ASSUME IInv, NEW s \in Sessions, Reopen(s)
    PROVE  IInv'
<1>1. ReleaseIs(s, "reopen") /\ Of("open") = {}
  BY ReleaseStep DEF IInv, Reopen
<1>2. /\ There \subseteq Sessions
      /\ Of("open") \subseteq There /\ Of("completed") \subseteq There
      /\ Of("open") \cap Of("completed") = {}
      /\ There \subseteq Of("open") \cup Of("completed")
      /\ \A t \in There : session[t].from \in Int /\ session[t].to \in Int
  BY Basics DEF IInv
<1>3. SameStates
  BY <1>1, SessionsStay DEF IInv, ReleaseIs
<1>4. Typed'
  BY <1>2, <1>1, <1>3 DEF IInv, Typed, TypeOK, ReleaseIs, SameStates, SameLines, ClerkCall, Idle
<1>5. Ids'
  BY <1>2, <1>1, <1>3 DEF IInv, Ids, ReleaseIs, SameStates, SameLines, Idle
<1>6. Ordered'
  BY <1>2, <1>1, <1>3 DEF IInv, Ordered, Free, ReleaseIs, SameStates, SameLines, Idle
<1>7. ClerkAgrees'
  BY <1>2, <1>1, <1>3
  DEF IInv, ClerkAgrees, Free, IsLatest, Signed, Opens, ReleaseIs, SameStates, SameLines, Idle
<1>8. TickedIsLocked'
  BY <1>2, <1>1, <1>3
  DEF IInv, TickedIsLocked, Fresh, Holds, In, Signed, ReleaseIs, SameStates, SameLines, Idle
<1>9. LockedIsTicked'
  BY <1>2, <1>1, <1>3, NoneAssumption
     DEF IInv, LockedIsTicked, Holds, In, Signed, ReleaseIs, SameStates, SameLines, Idle
<1>10. LastStands'
  BY <1>2, <1>1, <1>3 DEF IInv, LastStands, IsLatest, Signed, ReleaseIs, SameStates, SameLines, Idle
<1>11. Figures'
  BY <1>2, <1>1, TotalsStay, <1>3 DEF IInv, Figures, ReleaseIs, SameStates, SameLines, Idle
<1>12. FiguresRight'
  BY <1>2, <1>1, TotalsStay, <1>3 DEF IInv, FiguresRight, ReleaseIs, SameStates, SameLines, Idle
<1> QED
  BY <1>4, <1>5, <1>6, <1>7, <1>8, <1>9, <1>10, <1>11, <1>12 DEF IInv

LEMMA DeleteKeeps ==
    ASSUME IInv, NEW s \in Sessions, Delete(s)
    PROVE  IInv'
<1>1. ReleaseIs(s, "delete")
  BY ReleaseStep DEF IInv, Delete
<1>2. /\ There \subseteq Sessions
      /\ Of("open") \subseteq There /\ Of("completed") \subseteq There
      /\ Of("open") \cap Of("completed") = {}
      /\ There \subseteq Of("open") \cup Of("completed")
      /\ \A t \in There : session[t].from \in Int /\ session[t].to \in Int
  BY Basics DEF IInv
<1>3. SameStates
  BY <1>1, SessionsStay DEF IInv, ReleaseIs
<1>4. Typed'
  BY <1>2, <1>1, <1>3 DEF IInv, Typed, TypeOK, ReleaseIs, SameStates, SameLines, ClerkCall, Idle
<1>5. Ids'
  BY <1>2, <1>1, <1>3 DEF IInv, Ids, ReleaseIs, SameStates, SameLines, Idle
<1>6. Ordered'
  BY <1>2, <1>1, <1>3 DEF IInv, Ordered, Free, ReleaseIs, SameStates, SameLines, Idle
<1>7. ClerkAgrees'
  BY <1>2, <1>1, <1>3
  DEF IInv, ClerkAgrees, Free, IsLatest, Signed, Opens, ReleaseIs, SameStates, SameLines, Idle
<1>8. TickedIsLocked'
  BY <1>2, <1>1, <1>3
  DEF IInv, TickedIsLocked, Fresh, Holds, In, Signed, ReleaseIs, SameStates, SameLines, Idle
<1>9. LockedIsTicked'
  BY <1>2, <1>1, <1>3, NoneAssumption
     DEF IInv, LockedIsTicked, Holds, In, Signed, ReleaseIs, SameStates, SameLines, Idle
<1>10. LastStands'
  BY <1>2, <1>1, <1>3 DEF IInv, LastStands, IsLatest, Signed, ReleaseIs, SameStates, SameLines, Idle
<1>11. Figures'
  BY <1>2, <1>1, TotalsStay, <1>3 DEF IInv, Figures, ReleaseIs, SameStates, SameLines, Idle
<1>12. FiguresRight'
  BY <1>2, <1>1, TotalsStay, <1>3 DEF IInv, FiguresRight, ReleaseIs, SameStates, SameLines, Idle
<1> QED
  BY <1>4, <1>5, <1>6, <1>7, <1>8, <1>9, <1>10, <1>11, <1>12 DEF IInv

LEMMA LastSignedKeeps ==
    ASSUME IInv, LastSigned
    PROVE  IInv'
<1>1. LastSignedIs(clerk.session)
  BY LastSignedStep DEF IInv
<1>2. /\ There \subseteq Sessions
      /\ Of("open") \subseteq There /\ Of("completed") \subseteq There
      /\ Of("open") \cap Of("completed") = {}
      /\ There \subseteq Of("open") \cup Of("completed")
      /\ \A t \in There : session[t].from \in Int /\ session[t].to \in Int
  BY Basics DEF IInv
<1>3. SameStates /\ SameLines
  BY <1>1, SessionsStay, LinesStay DEF IInv, LastSignedIs, In
<1>4. Typed'
  BY <1>2, <1>1, <1>3
  DEF IInv, Typed, TypeOK, LastSignedIs, In, SameStates, SameLines, ClerkCall, Idle
<1>5. Ids'
  BY <1>2, <1>1, <1>3 DEF IInv, Ids, LastSignedIs, In, SameStates, SameLines, Idle
<1>6. Ordered'
  BY <1>2, <1>1, <1>3 DEF IInv, Ordered, Free, LastSignedIs, In, SameStates, SameLines, Idle
<1>7. ClerkAgrees'
  BY <1>2, <1>1, <1>3
  DEF IInv, ClerkAgrees, Free, IsLatest, Signed, Opens, LastSignedIs, In, SameStates,
      SameLines, Idle
<1>8. TickedIsLocked'
  BY <1>2, <1>1, <1>3
  DEF IInv, TickedIsLocked, Fresh, Holds, In, Signed, LastSignedIs, SameStates, SameLines, Idle
<1>9. LockedIsTicked'
  BY <1>2, <1>1, <1>3
  DEF IInv, LockedIsTicked, Holds, In, Signed, LastSignedIs, SameStates, SameLines, Idle
<1>10. LastStands'
  BY <1>2, <1>1, <1>3
  DEF IInv, LastStands, IsLatest, Signed, LastSignedIs, In, SameStates, SameLines, Idle
<1>11. Figures'
  BY <1>2, <1>1, TotalsStay, <1>3 DEF IInv, Figures, LastSignedIs, In, SameStates, SameLines, Idle
<1>12. FiguresRight'
  BY <1>2, <1>1, TotalsStay, <1>3
  DEF IInv, FiguresRight, LastSignedIs, In, SameStates, SameLines, Idle
<1> QED
  BY <1>4, <1>5, <1>6, <1>7, <1>8, <1>9, <1>10, <1>11, <1>12 DEF IInv

LEMMA SignKeeps ==
    ASSUME IInv, Sign
    PROVE  IInv'
<1>1. SignIs(clerk.session)
  BY SignStep DEF IInv
<1>2. /\ There \subseteq Sessions
      /\ Of("open") \subseteq There /\ Of("completed") \subseteq There
      /\ Of("open") \cap Of("completed") = {}
      /\ There \subseteq Of("open") \cup Of("completed")
      /\ \A t \in There : session[t].from \in Int /\ session[t].to \in Int
  BY Basics DEF IInv
<1>3. SameLines
  BY <1>1, LinesStay DEF IInv, SignIs, In, SameButStatus, OtherSessions
<1>4. /\ \A t \in There : t # clerk.session => session'[t] = session[t]
      /\ clerk.session \in Of("open")
      /\ session'[clerk.session].ticks = session[clerk.session].ticks
  BY <1>2, <1>1 DEF SignIs, In, SameButStatus, OtherSessions, IInv, ClerkAgrees, Opens
<1>5. Typed'
  BY <1>2, <1>1, <1>3, <1>4
  DEF IInv, Typed, TypeOK, SignIs, In, SameButStatus, OtherSessions, SameLines
<1>6. Ids'
  BY <1>2, <1>1, <1>3, <1>4 DEF IInv, Ids, SignIs, In, SameButStatus, OtherSessions, SameLines
<1>7. Ordered'
  BY <1>2, <1>1, <1>3, <1>4
  DEF IInv, Ordered, Free, SignIs, In, SameButStatus, OtherSessions, SameLines
<1>8. ClerkAgrees'
  BY <1>2, <1>1, <1>3, <1>4
  DEF IInv, ClerkAgrees, Free, IsLatest, Signed, Opens, SignIs, In, SameButStatus,
      OtherSessions, SameLines
<1>9. TickedIsLocked'
  BY <1>2, <1>1, <1>3, <1>4
  DEF IInv, TickedIsLocked, Fresh, Holds, In, Signed, SignIs, SameButStatus, OtherSessions,
      SameLines
<1>10. LockedIsTicked'
  BY <1>2, <1>1, <1>3, <1>4
  DEF IInv, LockedIsTicked, Holds, In, Signed, SignIs, SameButStatus, OtherSessions, SameLines
<1>11. LastStands'
  <2> DEFINE s == clerk.session
  <2>1. \A t \in Of("completed") : session[t].to < session[s].from
    BY <1>4 DEF IInv, Ordered, Free
  <2>2. session[s].from <= session[s].to
    BY <1>2, <1>4 DEF IInv, Ordered
  <2>3. \A t \in Of("completed") \cup {s} : session'[t].to <= session'[s].to
    BY <1>2, <1>1, <1>4, <2>1, <2>2 DEF SignIs, SameButStatus
  <2>4. PICK t \in Sessions : t = s
    BY <1>2, <1>4
  <2>5. t \in Of("completed")' /\ Of("completed")' = Of("completed") \cup {t}
    BY <1>1, <2>4 DEF SignIs
  <2>6. last' = session'[t].balance
    BY <1>1, <2>4 DEF SignIs, SameButStatus
  <2>7. \A other \in Of("completed")' : session'[other].to <= session'[t].to
    BY <2>3, <2>4, <2>5
  <2> HIDE DEF s
  <2> QED
    BY <2>5, <2>6, <2>7 DEF LastStands, IsLatest, Signed
<1>12. Figures'
  BY <1>2, <1>1, TotalsStay, <1>3, <1>4
  DEF IInv, Figures, SignIs, In, SameButStatus, OtherSessions, SameLines
<1>13. FiguresRight'
  BY <1>2, <1>1, TotalsStay, <1>3, <1>4
  DEF IInv, FiguresRight, SignIs, In, SameButStatus, OtherSessions, SameLines
<1> QED
  BY <1>5, <1>6, <1>7, <1>8, <1>9, <1>10, <1>11, <1>12, <1>13 DEF IInv

LEMMA SaveReopenedKeeps ==
    ASSUME IInv, SaveReopened
    PROVE  IInv'
<1>1. SaveReopenedIs(clerk.session)
  BY SaveReopenedStep DEF IInv
<1>2. /\ There \subseteq Sessions
      /\ Of("open") \subseteq There /\ Of("completed") \subseteq There
      /\ Of("open") \cap Of("completed") = {}
      /\ There \subseteq Of("open") \cup Of("completed")
      /\ \A t \in There : session[t].from \in Int /\ session[t].to \in Int
  BY Basics DEF IInv
<1>3. SameLines
  BY <1>1, LinesStay DEF IInv, SaveReopenedIs, In, SameButStatus, OtherSessions
<1>4. /\ \A t \in There : t # clerk.session => session'[t] = session[t]
      /\ clerk.session \in Of("completed")
      /\ session'[clerk.session].ticks = session[clerk.session].ticks
  BY <1>2, <1>1 DEF SaveReopenedIs, In, SameButStatus, OtherSessions, IInv, ClerkAgrees, Opens
<1>5. Typed'
  BY <1>2, <1>1, <1>3, <1>4
  DEF IInv, Typed, TypeOK, SaveReopenedIs, In, SameButStatus, OtherSessions, SameLines,
      ClerkCall, Idle
<1>6. Ids'
  BY <1>2, <1>1, <1>3, <1>4
  DEF IInv, Ids, SaveReopenedIs, In, SameButStatus, OtherSessions, SameLines, Idle
<1>7. Ordered'
  <2> DEFINE s == clerk.session
  <2>1. \A t \in Of("completed") : t # s => session[t].to < session[s].from
    <3>1. ASSUME NEW t \in Of("completed"), t # s PROVE session[t].to < session[s].from
      <4>1. session[t].to <= session[s].to
        BY <1>1 DEF SaveReopenedIs, IsLatest
      <4>2. session[t].to < session[s].from \/ session[s].to < session[t].from
        BY <1>4, <3>1 DEF IInv, Ordered
      <4>3. session[t].from <= session[t].to
        BY <1>2 DEF IInv, Ordered
      <4> QED
        BY <1>2, <1>4, <4>1, <4>2, <4>3
    <3> QED
      BY <3>1
  <2>2. /\ There' = There /\ Of("completed")' = Of("completed") \ {s} /\ Of("open")' = {s}
        /\ \A t \in There : session'[t].from = session[t].from /\ session'[t].to = session[t].to
    BY <1>2, <1>1, <1>4 DEF SaveReopenedIs, SameButStatus
  <2>3. \A t \in Of("completed")' : session'[t].to < session'[s].from
    BY <1>2, <1>4, <2>1, <2>2
  <2> QED
    BY <1>2, <1>4, <2>2, <2>3 DEF IInv, Ordered, Free
<1>8. ClerkAgrees'
  BY <1>2, <1>1, <1>3, <1>4
  DEF IInv, ClerkAgrees, Free, IsLatest, Signed, Opens, SaveReopenedIs, In, SameButStatus,
      OtherSessions, SameLines, Idle
<1>9. TickedIsLocked'
  BY <1>2, <1>1, <1>3, <1>4
  DEF IInv, TickedIsLocked, Fresh, Holds, In, Signed, SaveReopenedIs, SameButStatus,
      OtherSessions, SameLines, Idle
<1>10. LockedIsTicked'
  BY <1>2, <1>1, <1>3, <1>4
  DEF IInv, LockedIsTicked, Holds, In, Signed, SaveReopenedIs, SameButStatus, OtherSessions,
      SameLines, Idle
<1>11. LastStands'
  BY <1>2, <1>1, <1>3, <1>4
  DEF IInv, LastStands, IsLatest, Signed, SaveReopenedIs, In, SameButStatus, OtherSessions,
      SameLines, Idle
<1>12. Figures'
  BY <1>2, <1>1, TotalsStay, <1>3, <1>4
  DEF IInv, Figures, SaveReopenedIs, In, SameButStatus, OtherSessions, SameLines, Idle
<1>13. FiguresRight'
  BY <1>2, <1>1, TotalsStay, <1>3, <1>4
  DEF IInv, FiguresRight, SaveReopenedIs, In, SameButStatus, OtherSessions, SameLines, Idle
<1> QED
  BY <1>5, <1>6, <1>7, <1>8, <1>9, <1>10, <1>11, <1>12, <1>13 DEF IInv

LEMMA DropKeeps ==
    ASSUME IInv, NEW s \in Sessions, Drop(s)
    PROVE  IInv'
<1>1. DropIs(s)
  BY DropStep DEF IInv
<1>2. /\ There \subseteq Sessions
      /\ Of("open") \subseteq There /\ Of("completed") \subseteq There
      /\ Of("open") \cap Of("completed") = {}
      /\ There \subseteq Of("open") \cup Of("completed")
      /\ \A t \in There : session[t].from \in Int /\ session[t].to \in Int
  BY Basics DEF IInv
<1>3. SameLines
  BY <1>1, LinesStay DEF IInv, DropIs, Gone, OtherSessions
<1>4. \A t \in There : t # s => session'[t] = session[t]
  BY <1>2, <1>1 DEF DropIs, Gone, OtherSessions
<1>5. Typed'
  BY <1>2, <1>1, <1>3, <1>4 DEF IInv, Typed, TypeOK, DropIs, Gone, OtherSessions, SameLines
<1>6. Ids'
  BY <1>2, <1>1, <1>3, <1>4 DEF IInv, Ids, DropIs, Gone, OtherSessions, SameLines
<1>7. Ordered'
  BY <1>2, <1>1, <1>3, <1>4 DEF IInv, Ordered, Free, DropIs, Gone, OtherSessions, SameLines
<1>8. ClerkAgrees'
  BY <1>2, <1>1, <1>3, <1>4
  DEF IInv, ClerkAgrees, Free, IsLatest, Signed, Opens, DropIs, Gone, OtherSessions, SameLines
<1>9. TickedIsLocked'
  BY <1>2, <1>1, <1>3, <1>4
  DEF IInv, TickedIsLocked, Fresh, Holds, In, Signed, DropIs, Gone, OtherSessions, SameLines
<1>10. LockedIsTicked'
  BY <1>2, <1>1, <1>3, <1>4
  DEF IInv, LockedIsTicked, Holds, In, Signed, DropIs, Gone, OtherSessions, SameLines
<1>11. LastStands'
  BY <1>2, <1>1, <1>3, <1>4
  DEF IInv, LastStands, IsLatest, Signed, DropIs, Gone, OtherSessions, SameLines
<1>12. Figures'
  BY <1>2, <1>1, TotalsStay, <1>3, <1>4 DEF IInv, Figures, DropIs, Gone, OtherSessions, SameLines
<1>13. FiguresRight'
  BY <1>2, <1>1, TotalsStay, <1>3, <1>4
  DEF IInv, FiguresRight, DropIs, Gone, OtherSessions, SameLines
<1> QED
  BY <1>5, <1>6, <1>7, <1>8, <1>9, <1>10, <1>11, <1>12, <1>13 DEF IInv

LEMMA SaveDeletedKeeps ==
    ASSUME IInv, SaveDeleted
    PROVE  IInv'
<1>1. SaveDeletedIs(clerk.session)
  BY SaveDeletedStep DEF IInv
<1>2. /\ There \subseteq Sessions
      /\ Of("open") \subseteq There /\ Of("completed") \subseteq There
      /\ Of("open") \cap Of("completed") = {}
      /\ There \subseteq Of("open") \cup Of("completed")
      /\ \A t \in There : session[t].from \in Int /\ session[t].to \in Int
  BY Basics DEF IInv
<1>3. SameLines
  BY <1>1, LinesStay DEF IInv, SaveDeletedIs, In, Gone, OtherSessions
<1>4. /\ \A t \in There : t # clerk.session => session'[t] = session[t]
      /\ clerk.session \in Of("completed")
  BY <1>2, <1>1 DEF SaveDeletedIs, In, Gone, OtherSessions
<1>5. Typed'
  BY <1>2, <1>1, <1>3, <1>4
  DEF IInv, Typed, TypeOK, SaveDeletedIs, In, Gone, OtherSessions, SameLines, ClerkCall, Idle
<1>6. Ids'
  BY <1>2, <1>1, <1>3, <1>4 DEF IInv, Ids, SaveDeletedIs, In, Gone, OtherSessions, SameLines, Idle
<1>7. Ordered'
  BY <1>2, <1>1, <1>3, <1>4
  DEF IInv, Ordered, Free, SaveDeletedIs, In, Gone, OtherSessions, SameLines, Idle
<1>8. ClerkAgrees'
  BY <1>2, <1>1, <1>3, <1>4
  DEF IInv, ClerkAgrees, Free, IsLatest, Signed, Opens, SaveDeletedIs, In, Gone, OtherSessions,
      SameLines, Idle
<1>9. TickedIsLocked'
  BY <1>2, <1>1, <1>3, <1>4
  DEF IInv, TickedIsLocked, Fresh, Holds, In, Signed, SaveDeletedIs, Gone, OtherSessions,
      SameLines, Idle
<1>10. LockedIsTicked'
  BY <1>2, <1>1, <1>3, <1>4
  DEF IInv, LockedIsTicked, Holds, In, Signed, SaveDeletedIs, Gone, OtherSessions, SameLines,
      Idle
<1>11. LastStands'
  BY <1>2, <1>1, <1>3, <1>4
  DEF IInv, LastStands, IsLatest, Signed, SaveDeletedIs, In, Gone, OtherSessions, SameLines,
      Idle
<1>12. Figures'
  BY <1>2, <1>1, TotalsStay, <1>3, <1>4
  DEF IInv, Figures, SaveDeletedIs, In, Gone, OtherSessions, SameLines, Idle
<1>13. FiguresRight'
  BY <1>2, <1>1, TotalsStay, <1>3, <1>4
  DEF IInv, FiguresRight, SaveDeletedIs, In, Gone, OtherSessions, SameLines, Idle
<1> QED
  BY <1>5, <1>6, <1>7, <1>8, <1>9, <1>10, <1>11, <1>12, <1>13 DEF IInv

LEMMA RestoreKeeps ==
    ASSUME IInv, Restore
    PROVE  IInv'
<1>1. RestoreIs
  BY RestoreStep DEF IInv
<1>2. /\ There \subseteq Sessions
      /\ Of("open") \subseteq There /\ Of("completed") \subseteq There
      /\ Of("open") \cap Of("completed") = {}
      /\ There \subseteq Of("open") \cup Of("completed")
      /\ \A t \in There : session[t].from \in Int /\ session[t].to \in Int
  BY Basics DEF IInv
<1>3. SameStates /\ SameLines
  BY <1>1, SessionsStay, LinesStay DEF IInv, RestoreIs
<1>4. Typed'
  BY <1>2, <1>1, <1>3 DEF IInv, Typed, TypeOK, RestoreIs, SameStates, SameLines
<1>5. Ids'
  BY <1>2, <1>1, <1>3 DEF IInv, Ids, RestoreIs, SameStates, SameLines
<1>6. Ordered'
  BY <1>2, <1>1, <1>3 DEF IInv, Ordered, Free, RestoreIs, SameStates, SameLines
<1>7. ClerkAgrees'
  BY <1>2, <1>1, <1>3
  DEF IInv, ClerkAgrees, Free, IsLatest, Signed, Opens, RestoreIs, SameStates, SameLines
<1>8. TickedIsLocked'
  BY <1>2, <1>1, <1>3
  DEF IInv, TickedIsLocked, Fresh, Holds, In, Signed, RestoreIs, SameStates, SameLines
<1>9. LockedIsTicked'
  BY <1>2, <1>1, <1>3 DEF IInv, LockedIsTicked, Holds, In, Signed, RestoreIs, SameStates, SameLines
<1>10. LastStands'
  BY <1>2, <1>1, <1>3 DEF IInv, LastStands, IsLatest, Signed, RestoreIs, SameStates, SameLines
<1>11. Figures'
  BY <1>2, <1>1, TotalsStay, <1>3 DEF IInv, Figures, RestoreIs, SameStates, SameLines
<1>12. FiguresRight'
  BY <1>2, <1>1, TotalsStay, <1>3 DEF IInv, FiguresRight, RestoreIs, SameStates, SameLines
<1> QED
  BY <1>4, <1>5, <1>6, <1>7, <1>8, <1>9, <1>10, <1>11, <1>12 DEF IInv

LEMMA DieKeeps ==
    ASSUME IInv, Die
    PROVE  IInv'
<1>1. DieIs
  BY DieStep DEF IInv
<1>2. /\ There \subseteq Sessions
      /\ Of("open") \subseteq There /\ Of("completed") \subseteq There
      /\ Of("open") \cap Of("completed") = {}
      /\ There \subseteq Of("open") \cup Of("completed")
      /\ \A t \in There : session[t].from \in Int /\ session[t].to \in Int
  BY Basics DEF IInv
<1>3. SameStates /\ SameLines
  BY <1>1, SessionsStay, LinesStay DEF IInv, DieIs
<1>4. Typed'
  BY <1>2, <1>1, <1>3 DEF IInv, Typed, TypeOK, DieIs, SameStates, SameLines
<1>5. Ids'
  BY <1>2, <1>1, <1>3 DEF IInv, Ids, DieIs, SameStates, SameLines
<1>6. Ordered'
  BY <1>2, <1>1, <1>3 DEF IInv, Ordered, Free, DieIs, SameStates, SameLines
<1>7. ClerkAgrees'
  BY <1>2, <1>1, <1>3
  DEF IInv, ClerkAgrees, Free, IsLatest, Signed, Opens, DieIs, SameStates, SameLines
<1>8. TickedIsLocked'
  BY <1>2, <1>1, <1>3
  DEF IInv, TickedIsLocked, Fresh, Holds, In, Signed, DieIs, SameStates, SameLines
<1>9. LockedIsTicked'
  BY <1>2, <1>1, <1>3 DEF IInv, LockedIsTicked, Holds, In, Signed, DieIs, SameStates, SameLines
<1>10. LastStands'
  BY <1>2, <1>1, <1>3 DEF IInv, LastStands, IsLatest, Signed, DieIs, SameStates, SameLines
<1>11. Figures'
  BY <1>2, <1>1, TotalsStay, <1>3 DEF IInv, Figures, DieIs, SameStates, SameLines
<1>12. FiguresRight'
  BY <1>2, <1>1, TotalsStay, <1>3 DEF IInv, FiguresRight, DieIs, SameStates, SameLines
<1> QED
  BY <1>4, <1>5, <1>6, <1>7, <1>8, <1>9, <1>10, <1>11, <1>12 DEF IInv

LEMMA AddKeeps ==
    ASSUME IInv, NEW l \in Lines, NEW day \in Days, NEW amount \in Amounts,
           Add(l, day, amount)
    PROVE  IInv'
<1>1. AddIs(l)
  BY AddStep DEF IInv
<1>2. /\ There \subseteq Sessions
      /\ Of("open") \subseteq There /\ Of("completed") \subseteq There
      /\ Of("open") \cap Of("completed") = {}
      /\ There \subseteq Of("open") \cup Of("completed")
      /\ \A t \in There : session[t].from \in Int /\ session[t].to \in Int
  BY Basics DEF IInv
<1>3. SameStates
  BY <1>1, SessionsStay DEF IInv, AddIs
<1>4. /\ \A t \in There : l \notin session[t].ticks
      /\ clerk # Idle /\ clerk.at = "tick" => l \notin clerk.ticks
  BY <1>1 DEF AddIs, IInv, Ids
<1>5. Typed'
  BY <1>2, <1>1, <1>3, <1>4 DEF IInv, Typed, TypeOK, AddIs, SameStates
<1>6. Ids'
  BY <1>2, <1>1, FS_AddElement, <1>3, <1>4 DEF IInv, Ids, AddIs, SameStates
<1>7. Ordered'
  BY <1>2, <1>1, <1>3, <1>4 DEF IInv, Ordered, Free, AddIs, SameStates
<1>8. ClerkAgrees'
  BY <1>2, <1>1, <1>3, <1>4 DEF IInv, ClerkAgrees, Free, IsLatest, Signed, Opens, AddIs, SameStates
<1>9. TickedIsLocked'
  <2> SUFFICES ASSUME NEW p \in Sessions \ overtaken, Fresh(p), Holds(p),
                      NEW m \in session[p].ticks \cap Here'
               PROVE  line'[m].lock = p
    BY <1>1, <1>3 DEF TickedIsLocked, Fresh, Holds, In, Signed, AddIs, SameStates
  <2>1. p \in There
    BY <1>2 DEF Holds, Signed, In, IInv, ClerkAgrees, Opens
  <2>2. m \in Here /\ line'[m] = line[m]
    BY <1>1, <1>4, <2>1 DEF AddIs
  <2> QED
    BY <2>2 DEF IInv, TickedIsLocked
<1>10. LockedIsTicked'
  <2> SUFFICES ASSUME faults = 0, NEW m \in Here', NEW p \in Sessions, line'[m].lock = p
               PROVE  Holds(p) /\ m \in session[p].ticks
    BY <1>1, <1>3 DEF LockedIsTicked, Holds, In, Signed, AddIs, SameStates
  <2>1. m # l
    BY <1>1, NoneAssumption DEF AddIs
  <2> QED
    BY <1>1, <2>1 DEF AddIs, IInv, LockedIsTicked
<1>11. LastStands'
  BY <1>2, <1>1, <1>3, <1>4 DEF IInv, LastStands, IsLatest, Signed, AddIs, SameStates
<1>12. Figures'
  <2>1. ASSUME clerk # Idle, clerk.at = "tick"
        PROVE  Total(clerk.ticks, Here', line') = Total(clerk.ticks, Here, line)
    BY <1>1, <1>4, <2>1, TotalKept DEF AddIs
  <2>2. ASSUME clerk # Idle, clerk.at = "edit"
        PROVE  Total(session[clerk.session].ticks, Here', line')
                 = Total(session[clerk.session].ticks, Here, line)
    <3>1. clerk.session \in There
      BY <1>2, <2>2 DEF IInv, ClerkAgrees, Opens
    <3> QED
      BY <1>1, <1>4, <3>1, TotalKept DEF AddIs
  <2> QED
    BY <1>1, <2>1, <2>2 DEF AddIs, IInv, Figures
<1>13. FiguresRight'
  <2>1. ASSUME NEW t \in There \ stale
        PROVE  Total(session[t].ticks, Here', line') = Total(session[t].ticks, Here, line)
    BY <1>1, <1>4, TotalKept DEF AddIs
  <2> QED
    BY <1>1, <1>3, <2>1 DEF AddIs, IInv, FiguresRight, SameStates
<1> QED
  BY <1>5, <1>6, <1>7, <1>8, <1>9, <1>10, <1>11, <1>12, <1>13 DEF IInv

LEMMA KeepKeeps ==
    ASSUME IInv, NEW l \in Lines, NEW what \in {"correct", "remove"}, Keep(l, what)
    PROVE  IInv'
<1>1. KeepIs(l)
  BY KeepStep DEF IInv
<1>2. /\ There \subseteq Sessions
      /\ Of("open") \subseteq There /\ Of("completed") \subseteq There
      /\ Of("open") \cap Of("completed") = {}
      /\ There \subseteq Of("open") \cup Of("completed")
      /\ \A t \in There : session[t].from \in Int /\ session[t].to \in Int
  BY Basics DEF IInv
<1>3. SameStates /\ SameLines
  BY <1>1, SessionsStay, LinesStay DEF IInv, KeepIs
<1>4. Typed'
  BY <1>2, <1>1, <1>3 DEF IInv, Typed, TypeOK, KeepIs, SameStates, SameLines
<1>5. Ids'
  BY <1>2, <1>1, <1>3 DEF IInv, Ids, KeepIs, SameStates, SameLines
<1>6. Ordered'
  BY <1>2, <1>1, <1>3 DEF IInv, Ordered, Free, KeepIs, SameStates, SameLines
<1>7. ClerkAgrees'
  BY <1>2, <1>1, <1>3
  DEF IInv, ClerkAgrees, Free, IsLatest, Signed, Opens, KeepIs, SameStates, SameLines
<1>8. TickedIsLocked'
  BY <1>2, <1>1, <1>3
  DEF IInv, TickedIsLocked, Fresh, Holds, In, Signed, KeepIs, SameStates, SameLines
<1>9. LockedIsTicked'
  BY <1>2, <1>1, <1>3 DEF IInv, LockedIsTicked, Holds, In, Signed, KeepIs, SameStates, SameLines
<1>10. LastStands'
  BY <1>2, <1>1, <1>3 DEF IInv, LastStands, IsLatest, Signed, KeepIs, SameStates, SameLines
<1>11. Figures'
  BY <1>2, <1>1, TotalsStay, <1>3 DEF IInv, Figures, KeepIs, SameStates, SameLines
<1>12. FiguresRight'
  BY <1>2, <1>1, TotalsStay, <1>3 DEF IInv, FiguresRight, KeepIs, SameStates, SameLines
<1> QED
  BY <1>4, <1>5, <1>6, <1>7, <1>8, <1>9, <1>10, <1>11, <1>12 DEF IInv

\* Where a line is in no total, or in one that is marked, figures stay right.
LEMMA ChangedKeepsFigures ==
    ASSUME IInv, NEW l, ChangedIs(l), SameStates
    PROVE  Figures' /\ FiguresRight'
<1>1. ASSUME NEW lines, l \notin lines
      PROVE  Total(lines, Here', line') = Total(lines, Here, line)
  <2>1. lines \cap Here' = lines \cap Here
    BY <1>1 DEF ChangedIs
  <2>2. \A m \in lines \cap Here : line'[m].amount = line[m].amount
    BY <1>1, <2>1 DEF ChangedIs
  <2> QED
    BY <2>1, <2>2, TotalKept
<1>2. Figures'
  <2> SUFFICES ASSUME clerk # Idle, clerk.session \notin stale'
               PROVE  Figures'
    BY DEF Figures, ChangedIs
  <2>1. clerk.session \in Sessions /\ clerk.session \in Loose /\ clerk.session \notin stale
    BY ClerkTyped DEF Loose, ChangedIs, IInv
  <2>2. clerk.session \notin Ticking(l)
    BY <2>1 DEF ChangedIs
  <2>3. clerk.at = "tick" => l \notin clerk.ticks
    BY <2>1, <2>2 DEF Ticking
  <2>4. clerk.at = "edit" => l \notin session[clerk.session].ticks
    <3> HAVE clerk.at = "edit"
    <3>1. session[clerk.session] # None
      BY DEF IInv, ClerkAgrees, Opens, Of
    <3> QED
      BY <2>1, <2>2, <3>1 DEF Ticking
  <2> QED
    BY <1>1, <2>1, <2>3, <2>4 DEF Figures, ChangedIs, IInv
<1>3. FiguresRight'
  <2>1. ASSUME NEW t \in There \ (stale' \cup overtaken)
        PROVE  l \notin session[t].ticks
    <3> SUFFICES ASSUME l \in session[t].ticks PROVE FALSE
      OBVIOUS
    <3>1. t \in Sessions /\ t \in Ticking(l) /\ t \notin stale /\ l \in Here
      BY DEF There, Ticking, ChangedIs
    <3>2. t \notin Loose /\ line[l].lock # t
      BY <3>1 DEF ChangedIs
    <3>3. t \in Of("completed")
      BY <3>2, Basics DEF Loose, IInv
    <3>4. Holds(t) /\ Fresh(t)
      BY <3>1, <3>2, <3>3 DEF Holds, Signed, In, Fresh, Loose
    <3>5. line[l].lock = t
      BY <3>1, <3>4 DEF IInv, TickedIsLocked
    <3> QED
      BY <3>2, <3>5
  <2>2. \A t \in There \ (stale' \cup overtaken) :
           Total(session[t].ticks, Here', line') = Total(session[t].ticks, Here, line)
    BY <1>1, <2>1
  <2> QED
    BY <2>2 DEF ChangedIs, IInv, FiguresRight, SameStates
<1> QED
  BY <1>2, <1>3

LEMMA CorrectKeeps ==
    ASSUME IInv, NEW day \in Days, NEW amount \in Amounts, Correct(day, amount)
    PROVE  IInv'
<1>1. ChangedIs(keeper.line)
  BY CorrectStep DEF IInv
<1>2. /\ There \subseteq Sessions
      /\ Of("open") \subseteq There /\ Of("completed") \subseteq There
      /\ Of("open") \cap Of("completed") = {}
      /\ There \subseteq Of("open") \cup Of("completed")
      /\ \A t \in There : session[t].from \in Int /\ session[t].to \in Int
  BY Basics DEF IInv
<1>3. SameStates
  BY <1>1, SessionsStay DEF IInv, ChangedIs
<1>4. Typed'
  BY <1>2, <1>1, <1>3 DEF IInv, Typed, TypeOK, ChangedIs, SameStates
<1>5. Ids'
  BY <1>2, <1>1, <1>3 DEF IInv, Ids, ChangedIs, SameStates
<1>6. Ordered'
  BY <1>2, <1>1, <1>3 DEF IInv, Ordered, Free, ChangedIs, SameStates
<1>7. ClerkAgrees'
  BY <1>2, <1>1, <1>3 DEF IInv, ClerkAgrees, Free, IsLatest, Signed, Opens, ChangedIs, SameStates
<1>8. TickedIsLocked'
  BY <1>2, <1>1, <1>3 DEF IInv, TickedIsLocked, Fresh, Holds, In, Signed, ChangedIs, SameStates
<1>9. LockedIsTicked'
  BY <1>2, <1>1, <1>3 DEF IInv, LockedIsTicked, Holds, In, Signed, ChangedIs, SameStates
<1>10. LastStands'
  BY <1>2, <1>1, <1>3 DEF IInv, LastStands, IsLatest, Signed, ChangedIs, SameStates
<1>11. Figures'
  BY <1>1, <1>3, ChangedKeepsFigures DEF IInv
<1>12. FiguresRight'
  BY <1>1, <1>3, ChangedKeepsFigures DEF IInv
<1> QED
  BY <1>4, <1>5, <1>6, <1>7, <1>8, <1>9, <1>10, <1>11, <1>12 DEF IInv

LEMMA RemoveLineKeeps ==
    ASSUME IInv, RemoveLine
    PROVE  IInv'
<1>1. ChangedIs(keeper.line)
  BY RemoveStep DEF IInv
<1>2. /\ There \subseteq Sessions
      /\ Of("open") \subseteq There /\ Of("completed") \subseteq There
      /\ Of("open") \cap Of("completed") = {}
      /\ There \subseteq Of("open") \cup Of("completed")
      /\ \A t \in There : session[t].from \in Int /\ session[t].to \in Int
  BY Basics DEF IInv
<1>3. SameStates
  BY <1>1, SessionsStay DEF IInv, ChangedIs
<1>4. Typed'
  BY <1>2, <1>1, <1>3 DEF IInv, Typed, TypeOK, ChangedIs, SameStates
<1>5. Ids'
  BY <1>2, <1>1, <1>3 DEF IInv, Ids, ChangedIs, SameStates
<1>6. Ordered'
  BY <1>2, <1>1, <1>3 DEF IInv, Ordered, Free, ChangedIs, SameStates
<1>7. ClerkAgrees'
  BY <1>2, <1>1, <1>3 DEF IInv, ClerkAgrees, Free, IsLatest, Signed, Opens, ChangedIs, SameStates
<1>8. TickedIsLocked'
  BY <1>2, <1>1, <1>3 DEF IInv, TickedIsLocked, Fresh, Holds, In, Signed, ChangedIs, SameStates
<1>9. LockedIsTicked'
  BY <1>2, <1>1, <1>3 DEF IInv, LockedIsTicked, Holds, In, Signed, ChangedIs, SameStates
<1>10. LastStands'
  BY <1>2, <1>1, <1>3 DEF IInv, LastStands, IsLatest, Signed, ChangedIs, SameStates
<1>11. Figures'
  BY <1>1, <1>3, ChangedKeepsFigures DEF IInv
<1>12. FiguresRight'
  BY <1>1, <1>3, ChangedKeepsFigures DEF IInv
<1> QED
  BY <1>4, <1>5, <1>6, <1>7, <1>8, <1>9, <1>10, <1>11, <1>12 DEF IInv

----------------------------------------------------------------------------
(* The invariant. *)

LEMMA InitIInv == Init => IInv
<1> SUFFICES ASSUME Init PROVE IInv
  OBVIOUS
<1>1. /\ Here = {} /\ There = {} /\ \A status : Of(status) = {}
      /\ clerk = Idle /\ keeper = Idle /\ faults = 0 /\ used = {} /\ stale = {} /\ last = None
      /\ overtaken = {}
  BY DEF Init, Here, There, Of
<1>2. Typed
  BY <1>1, BoundsAssumption DEF Init, Typed, TypeOK
<1>3. Ids
  BY <1>1, FS_EmptySet DEF Ids
<1>4. Ordered /\ ClerkAgrees /\ LockedIsTicked /\ LastStands
  BY <1>1 DEF Ordered, ClerkAgrees, LockedIsTicked, LastStands
<1>5. TickedIsLocked /\ Figures /\ FiguresRight
  BY <1>1 DEF TickedIsLocked, Figures, FiguresRight
<1> QED
  BY <1>2, <1>3, <1>4, <1>5 DEF IInv

LEMMA StutterKeeps == ASSUME IInv, UNCHANGED vars PROVE IInv'
<1>1. /\ Here' = Here /\ There' = There /\ Free(1)' = Free(1)
      /\ Of("open")' = Of("open") /\ Of("completed")' = Of("completed")
  BY DEF vars, Here, There, Of, Free
<1>2. Typed' /\ Ids'
  BY <1>1 DEF IInv, Typed, TypeOK, Ids, vars
<1>3. Ordered' /\ ClerkAgrees'
  BY <1>1 DEF IInv, Ordered, ClerkAgrees, Free, IsLatest, Signed, Opens, vars
<1>4. TickedIsLocked' /\ LockedIsTicked'
  BY <1>1 DEF IInv, TickedIsLocked, LockedIsTicked, Fresh, Holds, In, Signed, vars
<1>5. LastStands' /\ Figures' /\ FiguresRight'
  BY <1>1 DEF IInv, LastStands, IsLatest, Signed, Figures, FiguresRight, vars
<1> QED
  BY <1>2, <1>3, <1>4, <1>5 DEF IInv

LEMMA NextIInv == IInv /\ [Next]_vars => IInv'
<1> SUFFICES ASSUME IInv, [Next]_vars PROVE IInv'
  OBVIOUS
<1>1. CASE Clerk
  <2>1. CASE \E s \in Sessions, from, to \in Days, opening, balance \in Balances :
               Start(s, from, to, opening, balance) \/ Edit(s, from, to, opening, balance)
    BY <2>1, StartKeeps, EditKeeps
  <2>2. CASE \E s \in Sessions : \E ticks \in SUBSET Lines : Tick(s, ticks)
    BY <2>2, TickKeeps
  <2>3. CASE \E s \in Sessions : Lock(s) \/ Reopen(s) \/ Drop(s) \/ Delete(s)
    BY <2>3, LockKeeps, ReopenKeeps, DropKeeps, DeleteKeeps
  <2>4. CASE SaveTicks \/ SaveEdit \/ LastSigned \/ Sign
    BY <2>4, SaveTicksKeeps, SaveEditKeeps, LastSignedKeeps, SignKeeps
  <2>5. CASE SaveReopened \/ SaveDeleted \/ Restore \/ Die
    BY <2>5, SaveReopenedKeeps, SaveDeletedKeeps, RestoreKeeps, DieKeeps
  <2> QED
    BY <1>1, <2>1, <2>2, <2>3, <2>4, <2>5 DEF Clerk
<1>2. CASE Keeper
  BY <1>2, AddKeeps, KeepKeeps, CorrectKeeps, RemoveLineKeeps DEF Keeper
<1>3. CASE UNCHANGED vars
  BY <1>3, StutterKeeps
<1> QED
  BY <1>1, <1>2, <1>3 DEF Next

LEMMA Invariance == Spec => []IInv
BY InitIInv, NextIInv, PTL DEF Spec

\* The state of reconciling a bank account has its types: the calls of
\* banking.service.ts never leave a figure, a lock or a status that is none.
THEOREM TypeCorrect == Spec => []TypeOK
<1>1. IInv => TypeOK
  BY DEF IInv, Typed
<1> QED
  BY <1>1, Invariance, PTL

\* Between calls, none of which died, a reconciled line is ticked by the
\* completed reconciliation it names, and a completed one's lines name it until
\* another reconciles one of them again (completeReconciliation, releaseLines),
\* for any number of reconciliations completed, reopened and deleted.
THEOREM LockedIsSigned == Spec => []LockedBySigned
<1>1. IInv => LockedBySigned
  <2> SUFFICES ASSUME IInv, clerk = Idle, faults = 0, NEW l \in Here, NEW s \in Sessions
               PROVE  /\ line[l].lock = s => Signed(s) /\ l \in session[s].ticks
                      /\ Signed(s) /\ l \in session[s].ticks /\ s \notin overtaken =>
                            line[l].lock = s
    BY DEF LockedBySigned
  <2>1. Fresh(s) /\ (Holds(s) <=> Signed(s))
    BY DEF Fresh, Holds, In
  <2> QED
    BY <2>1 DEF IInv, TickedIsLocked, LockedIsTicked
<1> QED
  BY <1>1, Invariance, PTL

\* The account's last reconciled balance is that of the latest reconciliation
\* that stands (completeReconciliation, restoreLastReconciled), however many
\* are reopened and deleted, when no call died.
THEOREM LastStandsForLatest == Spec => []LastIsLatest
<1>1. IInv => LastIsLatest
  BY DEF IInv, LastStands, LastIsLatest
<1> QED
  BY <1>1, Invariance, PTL

\* The figures of a reconciliation are those of its lines, for all it may tick
\* and all that is corrected or deleted around it (assertEditable), unless a
\* line it ticks was read before it was completed and changed after that, a call
\* about it died, or another reconciled a line of its again.
THEOREM FiguresAreOfLines == Spec => []FiguresAgree
<1>1. IInv => FiguresAgree
  BY TotalIs DEF IInv, FiguresRight, FiguresAgree, There
<1> QED
  BY <1>1, Invariance, PTL

----------------------------------------------------------------------------
(* The statements signed. *)

Statement(s) == [from |-> session[s].from, to |-> session[s].to, balance |-> session[s].balance]

Statements == {Statement(s) : s \in Of("completed")}

LEMMA InitNoneSigned == Init => InOrder!Init
BY DEF Init, Of, InOrder!Init

\* The same ones completed, with the same periods and balances.
LEMMA StatementsStay ==
    ASSUME Of("completed")' = Of("completed"),
           \A s \in Of("completed") : /\ session'[s].from = session[s].from
                                      /\ session'[s].to = session[s].to
                                      /\ session'[s].balance = session[s].balance
    PROVE  Statements' = Statements
<1>1. \A s \in Of("completed") : Statement(s)' = Statement(s)
  BY DEF Statement
<1> QED
  BY <1>1 DEF Statements

LEMMA Untouched ==
    ASSUME UNCHANGED session PROVE Statements' = Statements
BY DEF Statements, Statement, Of
LEMMA SignSigns == ASSUME IInv, NEW s \in Sessions, SignIs(s) PROVE InOrder!Next
<1> DEFINE new == Statement(s)
<1>1. /\ s \in Of("open") /\ s \in There /\ session[s] \in Session
      /\ \A t \in Of("completed") : t \in Sessions /\ t # s
  BY Basics, SessionTyped DEF SignIs, IInv, Typed
<1>2. new \in InOrder!Statement
  BY <1>1 DEF Session, Statement, InOrder!Statement
<1>3. new.from <= new.to /\ \A other \in Statements : other.to < new.from
  BY <1>1 DEF IInv, Ordered, Free, Statement, Statements
<1>4. /\ Statement(s)' = new
      /\ \A t \in Of("completed") : Statement(t)' = Statement(t)
  BY <1>1 DEF SignIs, SameButStatus, OtherSessions, Statement
<1>5. Statements' = Statements \cup {new}
  BY <1>4 DEF SignIs, Statements
<1> HIDE DEF new
<1> QED
  BY <1>2, <1>3, <1>5 DEF InOrder!Next, InOrder!Sign, Statements, Statement

\* The latest is withdrawn, and its statement is no other's.
LEMMA LatestGoes ==
    ASSUME IInv, NEW s \in Sessions, IsLatest(s),
           Of("completed")' = Of("completed") \ {s}, OtherSessions(s)
    PROVE  InOrder!Next
<1>1. s \in Of("completed") /\ \A t \in Of("completed") : t \in Sessions /\ t \in There
  BY Basics DEF IsLatest, Signed, IInv
<1>2. \A t \in Of("completed") \ {s} : Statement(t)' = Statement(t)
  BY <1>1 DEF OtherSessions, Statement
<1>3. ASSUME NEW t \in Of("completed"), t # s PROVE Statement(t) # Statement(s)
  <2>1. session[t].from # session[s].from
    <3>1. session[t].to < session[s].from \/ session[s].to < session[t].from
      BY <1>1, <1>3 DEF IInv, Ordered
    <3>2. session[t].from <= session[t].to /\ session[s].from <= session[s].to
      BY <1>1 DEF IInv, Ordered
    <3>3. /\ session[t].from \in Int /\ session[t].to \in Int
          /\ session[s].from \in Int /\ session[s].to \in Int
      BY <1>1, Basics DEF IInv
    <3> QED
      BY <3>1, <3>2, <3>3
  <2> QED
    BY <2>1 DEF Statement
<1>4. Statements' = Statements \ {Statement(s)}
  <2>1. Statements' = {Statement(t) : t \in Of("completed") \ {s}}
    BY <1>2 DEF Statements
  <2> QED
    BY <1>1, <1>3, <2>1 DEF Statements
<1>5. \A other \in Statements : other.to <= Statement(s).to
  BY DEF IsLatest, Statements, Statement
<1>6. Statement(s) \in Statements
  BY <1>1 DEF Statements
<1> QED
  BY <1>4, <1>5, <1>6 DEF InOrder!Next, InOrder!Withdraw, Statements, Statement

\* Each step signs a statement, withdraws the last or touches none.
LEMMA StepInOrder == IInv /\ [Next]_vars => InOrder!Next \/ Statements' = Statements
<1> SUFFICES ASSUME IInv, [Next]_vars PROVE InOrder!Next \/ Statements' = Statements
  OBVIOUS
<1>1. CASE Clerk
  <2>1. ASSUME NEW s \in Sessions, NEW from \in Days, NEW to \in Days,
               NEW opening \in Balances, NEW balance \in Balances,
               Start(s, from, to, opening, balance)
        PROVE  Statements' = Statements
    <3>1. StartIs(s, from, to, opening, balance)
      BY <2>1, StartStep DEF IInv
    <3>2. \A t \in Of("completed") : session'[t] = session[t]
      BY <3>1, OfThere DEF StartIs, OtherSessions, IInv, Ids, There
    <3> QED
      BY <3>1, <3>2, StatementsStay DEF StartIs
  <2>2. CASE SaveTicks
    <3>1. SaveTicksIs(clerk.session)
      BY <2>2, SaveTicksStep DEF IInv
    <3> QED
      BY <3>1, StatementsStay DEF SaveTicksIs, SameStates, OtherSessions, Of
  <2>3. CASE SaveEdit
    <3>1. SaveEditIs(clerk.session)
      BY <2>3, SaveEditStep DEF IInv
    <3>2. clerk.session \in Of("open") /\ Of("open") \cap Of("completed") = {}
      BY <3>1, Basics DEF SaveEditIs, In, IInv, ClerkAgrees, Opens
    <3> QED
      BY <3>1, <3>2, StatementsStay DEF SaveEditIs, SameStates, OtherSessions, Of
  <2>4. CASE Sign
    <3>1. SignIs(clerk.session)
      BY <2>4, SignStep DEF IInv
    <3> QED
      BY <3>1, SignSigns DEF SignIs, Of
  <2>5. CASE SaveReopened
    <3>1. SaveReopenedIs(clerk.session)
      BY <2>5, SaveReopenedStep DEF IInv
    <3> QED
      BY <3>1, LatestGoes DEF SaveReopenedIs, SameButStatus, Of
  <2>6. CASE SaveDeleted
    <3>1. SaveDeletedIs(clerk.session)
      BY <2>6, SaveDeletedStep DEF IInv
    <3> QED
      BY <3>1, LatestGoes DEF SaveDeletedIs, Gone, Of
  <2>7. ASSUME NEW s \in Sessions, Drop(s) PROVE Statements' = Statements
    <3>1. DropIs(s)
      BY <2>7, DropStep DEF IInv
    <3>2. s \notin Of("completed")
      BY <3>1, Basics DEF DropIs, IInv
    <3> QED
      BY <3>1, <3>2, StatementsStay DEF DropIs, Gone, OtherSessions, Of
  <2>8. CASE \E s \in Sessions : \/ \E ticks \in SUBSET Lines : Tick(s, ticks)
                                 \/ Lock(s) \/ Reopen(s) \/ Delete(s)
    BY <2>8, Untouched DEF Tick, Lock, Reopen, Delete, Release
  <2>9. CASE LastSigned \/ Restore \/ Die
    BY <2>9, Untouched DEF LastSigned, Restore, Die
  <2>10. ASSUME NEW s \in Sessions, NEW from \in Days, NEW to \in Days,
                NEW opening \in Balances, NEW balance \in Balances,
                Edit(s, from, to, opening, balance)
         PROVE  Statements' = Statements
    BY <2>10, Untouched DEF Edit
  <2> QED
    BY <1>1, <2>1, <2>2, <2>3, <2>4, <2>5, <2>6, <2>7, <2>8, <2>9, <2>10 DEF Clerk
<1>2. CASE Keeper
  BY <1>2, Untouched DEF Keeper, Add, Keep, Correct, RemoveLine
<1>3. CASE UNCHANGED vars
  BY <1>3, Untouched DEF vars
<1> QED
  BY <1>1, <1>2, <1>3 DEF Next

\* Reconciling, step by step and whatever dies, signs statements whose periods
\* follow one another, and withdraws the last one only (startReconciliation,
\* reopenReconciliation, deleteReconciliation): it implements SignedStatements.
THEOREM SignsInOrder == Spec => SignedInOrder
<1>1. Init => InOrder!Init
  BY InitNoneSigned
<1>2. IInv /\ [Next]_vars => [InOrder!Next]_{Statement(s) : s \in Of("completed")}
  BY StepInOrder DEF Statements
<1> QED
  BY <1>1, <1>2, Invariance, PTL DEF Spec, SignedInOrder, InOrder!Spec, Statement
=============================================================================
