--------------------------- MODULE SignedStatements ---------------------------
(***************************************************************************)
(* What reconciling a bank account promises (apps/api/src/modules/banking, *)
(* startReconciliation and latestCompletedId of banking.service.ts): the   *)
(* statements signed follow one another, a period never starts before the  *)
(* last one signed ends, and only the last one signed is withdrawn.        *)
(***************************************************************************)
EXTENDS Naturals

CONSTANTS Days, Balances

VARIABLE signed   \* the statements signed and not withdrawn

Statement == [from : Days, to : Days, balance : Balances]

Init == signed = {}

Sign(statement) ==
    /\ statement.from <= statement.to
    /\ \A other \in signed : other.to < statement.from
    /\ signed' = signed \cup {statement}

\* Reopened or deleted: the last one only.
Withdraw(statement) ==
    /\ \A other \in signed : other.to <= statement.to
    /\ signed' = signed \ {statement}

Next == \/ \E statement \in Statement : Sign(statement)
        \/ \E statement \in signed : Withdraw(statement)

Spec == Init /\ [][Next]_signed
=============================================================================
