---------------------------- MODULE MCPaymentLines ----------------------------
(* PaymentLines for TLC: calls are alike, and so are ids of each kind. *)
EXTENDS PaymentLines, TLC

\* The same lands with charges and without.
MCValues == {[lands |-> 1, charges |-> 0], [lands |-> 1, charges |-> 1]}

Alike == Permutations(Actors) \cup Permutations(Lines) \cup Permutations(Entries)

\* Once two calls have overlapped only what managers decide is looked at
\* (OneDecider), which a second line has no part in, nor charges.
Watched == raced => /\ Cardinality(used \cap Lines) < 2
                    /\ \A p \in Here : payment[p].value.charges = 0
                    /\ \A a \in Actors : call[a] # Idle /\ call[a].value # None => call[a].value.charges = 0
=============================================================================
