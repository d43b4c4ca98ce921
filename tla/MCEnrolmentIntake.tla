-------------------------- MODULE MCEnrolmentIntake --------------------------
(* EnrolmentIntake for TLC: calls are alike, ids, and academies. *)
EXTENDS EnrolmentIntake, TLC

Alike == Permutations(Invoices) \cup Permutations(Callers) \cup Permutations(Orgs)

\* Where this is false no property says anything of a state, nor of one after it.
Watched == hands \cap {"voided", "deleted"} = {} \/ (~raced /\ "revived" \notin hands)
=============================================================================
