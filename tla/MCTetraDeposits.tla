--------------------------- MODULE MCTetraDeposits ---------------------------
(* TetraDeposits for TLC: which kind of request each run decides. *)
EXTENDS TetraDeposits

KindBalance == [r \in Requests |-> "balance"]
KindCourse  == [r \in Requests |-> "course"]
=============================================================================
