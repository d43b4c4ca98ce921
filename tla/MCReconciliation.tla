-------------------------- MODULE MCReconciliation --------------------------
(* Reconciliation for TLC: reconciliations are alike, and so are lines. *)
EXTENDS Reconciliation, TLC

Alike == Permutations(Sessions) \cup Permutations(Lines)
=============================================================================
