-------------------------- MODULE MCInvoicePayments --------------------------
(* InvoicePayments for TLC: calls are alike, and so are ids. *)
EXTENDS InvoicePayments, TLC

Alike == Permutations(Actors) \cup Permutations(Ids)

\* Where calls have overlapped TLC goes on at the total as it was approved, and
\* where one of them also failed, without the credit note.
Watched == raced => /\ ~crossed /\ invoice.total = Total
                    /\ faults > 0 => note.status = "draft"
=============================================================================
