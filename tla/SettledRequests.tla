--------------------------- MODULE SettledRequests ---------------------------
(***************************************************************************)
(* What finance promises a sales CRM of the balance payments it sends      *)
(* (apps/api/src/modules/balance-payment): each is on its invoice at most  *)
(* once, and none is answered "approved" that never was on it.             *)
(***************************************************************************)
EXTENDS Naturals

CONSTANT Requests

VARIABLES
    answer,    \* what the CRM reads of each request
    counted,   \* how many payments of it are on the invoice
    recorded   \* requests whose payment was put on the invoice, kept there or not

vars == <<answer, counted, recorded>>

Init ==
    /\ answer = [r \in Requests |-> "absent"]
    /\ counted = [r \in Requests |-> 0]
    /\ recorded = {}

Receive(r) ==
    /\ answer[r] = "absent"
    /\ answer' = [answer EXCEPT ![r] = "pending"]
    /\ UNCHANGED <<counted, recorded>>

\* Whatever was answered meanwhile: a request rejected while its approval is
\* on the way is recorded all the same.
Record(r) ==
    /\ answer[r] # "absent" /\ counted[r] = 0
    /\ counted' = [counted EXCEPT ![r] = 1]
    /\ recorded' = recorded \cup {r}
    /\ UNCHANGED answer

\* By hand, on the invoice.
TakeOff(r) ==
    /\ counted[r] = 1
    /\ counted' = [counted EXCEPT ![r] = 0]
    /\ UNCHANGED <<answer, recorded>>

Approve(r) ==
    /\ r \in recorded
    /\ answer' = [answer EXCEPT ![r] = "approved"]
    /\ UNCHANGED <<counted, recorded>>

Reject(r) ==
    /\ answer[r] = "pending"
    /\ answer' = [answer EXCEPT ![r] = "rejected"]
    /\ UNCHANGED <<counted, recorded>>

Next == \E r \in Requests : Receive(r) \/ Record(r) \/ TakeOff(r) \/ Approve(r) \/ Reject(r)

Spec == Init /\ [][Next]_vars
=============================================================================
