SPECIFICATION Spec
CONSTANTS
    Requests = {r1}
    Kind <- KindBalance
    Accountants = {a1, a2}
    Worker = worker
    Portal = portal_call
    Withdrawable = {r1}
    Voidable = {}
    MaxPayments = 2
    MaxFaults = 1
INVARIANTS TypeOK OneSender OnePayment PendingIsClean
CHECK_DEADLOCK FALSE
