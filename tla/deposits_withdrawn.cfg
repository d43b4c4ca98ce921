SPECIFICATION Spec
CONSTANTS
    Requests = {r1}
    Kind <- KindBalance
    Accountants = {a1}
    Worker = worker
    Portal = portal_call
    Withdrawable = {r1}
    Voidable = {}
    MaxPayments = 1
    MaxFaults = 0
INVARIANT WithdrawnIsOff
CHECK_DEADLOCK FALSE
