SPECIFICATION Spec
CONSTANTS
    Requests = {r1}
    Kind <- KindBalance
    Accountants = {a1, a2}
    Worker = worker
    Portal = portal_call
    Withdrawable = {}
    Voidable = {}
    MaxPayments = 1
    MaxFaults = 0
PROPERTY HeardWhilePaid
CHECK_DEADLOCK FALSE
