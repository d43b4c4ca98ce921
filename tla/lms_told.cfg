SPECIFICATION FairSpec
CONSTANTS
    Invoices = {i1}
    Callers = {c1}
    Worker = worker
    Mortal = {worker}
    Forex = {"other"}
    MaxChanges = 2
    MaxFaults = 1
INVARIANTS TypeOK OtherFollows ForexGoes
PROPERTIES ClearedIsOpen EnrolmentArrives NewsSettles
CHECK_DEADLOCK FALSE
