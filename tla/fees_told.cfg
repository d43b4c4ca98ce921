SPECIFICATION FairSpec
CONSTANTS
    Invoices = {i1}
    Queuers = {q1, q2}
    Mortal = {q1, worker}
    Worker = worker
    MaxChanges = 3
    MaxFaults = 1
INVARIANTS TypeOK DeliveredIsThere QueuedIsCurrent
PROPERTIES MoneyArrives
CHECK_DEADLOCK FALSE
