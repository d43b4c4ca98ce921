SPECIFICATION FairSpec
CONSTANTS
    Requests = {r1}
    Kind <- KindCourse
    Accountants = {a1}
    Worker = worker
    Portal = portal_call
    Withdrawable = {r1}
    Voidable = {r1}
    MaxPayments = 2
    MaxFaults = 2
INVARIANTS PendingHasNoPayment DeliveredAgrees NoDecisionLost
PROPERTIES HeardAfterRecorded DecisionSettles
CHECK_DEADLOCK FALSE
