SPECIFICATION Spec
CONSTANTS
    Total = 2
    Credit = 1
    Requests = {r1}
    Ids = {p1, p2}
    Actors = {a1, a2}
    None = none
    MaxFaults = 1
INVARIANTS TypeOK BalanceIsRest PaidIsHeld StatusAgrees ReceiptAgrees
PROPERTIES KeepsPromises
CONSTRAINT Watched
CHECK_DEADLOCK FALSE
SYMMETRY Alike
