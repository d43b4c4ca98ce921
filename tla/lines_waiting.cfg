SPECIFICATION Spec
CONSTANTS
    Payments = {p1}
    Lines = {l1}
    Entries = {e1}
    Values <- MCValues
    DaysBack = 1
    Actors = {a1}
    None = none
INVARIANTS WaitingIsAsked
CHECK_DEADLOCK FALSE
