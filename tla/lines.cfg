SPECIFICATION Spec
CONSTANTS
    Payments = {p1}
    Lines = {l1, l2}
    Entries = {e1, e2}
    Values <- MCValues
    DaysBack = 2
    Actors = {a1, a2}
    None = none
INVARIANTS TypeOK LinesFollow AskedIsShown OneDecider RejectedGoes
PROPERTIES ReconciledLands
CHECK_DEADLOCK FALSE
SYMMETRY Alike
CONSTRAINT Watched
