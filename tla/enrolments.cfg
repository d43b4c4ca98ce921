SPECIFICATION Spec
CONSTANTS
    Orgs = {dubai, bangalore}
    Invoices = {i1, i2, i3}
    Callers = {c1}
    None = none
    MaxFaults = 1
INVARIANTS TypeOK OneBill StaysBilled
PROPERTIES ApprovedStands
CHECK_DEADLOCK FALSE
SYMMETRY Alike
CONSTRAINT Watched
