SPECIFICATION Spec
CONSTANTS
    Sessions = {s1, s2}
    Lines = {l1}
    Amounts = {1, 2}
    LastDay = 2
    Balances = {0, 1}
    None = none
    MaxFaults = 1
INVARIANTS TypeOK LockedBySigned LastIsLatest FiguresAgree
PROPERTIES SignedInOrder
CHECK_DEADLOCK FALSE
SYMMETRY Alike
