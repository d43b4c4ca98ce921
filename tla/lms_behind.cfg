SPECIFICATION Spec
CONSTANTS
    Invoices = {i1}
    Callers = {c1}
    Worker = worker
    Mortal = {}
    Forex = {"first"}
    MaxChanges = 1
    MaxFaults = 0
INVARIANT NoStepBehind
CHECK_DEADLOCK FALSE
