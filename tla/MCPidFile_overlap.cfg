CONSTANTS
    d1 = d1
    d2 = d2
    Daemons = {d1, d2}
    MaxAttempts = 3
    Leftovers <- OnlyNoFile
    Faults = {}
SPECIFICATION Spec
CHECK_DEADLOCK FALSE
INVARIANTS
    Exclusive
