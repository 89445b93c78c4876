CONSTANTS
    d1 = d1
    d2 = d2
    d3 = d3
    Daemons = {d1, d2, d3}
    MaxAttempts = 2
    Leftovers <- AnyLeftover
    Faults = {"io", "crash", "recycle"}
SPECIFICATION Spec
CHECK_DEADLOCK FALSE
SYMMETRY Symmetry
INVARIANTS
    TypeOK
    FileNamesHolder
    RetryNeedsOverlap
PROPERTIES
    OwnershipSpec
