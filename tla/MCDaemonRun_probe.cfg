CONSTANTS
    d1 = d1
    d2 = d2
    Daemons = {d1, d2}
    MaxAttempts = 3
    Leftovers <- NoLeftover
    Faults = {}
    OldSockets <- NoOldSocket
    Configs <- NoPidFile
SPECIFICATION Spec
CHECK_DEADLOCK FALSE
INVARIANTS
    ExitsOnlyWhenAsked
