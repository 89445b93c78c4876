CONSTANTS
    Conns = {c1}
    c1 = c1
    c2 = c2
    IdleTimeout = 4
    PollInterval = 2
    TicksPerMs = 2
    LoopFaults = {}
SPECIFICATION FairSpec
CHECK_DEADLOCK FALSE
PROPERTIES
    SignalEndsLoop
