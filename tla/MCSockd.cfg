CONSTANTS
    d1 = d1
    d2 = d2
    c1 = c1
    c2 = c2
    Daemons = {d1, d2}
    MaxAttempts = 1
    Leftovers <- NoLeftover
    Faults = {"crash"}
    OldSockets <- NoOldSocket
    Configs <- AllWithPidFile
    Clients = {c1, c2}
    ReadyTimeout = 0
    InitialBackoff = 1
    MaxBackoff = 1
    ShutdownTimeout = 1
    PollStep = 1
    AutoStarters = {c1, c2}
    PidReaders = {c1, c2}
    Calls = {"request", "ping", "shutdown"}
    Started <- One
SPECIFICATION Spec
SYMMETRY Symmetry
CHECK_DEADLOCK FALSE
INVARIANTS
    AtMostOnce
    ShutdownMeansStopped
PROPERTIES
    ImplementsService
