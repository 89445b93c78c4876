CONSTANTS
    d1 = d1
    c1 = c1
    c2 = c2
    Daemons = {d1}
    MaxAttempts = 1
    Leftovers <- AnyLeftover
    Faults = {"io", "crash", "recycle"}
    OldSockets <- NoOldSocket
    Configs <- AllWithPidFile
    Clients = {c1, c2}
    ReadyTimeout = 3
    InitialBackoff = 1
    MaxBackoff = 2
    ShutdownTimeout = 1
    PollStep = 1
    AutoStarters = {c1}
    PidReaders = {c1}
    Calls = {"request", "shutdown"}
    Started <- NobodyOrOne
SPECIFICATION FairSpec
CHECK_DEADLOCK FALSE
INVARIANTS
    TypeOK
    GivesUpInTime
PROPERTIES
    EveryCallReturns
    ServesAsEventLoop
