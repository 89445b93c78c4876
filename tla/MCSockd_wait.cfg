CONSTANTS
    d1 = d1
    d2 = d2
    c1 = c1
    Daemons = {d1, d2}
    MaxAttempts = 1
    Leftovers <- NoLeftover
    Faults = {}
    OldSockets <- NoOldSocket
    Configs <- AllWithPidFile
    Clients = {c1}
    ReadyTimeout = 1
    InitialBackoff = 1
    MaxBackoff = 1
    ShutdownTimeout = 1
    PollStep = 1
    AutoStarters = {c1}
    PidReaders = {c1}
    Calls = {"request"}
    Started <- One
SPECIFICATION Spec
CHECK_DEADLOCK FALSE
PROPERTIES
    RecoveryStartsDaemon
