CONSTANTS
    Conns = {c1, c2}
    c1 = c1
    c2 = c2
    IdleTimeout = 4
    PollInterval = 2
    TicksPerMs = 2
    LoopFaults = {"io", "panic"}
SPECIFICATION PatientSpec
CHECK_DEADLOCK FALSE
INVARIANTS
    TypeOK
    AckIsLast
    IdleCutsOnlyNewcomers
    NeverOversleeps
    SignalLatency
    UnansweredMeansFailure
PROPERTIES
    ConnectionEnds
    EndsWhenQuiet
    ImplementsView
