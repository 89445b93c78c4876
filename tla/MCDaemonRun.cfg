CONSTANTS
    d1 = d1
    d2 = d2
    Daemons = {d1, d2}
    MaxAttempts = 2
    Leftovers <- FewLeftovers
    Faults = {"io", "crash", "recycle"}
    OldSockets <- AnyOldSocket
    Configs <- AllOrNobody
SPECIFICATION FairSpec
CHECK_DEADLOCK FALSE
INVARIANTS
    TypeOK
    OwnsPath
    RemovesOnlyStale
    PidOutlivesState
    StateHandedBack
    StartupLeavesOthersAlone
PROPERTIES
    WarmOwnership
    RefusedByAnother
    RunSettles
