CONSTANTS
    Base = 8
    Magic = 1234
    Version = 1
    Capacity = 5
    Limit <- Limits
    Requests <- SomeRequests
    Garbage <- SomeGarbage
    AnswerLens <- Lens
    Mortal = {"client", "daemon"}
SPECIFICATION FairSpec
CHECK_DEADLOCK FALSE
INVARIANTS
    TypeOK
    FrameArrives
    WithinLimit
    LegalExchangeSucceeds
    NeverBothWait
PROPERTIES
    ExchangeEnds
