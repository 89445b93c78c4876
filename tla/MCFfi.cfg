CONSTANTS
    Callers = {c1, c2}
    Texts = {"router", "echo"}
    ArgsOf <- Arguments
    Numbers = {0, 1, 3}
    Millis = {2000}
    Messages <- SomeMessages
    Addresses = {a1, a2, a3}
    Null = Null
    BadUtf8 = BadUtf8
SPECIFICATION Spec
INVARIANTS
    TypeOK
    OwnedOnce
    CodeTellsOutputs
    AutoStartPaired
PROPERTIES
    FailedCallKeepsConfig
