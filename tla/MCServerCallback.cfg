CONSTANTS
    Ports = {0, 3000, 70000}
    Addresses = {"localhost", "127.0.0.1"}
    Numerals = {"127.0.0.1"}
    WorkerNums <- SomeWorkerNums
    UIntValues = 8
    Roots = {"docs"}
    Handlers = {h}
    Unset = Unset
    Any = Any
    Empty = Empty
SPECIFICATION FairSpec
PROPERTY StartCallbackCalled
CHECK_DEADLOCK FALSE
