CONSTANTS
    None = None
    Workers = {w1, w2}
    Clients = {c1, c2}
    Timeout = 2
SYMMETRY Symmetry
SPECIFICATION Spec
INVARIANT TypeOK
INVARIANT OneChain
INVARIANT AnswersItsOwnClient
INVARIANT MessageLivesWithItsWrite
INVARIANT DeadlineIsItsOwn
PROPERTY NoEarlyClose
PROPERTY ImplementsLifecycle
