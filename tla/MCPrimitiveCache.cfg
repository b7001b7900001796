CONSTANTS
    Threads = {1, 2}
    Keys <- Kinds
    Nested <- NestedIn
    Need <- NeedOf
    Global = {"small", "medium", "large", "bad"}
    Failing = {"bad"}
    Concurrent = FALSE
    Programs <- Apart
    MaxIds = 12
SPECIFICATION Spec
INVARIANTS
    TypeOK
    CacheConsistent
    ScratchpadFits
    ScratchpadFreed
PROPERTIES
    LockReleased
