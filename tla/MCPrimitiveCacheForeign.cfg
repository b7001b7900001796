CONSTANTS
    Threads = {1, 2}
    Keys <- Kinds
    Nested <- NestedIn
    Need <- NeedOf
    Global = {"small", "medium", "large", "bad"}
    Failing = {"bad"}
    Concurrent = FALSE
    Programs <- Shared
    MaxIds = 12
SPECIFICATION Spec
INVARIANTS
    ScratchpadFits
