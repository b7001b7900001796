CONSTANTS
    MaxThreads = 4
    Calls <- Small
SPECIFICATION Spec
INVARIANTS
    CompleteOnSuccess
    CopyStaysWhileRead
PROPERTY
    Returns
