CONSTANTS
    Problems <- PartsAndBlocks
    MaxThreads = 4
    Teams = {1, 2, 3, 4}
SPECIFICATION Spec
INVARIANTS
    TypeOK
    SumIsComplete
    NoRace
PROPERTIES
    Returns
