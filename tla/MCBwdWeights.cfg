CONSTANTS
    Convolutions <- Small4
    MaxThreads = 4
    Mic = TRUE
    MaxRounds = 6
SPECIFICATION Spec
INVARIANTS
    SumIsComplete
    NoRace
PROPERTIES
    Finishes
