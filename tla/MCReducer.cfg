CONSTANTS
    NThr = 6
    Convolutions <- Small
SPECIFICATION Spec
INVARIANTS
    TypeOK
    ReductionComplete
    NoRace
PROPERTIES
    Finishes
