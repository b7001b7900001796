SPECIFICATION Spec
CONSTANTS
    Keys = {1, 1023}
    Prefixes = {1, 2}
    Sizes = {0, 64, 65}
    Alignments = {16, 128}
    Bases = {4096, 4097, 4159}
    MaxBooked = 2
    MaxScopes = 4
INVARIANTS
    LedgerInv
    EveryRequestServed
    BuffersDisjoint
