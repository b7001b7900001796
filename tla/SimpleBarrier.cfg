CONSTANTS
    Threads = {t1, t2, t3, t4}
    Rounds = 3
SPECIFICATION FairSpec
INVARIANTS
    TypeOK
    ReleaseIsExclusive
    RoundInv
PROPERTIES
    ImplementsBarrier
    EverybodyLeaves
