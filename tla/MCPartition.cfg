CONSTANT
    Inputs <- All
SPECIFICATION Calls
INVARIANTS
    FitsThreads
    EveryShareHasWork
    BandsArePartition
    SlicesTile
    GroupsFitTeam
    JobsArePartition
    BuffersBounded
    BlocksArePartition
    GridHasWork
    EveryValueMoved
