CONSTANTS
    Grids <- MCGrids
    MaxTeam = 4
SPECIFICATION ParallelSection
INVARIANTS
    TypeOK
    IteratorInStep
PROPERTIES
    AllItemsRun
