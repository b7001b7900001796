CONSTANT
    Inputs <- ThinPacks
SPECIFICATION Calls
INVARIANT
    ThreadSizesSet
