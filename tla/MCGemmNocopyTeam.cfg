CONSTANTS
    Problems <- SixShares
    MaxThreads = 12
    Teams = {6}
SPECIFICATION Spec
PROPERTIES
    Returns
