SPECIFICATION FairFlushSpec
CONSTANTS
    User = {u1}
    MayRunLow = TRUE
PROPERTIES
    SavedOnceSpaceIsFree
