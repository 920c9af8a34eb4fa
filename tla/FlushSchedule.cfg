SPECIFICATION FairFlushSpec
CONSTANTS
    User = {u1, u2}
    MayRunLow = TRUE
INVARIANTS
    UnsavedIsMarked
    NothingLost
    FlushFollows
PROPERTIES
    SavedWhenAlone
