SPECIFICATION Spec
CONSTANTS
    Bundle = {"app1"}
    Uid = {1}
    BundleOf <- OneInstance
    MainUid = {1}
    SetGroups = {20}
    DirectTimeout = 2
    SystemTimeout = 1
    NotifyTimeout = 2
    BootLevel <- BootLevels
    ScreenLevel <- ScreenLevels
    Stamp = {1, 2}
    MAX_END_TIME = 3
    MaxTime = 3
    MaxEvents = 3
    MaxRestarts = 1
INVARIANTS
    UpTimeExact
    PromiseKept
    UnsavedEntryIsMarked
PROPERTIES
    NoRowOfRemovedBundle
    ForcedStays
CHECK_DEADLOCK FALSE
