SPECIFICATION Spec
CONSTANTS
    Ability = {a1}
    Task = {t1}
    Uid = {1, 2, 3}
    Bundle = {"app1", "app2"}
    BundleOf <- Instances
    MainUid = {1, 3}
    Span <- ShortDays
    PeriodLength <- ShortDays
    MaxFiles <- TwoOfEach
    EventHorizon = 3
    MAX_DELETE_EVENT_DALIYS = 1
    Scenario <- Faults
    ClockJump <- Jumps
INVARIANTS
    ClosedDayExact
    FrontTracked
    EventsAccounted
    NeverOvercounts
    MemoryCoversTable
PROPERTIES
    TablesLeaveWhenOld
CHECK_DEADLOCK FALSE
