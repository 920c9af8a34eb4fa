SPECIFICATION Spec
CONSTANTS
    Uid = {1, 2}
    UserOf <- TwoUsers
    Launcher = {2}
    Delay = 2
    MaxTime = 4
    MaxTimers = 3
    MaxQueue = 3
    MaxEvents = 3
INVARIANTS
    GuardHasTimer
    GuardLasts
CHECK_DEADLOCK FALSE
