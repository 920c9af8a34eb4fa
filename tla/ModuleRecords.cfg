SPECIFICATION Spec
CONSTANTS
    Uid = {1, 2, 3}
    UserOf <- Users
    RemovedUids <- Removed
    Mentioned <- Removed
    Form = {"f"}
    Day = 3
    StartTime = 5
    ClockJump <- Jumps
    MaxTime = 2
    MaxEvents = 2
    MaxJumps = 1
    MaxDeaths = 1
CONSTRAINT SomeUndisturbed
INVARIANTS
    LaunchesExact
    ClicksExact
    RemovedIsForgotten
CHECK_DEADLOCK FALSE
