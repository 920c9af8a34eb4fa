SPECIFICATION Spec
CONSTANTS
    Ability = {a1, a2}
    Task = {t1, t2}
    MaxTime = 5
    MaxStarts = 4
INVARIANTS
    FrontTimeExact
    TaskTimeExact
