SPECIFICATION FairSpec
CONSTANTS
    Time = {1, 2, 3}
    Bundle = {a, b}
    MaxEvents = 5
INVARIANTS
    Sorted
    IndexInRange
PROPERTIES
    EraseComplete
    LoopsEnd
