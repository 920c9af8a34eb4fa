SPECIFICATION Spec
CONSTANTS
    Ability = {"a", "b"}
    BundleOf <- OneBundle
    Window = {"wa", "wb"}
    OwnerOf <- OneEach
    SystemWindow = {}
    MaxChanges = 5
    MaxDeaths = 0
INVARIANTS
    ForegroundHasVisibleWindow
CHECK_DEADLOCK FALSE
