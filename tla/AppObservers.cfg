SPECIFICATION Spec
CONSTANTS
    Ability = {"a", "b", "c"}
    BundleOf <- TwoBundles
    Window = {"wa", "wb", "wc", "wd"}
    OwnerOf <- Owners
    SystemWindow = {"wd"}
    MaxChanges = 4
    MaxDeaths = 1
INVARIANTS
    NoGhostWindow
    ReportedStateMatches
    FrontAgrees
CHECK_DEADLOCK FALSE
