SPECIFICATION FairSpec
CONSTANTS
    Client = {c1, c2}
    MaxGen = 4
    MaxLife = 3
INVARIANTS
    DeadProxyIsReported
    DeadObserverIsReported
    RememberedIsRegistered
PROPERTIES
    Resubscribed
    DeadObserverLeaves
