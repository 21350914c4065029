SPECIFICATION FairSpec
CONSTANTS
    INTERVAL = 3
    Base = 1
    Margin = 1
    Demands = {0, 2}
    MaxTime = 5
    MaxCertificates = 2
    MaxOrders = 1
    MaxCrashes = 1
INVARIANTS
    TypeOK
PROPERTIES
    EmbargoHolds
    SuccessMeansServed
    PendingReloadRecovers
