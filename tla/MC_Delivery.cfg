SPECIFICATION FairSpec
CONSTANTS
    pc = pc
    phone = phone
    c1 = c1
    c2 = c2
    n1 = n1
    n2 = n2
    h1 = h1
    h2 = h2
    Sweeper = Sweeper
    Free = Free
    Nowhere = Nowhere
    Closing = Closing
    Device = {pc, phone}
    Connection = {c1, c2}
    DeviceOf <- OneEach
    Handler = {h1}
    Notification = {n1}
    Origin <- OnlyOne
    MaxEvents = 2
    MaxChanges = 1
INVARIANTS
    TypeOK
    HubHoldsNoRevoked
    GuestsHearTheirOwn
    NewsReachesListeners
PROPERTIES
    OnlyTheEntitledHear
    EveryTaskEnds
    OverdueEnds
    UnauthorizedLeave
CHECK_DEADLOCK FALSE
