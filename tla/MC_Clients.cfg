SPECIFICATION Spec
CONSTANTS
    own = own
    other = other
    w1 = w1
    w2 = w2
    Notification = {own, other}
    Own = {own}
    Limit = 1
    Way = {"pages", "all"}
    MaxEvents = 3
    MaxChanges = 1
    Entry = {1, 2}
    Mine = {1}
    PageSizes = {1, 2}
    Days = 1
    MaxClock = 2
    MaxAlterations = 1
    Windows = {w1, w2}
    Stale = 1
    Pauses = {1}
    MaxTime = 2
    MaxMoves = 1
INVARIANTS
    TypeOK
    CaughtUp
    HistoryIsComplete
    AvailabilityIsAnnounced
PROPERTIES
    CatchUpEnds
CHECK_DEADLOCK FALSE
