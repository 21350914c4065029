SPECIFICATION Spec
CONSTANTS
    d1 = d1
    d2 = d2
    w1 = w1
    w2 = w2
    Idle = Idle
    Device = {d1}
    Worker = {w1, w2}
    MinuteLength = 2
    DayLength = 4
    PerMinute = 2
    BytesPerDay = 3
    Size = {1, 2}
    MaxTime = 6
SYMMETRY Interchangeable
INVARIANTS
    MinuteLimitHolds
