SPECIFICATION Spec
CONSTANTS
    d1 = d1
    d2 = d2
    w1 = w1
    Idle = Idle
    Device = {d1, d2}
    Worker = {w1}
    MinuteLength = 2
    DayLength = 4
    PerMinute = 2
    BytesPerDay = 3
    Size = {1, 2}
    MaxTime = 6
SYMMETRY Interchangeable
INVARIANTS
    MinuteLimitHolds
    DayQuotaHolds
    RetryAfterIsHonest
    UsageIsExact
