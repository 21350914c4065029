SPECIFICATION FairSpec
CONSTANTS
    d1 = d1
    d2 = d2
    d3 = d3
    c1 = c1
    Never = Never
    Bootstrap = Bootstrap
    Device = {d1, d2, d3}
    Code = {c1}
    Legacy = {d1, d2}
    PairMode = "easy"
    AccessTTL = 2
    RefreshTTL = 2
    PairCodeTTL = 1
    TtlDays = {}
    Dates = {2}
    MaxTime = 2
INVARIANTS
    AccessWithinRefresh
PROPERTIES
    ImplementsAuthority
    AuthorityRecovers
