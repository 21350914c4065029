SPECIFICATION Spec
CONSTANTS
    d1 = d1
    d2 = d2
    d3 = d3
    c1 = c1
    c2 = c2
    Never = Never
    Bootstrap = Bootstrap
    Device = {d1, d2, d3}
    Code = {c1, c2}
    Legacy = {}
    PairMode = "strict"
    AccessTTL = 1
    RefreshTTL = 2
    PairCodeTTL = 2
    TtlDays = {1}
    Dates = {}
    MaxTime = 2
SYMMETRY Interchangeable
INVARIANTS
    TypeOK
    AdministratorAlwaysExists
    CodesHaveAuthority
PROPERTIES
    EveryCommitProtects
    ManagedByAdminsOnly
    ImplementsAuthority
