SPECIFICATION Spec
CONSTANTS
    pc = pc
    guest = guest
    c1 = c1
    c2 = c2
    bash = bash
    edit = edit
    t1 = t1
    t2 = t2
    NoTurn = NoTurn
    NoCall = NoCall
    r1 = r1
    p1 = p1
    r2 = r2
    p2 = p2
    s2 = s2
    Hook = {r1, p1, r2, p2, s2}
    CallOf <- Calls
    FormOf <- Forms
    Device = {pc, guest}
    Guest = {guest}
    Call = {c1, c2}
    Tool = {bash, edit}
    Turn = {t1, t2}
    Stories <- Alike
    Window = 1
    TTL = 2
    MaxAge = 3
INVARIANTS
    TypeOK
    EventsTellTheTable
    WaitingIsShown
PROPERTIES
    ToolEndClosesItsOwn
    GuestsCloseTheirOwn
CHECK_DEADLOCK FALSE
