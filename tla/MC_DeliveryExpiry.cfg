SPECIFICATION Spec
CONSTANTS
    pc = pc
    phone = phone
    c1 = c1
    c2 = c2
    n1 = n1
    n2 = n2
    h1 = h1
    h2 = h2
    Sweeper = Sweeper
    Free = Free
    Nowhere = Nowhere
    Closing = Closing
    Device = {pc, phone}
    Connection = {c1}
    DeviceOf <- OnlyPhone
    Handler = {h1}
    Notification = {n1}
    Origin <- OnlyOne
    MaxEvents = 1
    MaxChanges = 0
INVARIANTS
    ExpiryReachesListeners
CHECK_DEADLOCK FALSE
