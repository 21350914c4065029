SPECIFICATION FairSpec
CONSTANTS
    q1 = q1
    q2 = q2
    q3 = q3
    c1 = c1
    c2 = c2
    h1 = h1
    pc = pc
    a1 = a1
    Wording = Wording
    Silent = {FALSE}
    Call <- Calls
    Question <- Single
    CallOf <- BelongsSingle
    Hash = {h1}
    Delivery = {a1}
    Viewer = {pc}
    Origin = pc
    Content <- ContentsSingle
    MaxTime = 1
    MaxCrashes = 0
PROPERTIES
    ExplicitConfirmationIsFinal
