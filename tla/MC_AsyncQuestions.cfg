SPECIFICATION FairSpec
CONSTANTS
    q1 = q1
    q2 = q2
    q3 = q3
    c1 = c1
    c2 = c2
    h1 = h1
    pc = pc
    a1 = a1
    Wording = Wording
    Silent = {TRUE, FALSE}
    Call <- Calls
    Question <- Questions
    CallOf <- Belongs
    Hash = {h1}
    Delivery = {a1}
    Viewer = {pc}
    Origin = pc
    Content <- Contents
    MaxTime = 1
    MaxCrashes = 1
INVARIANTS
    TypeOK
    OwnWordsAreFinal
    StatusFollowsReceipts
    LastEventTellsStatus
PROPERTIES
    AnswersEventuallySettle
