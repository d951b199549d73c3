CONSTANTS
    teller = hub
    server = member
    Node <- MCNode
    Enrolled <- MCEnrolled
    MaxErrands <- MCMaxErrands
    MaxFaults = 1
    FaultKinds = {"settle"}
    Owner = {hub}
    name = h1
    Subject <- MCHostname
    Order <- EdgeOrder
    Place = {p1, p2}
    Nowhere = Nowhere
    Nobody = Nobody
    NoSubject = Untagged
    Concurrent = FALSE
    Fickle = {}
SPECIFICATION MCSpec
INVARIANT
    AsLastTold
CHECK_DEADLOCK FALSE
