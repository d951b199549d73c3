CONSTANTS
    hub = hub
    rival = rival
    member = member
    h1 = h1
    Node <- MCNode
    Enrolled <- MCEnrolled
    MaxErrands <- MCMaxErrands
    MaxFaults = 1
    FaultKinds = {"ask", "crash", "settle"}
    Owner <- MCNode
    Subject <- MCHostname
    Order <- EdgeOrder
    Place = {p1}
    Nowhere = Nowhere
    Nobody = Nobody
    NoSubject = Untagged
    Concurrent = FALSE
    Fickle <- MCFickle
SPECIFICATION MCSpec
INVARIANTS
    RouteIsHolders
    OnlyChosenTold
CHECK_DEADLOCK FALSE
