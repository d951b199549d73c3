CONSTANTS
    teller = hub
    server = member
    Node <- MCNode
    Enrolled <- MCEnrolled
    MaxErrands <- MCMaxErrands
    MaxFaults = 2
    FaultKinds = {"crash", "collect"}
    Owner = {hub}
    name = h1
    Subject <- MCHostname
    Order <- EdgeOrder
    Place = {p1, p2}
    Nowhere = Nowhere
    Nobody = Nobody
    NoSubject = Untagged
    Concurrent = FALSE
    Fickle <- MCFickle
SPECIFICATION MCSpec
INVARIANTS
    LastInstructionIsCurrent
PROPERTIES
    Spec
    UngrantedReleased
    ReadsInOrder
CHECK_DEADLOCK FALSE
