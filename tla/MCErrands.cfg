CONSTANTS
    hub = hub
    member = member
    Node <- MCNode
    Enrolled <- MCEnrolled
    MaxErrands <- MCMaxErrands
    Order = {o1}
    Subject = {}
    NoSubject = NoSubject
    FaultKinds = {"ask", "collect", "settle", "crash"}
    MaxFaults = 1
SPECIFICATION FairSpec
INVARIANTS
    SettledMeansAnswered
    FirstInOrder
PROPERTIES
    SettledIsFinal
    EveryErrandAnswered
CHECK_DEADLOCK FALSE
