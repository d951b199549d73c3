CONSTANTS
    s1 = s1
    me = me
    a = a
    cname = cname
    f1 = f1
    f2 = f2
    loop = loop
    Server = {s1}
    Me = me
    Record <- MCRecord
    Alone <- MCAlone
    Form <- MCForm
    Loop = loop
    Clock = {1, 3, 5}
    MaxSerial = 4
    MaxChanges = 4
    hub = hub
    n1 = n1
    n2 = n2
    Peer <- MCPeer
    Authority <- MCAuthority
    Member <- MCMember
    Addr = {1, 2, 3}
    AddressOf <- MCAddressOf
    NoRow = NoRow
    FaultKinds = {"kernel", "unread", "names", "database", "stop", "reboot"}
    MaxNews = 2
    MaxFaults = 1
SPECIFICATION MCSpec
INVARIANTS
    CurrentIsTold
    NobodyElseAnswers
    FollowsTheRows
PROPERTIES
    SerialMovesForward
    SessionsSurvive
    ListenerCatchesUp
CHECK_DEADLOCK FALSE
