CONSTANTS
    node = node
    edge = edge
    dns = dns
    Peer = {hub}
    Capability <- MCCapability
    Declinable <- MCDeclinable
    orders = orders
    Database <- MCDatabase
    Runner <- MCRunner
    Here = node
    Failing = {}
    Stubborn = FALSE
    KeepDays = {0, 2}
    Every = 2
    Late = 4
    Most = 3
    NoCopy = NoCopy
    v1 = v1
    v2 = v2
    v3 = v3
    i1 = i1
    i2 = i2
    Version <- MCVersion
    Shipped = v1
    Installer <- MCInstaller
    MaxRuns = 3
    NoFile = NoFile
    AtOnce = TRUE
    h1 = h1
    h2 = h2
    home = home
    nowhere = nowhere
    f1 = f1
    boot = boot
    Holder <- MCHolder
    Slots = {1, 2}
    Home = home
    Nowhere = nowhere
    Handler = {f1}
    Boot = boot
    MaxPresses = 3
    hub = hub
    member = member
    r1 = r1
    r2 = r2
    b1 = b1
    Node <- MCNode
    Enrolled <- MCEnrolled
    MaxErrands <- MCBothWays
    Order <- MCAsking
    Subject = {}
    Restarts <- MCTwoRestarts
    Supervised <- MCNode
    Fickle = {hub}
    NoSubject = NoSubject
    Nothing = Nothing
    Patient = TRUE
    MaxFaults = 1
    FaultKinds = {"ask", "collect", "settle", "crash"}
SYMMETRY MCPresses
SPECIFICATION MCSpec
INVARIANTS
    PartsTypeOK
    OnceForEachErrand
    AnsweredRestartHappened
    WithdrawalHolds
    WindowReachable
    PromiseKept
    BinaryIsKept
    DoneIsWhatRuns
    ToldWhatIsPlaced
    SilenceIsRight
    DeletedIsLetGo
CHECK_DEADLOCK FALSE
