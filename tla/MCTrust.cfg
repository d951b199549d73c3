CONSTANTS
    n1 = n1
    n2 = n2
    t1 = t1
    t2 = t2
    c1 = c1
    c2 = c2
    Joiner <- MCJoiner
    Token <- MCToken
    Call <- MCCall
    Address = {1, 2}
    NoToken = NoToken
    NoAddress = NoAddress
    NoJoiner = NoJoiner
    Apart = TRUE
    web = web
    db = db
    Name <- MCName
    Managed <- MCManaged
    Choices = {"file"}
    NoCert = NoCert
    Lasts = 2
    MaxClock = 2
    MaxChanges = 2
SPECIFICATION MCSpec
INVARIANTS
    TrustIsMutual
    PromisedAddressIsFree
    AddressAgreed
    ServedIsStored
    AnsweredAsChosen
PROPERTY
    HeldInTime
SYMMETRY MCSymmetry
CHECK_DEADLOCK FALSE
