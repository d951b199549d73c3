CONSTANTS
    web = web
    db = db
    Name <- MCName
    Managed <- MCManaged
    Choices = {"file"}
    NoCert = NoCert
    Lasts = 2
    MaxClock = 2
    MaxChanges = 2
SPECIFICATION CertificatesSpec
PROPERTY
    NoneLapses
CHECK_DEADLOCK FALSE
