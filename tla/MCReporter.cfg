SPECIFICATION FairSpec
CONSTANTS
    Deals = {1, 2, 3}
    Providers = {"me", "other", "third"}
    Me = "me"
    DoReport = TRUE
    PageLimit = 2
    MaxFaults = 1
    InitialOwner <- MCOwner
    InitialReport <- MCReport
    InitialLost = {{1, 3}, {2, 3}}
    Messages <- ReporterMessages
    NoMessage = NoMessage
    NoTx = NoTx
INVARIANTS TypeOK SequenceIsOwn
PROPERTIES ReportedForCause AskedIsAttested UnavailableIsReported
