\* Two clients with one call each, on any table left by earlier statements.
\* A client stops after its last call, hence no deadlock check: a call itself
\* can always go on, if only because the database ends its wait.
CONSTANTS
    user = user
    job = job
    k1 = k1
    k2 = k2
    p1 = p1
    ann = ann
    byHand = byHand
    NoName = NoName
    NoRow = NoRow
    Clean = Clean
    NoAnswer = NoAnswer
    Clients <- MCClients
    User <- MCUser
    Keys <- MCKeys
    Audited <- MCAudited
    Names <- MCNames
    Requests <- MCRequests
    MaxCalls = 1
\* Calls are bounded, so the system may really stop.
CHECK_DEADLOCK FALSE
SPECIFICATION Spec
INVARIANTS
    TypeOK
    SavedRowsExist
    AnswersExplained
    AuditIsTrue
    FailedBatchKeepsFlushes
