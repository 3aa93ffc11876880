\* All paths of up to three segments, with and without credentials.
\* No deadlock is looked for: the finitely many requests are used up, and the system rests.
CONSTANTS
    r1 = r1
    system = system
    job = job
    docs = docs
    None = None
    Docs = docs
    Requests <- MCRequests
    Services <- MCServices
    Segments <- MCSegments
    MaxLength = 3
    MaxHops = 4
SPECIFICATION Spec
CHECK_DEADLOCK FALSE
INVARIANTS
    TypeOK
    OneHopPerSegment
    OrderDecides
    FailuresAreTold
PROPERTY EveryRequestEnds
