\* Four calls of @Log methods fill the pool to the point where a caller runs.
CONSTANTS
    t1 = t1
    t2 = t2
    w1 = w1
    w2 = w2
    NoStamp = NoStamp
    NoEvent = NoEvent
    NotStarted = NotStarted
    Threads <- MCThreads
    Workers <- MCWorkers
    CpuCore = 1
    QueueSize = 1
    MaxCalls = 4
    MaxDepth = 2
SPECIFICATION FairSpec
INVARIANTS
    TypeOK
    EventsConserved
    StartOfOwnRequest
    AloneIsLogged
PROPERTIES
    CallerRunsLast
    EventsAreSaved
\* Calls are bounded and the JVM ends, so the system may really stop.
CHECK_DEADLOCK FALSE
