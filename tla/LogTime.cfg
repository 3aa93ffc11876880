\* Whose start time gets into the log when @Log methods nest.
CONSTANTS
    t1 = t1
    t2 = t2
    w1 = w1
    w2 = w2
    NoStamp = NoStamp
    NoEvent = NoEvent
    NotStarted = NotStarted
    Threads <- MCThreads
    Workers <- MCWorkers
    CpuCore = 1
    QueueSize = 1
    MaxCalls = 4
    MaxDepth = 2
SPECIFICATION Spec
INVARIANT OperatorTimeIsOwn
\* Calls are bounded, so the system may really stop.
CHECK_DEADLOCK FALSE
