\* Two threads; a growing back-off, one that would shrink, and a fixed one.
CONSTANTS
    t1 = t1
    t2 = t2
    NoTemplate = NoTemplate
    NoAnswer = NoAnswer
    Threads <- MCThreads
    Annotations <- MCAnnotations
SPECIFICATION FairSpec
INVARIANTS
    TypeOK
    OwnPolicy
    BoundedExecutions
    GivesUpLast
PROPERTIES
    RunsAsIfAlone
    EveryCallEnds
