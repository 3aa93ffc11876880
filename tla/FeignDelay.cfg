\* How long the calls sleep, by the maximum their annotations declare.
CONSTANTS
    t1 = t1
    t2 = t2
    NoTemplate = NoTemplate
    NoAnswer = NoAnswer
    Threads <- MCThreads
    Annotations <- MCAnnotations
SPECIFICATION Spec
INVARIANT SleepsWithinMax
