\* Scopes of all kinds; loading may throw in each of them.
CONSTANTS
    request = request
    master = master
    hip = hip
    hipBase = hipBase
    NoGroup = NoGroup
    Primary = master
    Threads <- MCThreads
    Names <- MCNames
    Group <- MCGroup
    MaxDepth = 3
SPECIFICATION Spec
INVARIANTS
    TypeOK
    StackMirrorsScopes
    OwnOrPrimary
    NothingLeftBehind
    RoutedByOwnScopes
