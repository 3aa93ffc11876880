\* Loading throws inside execute: what exitDs then takes off.
CONSTANTS
    request = request
    master = master
    hip = hip
    hipBase = hipBase
    NoGroup = NoGroup
    Primary = master
    Threads <- MCThreads
    Names <- MCNames
    Group <- MCGroup
    MaxDepth = 3
SPECIFICATION Spec
PROPERTY ExitsOwnSwitchOnly
