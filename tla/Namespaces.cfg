\* Two requests at a time, on one id with and without blanks and one UUID.
CONSTANTS
    c1 = c1
    c2 = c2
    dev = dev
    paddedDev = paddedDev
    uuid = uuid
    x = x
    y = y
    NoRow = NoRow
    NoKey = NoKey
    Clients <- MCClients
    Ids = {dev}
    Padded = {paddedDev}
    Trim <- MCTrim
    Uuids = {uuid}
    Titles = {x, y}
SPECIFICATION Spec
INVARIANTS
    TypeOK
    OnlyTrimmedIds
PROPERTY CreatesAtOnce
