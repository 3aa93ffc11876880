\* A document of one of four classes with two fields; edits reach every object,
\* so one client has whatever several would have in hand.
CONSTANTS
    c1 = c1
    v1 = v1
    v2 = v2
    Null = Null
    Clients <- MCClients
    Names <- MCNames
    Lower <- MCLower
    Classes <- MCClasses
    Values <- MCValues
SPECIFICATION Spec
INVARIANTS
    TypeOK
    SavingBackChangesNothing
    BuildersAgree
    ExcludedStays
