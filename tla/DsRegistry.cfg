\* Two request threads and one administrator, two calls each.
CONSTANTS
    r1 = r1
    r2 = r2
    admin = admin
    master = master
    tenant = tenant
    managed = managed
    Boot = Boot
    NoPool = NoPool
    Free = Free
    Primary = master
    Threads <- MCThreads
    Admins <- MCAdmins
    Names <- MCNames
    AdminNames <- MCAdminNames
    MaxCalls = 2
SPECIFICATION FairSpec
INVARIANTS
    TypeOK
    PoolsAccountedFor
    PrimaryRegistered
    NoQueryWhenLoaded
PROPERTIES
    LoadsOnDemand
    EveryCallEnds
\* Calls are bounded, so the system may really stop.
CHECK_DEADLOCK FALSE
