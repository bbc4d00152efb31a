CONSTANTS
    web = web
    db = db
    Services <- MCServices
    Original <- MCOriginal
    Requests <- MCRequests
    Ids = {1, 2, 3, 4}
    EventBuffer = 1
SPECIFICATION FairSpec
INVARIANTS
    TypeOK
    ServiceKept
    NoOverlap
    VerdictTrue
    BootCrashCaught
PROPERTY UpdateTerminates
CHECK_DEADLOCK FALSE
