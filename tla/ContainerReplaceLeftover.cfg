CONSTANTS
    web = web
    db = db
    Services <- MCServices
    Original <- MCOriginal
    Requests <- MCRequests
    Ids = {1, 2, 3}
    EventBuffer = 1
SPECIFICATION FairSpec
INVARIANT LeftoverReported
CHECK_DEADLOCK FALSE
