CONSTANTS
    web = web
    db = db
    Services <- MCServices
    Original <- MCOriginal
    Requests <- MCRequests
    Ids = {1, 2, 3, 4}
    EventBuffer = 1
SPECIFICATION FairSpec
PROPERTY UnnamedIsReal
CHECK_DEADLOCK FALSE
