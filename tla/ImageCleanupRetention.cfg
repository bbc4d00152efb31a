CONSTANTS
    web = web
    worker = worker
    A = A
    B = B
    C = C
    Keys = {web, worker}
    Images = {A, B, C}
    First = A
    Retentions = {1}
    MaxAttempts = 2
    MaxHistory = 2
    MaxQueued = 4
SPECIFICATION Spec
INVARIANT LatestRollbackKept
