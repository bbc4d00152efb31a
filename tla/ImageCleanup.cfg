CONSTANTS
    web = web
    worker = worker
    A = A
    B = B
    C = C
    Keys = {web}
    Images = {A, B, C}
    First = A
    Retentions = {0, 1}
    MaxAttempts = 2
    MaxHistory = 1
    MaxQueued = 4
SYMMETRY Interchangeable
SPECIFICATION Spec
INVARIANTS
    TypeOK
    BudgetRespected
    HistoryBounded
    FirstRollbackKept
CHECK_DEADLOCK FALSE
