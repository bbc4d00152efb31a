CONSTANTS
    db = db
    web = web
    solo = solo
    stack = stack
    tag = tag
    Members <- StackMembers
    Singles = {}
    Stacks = {stack}
    Order <- StackOrder
    NameOrder <- StackNames
    Tags = {tag}
    TagOf <- StackTagOf
    Choices <- StackChoices
    GroupLimits = {0}
    MaxRuns = 2
    MaxDigest = 2
    MaxId <- StackMaxId
SPECIFICATION FairSpec
INVARIANTS
    TypeOK
    NoRetryOfBroken
    InterruptedPauses
    StackCoherent
    NoPartialStack
PROPERTY RunEnds
