CONSTANTS
    db = db
    web = web
    solo = solo
    stack = stack
    tag = tag
    Members <- PairMembers
    Singles = {solo}
    Stacks = {stack}
    Order <- PairOrder
    NameOrder <- PairNames
    Tags = {tag}
    TagOf <- PairTagOf
    Choices <- PairChoices
    GroupLimits = {1}
    MaxRuns = 1
    MaxDigest = 3
    MaxId <- PairMaxId
SPECIFICATION Spec
INVARIANTS
    NoRetryOfBroken
