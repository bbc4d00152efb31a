CONSTANTS
    db = db
    web = web
    solo = solo
    stack = stack
    tag = tag
    Members <- PairMembers
    Singles = {solo}
    Stacks = {stack}
    Order <- PairOrder
    NameOrder <- PairNames
    Tags = {tag}
    TagOf <- PairTagOf
    Choices <- PairChoices
    GroupLimits = {0, 1}
    MaxRuns = 1
    MaxDigest = 2
    MaxId <- PairMaxId
SPECIFICATION FairSpec
PROPERTY BlockedOnlyIfTouched
