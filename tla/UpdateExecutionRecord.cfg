CONSTANTS
    db = db
    web = web
    solo = solo
    stack = stack
    tag = tag
    Members <- StackMembers
    Singles = {}
    Stacks = {stack}
    Order <- StackOrder
    NameOrder <- StackNames
    Tags = {tag}
    TagOf <- StackTagOf
    Choices <- StackChoices
    GroupLimits = {0}
    MaxRuns = 1
    MaxDigest = 2
    MaxId <- StackMaxId
SPECIFICATION Spec
INVARIANT RolledBackRecorded
