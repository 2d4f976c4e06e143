CONSTANTS
    Node = {n1, n2}
    NoBlock = NoBlock
    a1 = a1
    b1 = b1
    c1 = c1
    a2 = a2
    Block <- MCBlock
    MaxHeight <- MCMaxHeight
    Number <- MCNumber
    Parent <- MCParent
    WalkSlack = 0
    MaxRecentForks = 2
    PruneAfter = 1
    DbEnabled = TRUE
    DbFails = FALSE
    MaxAwaiting = 2

SPECIFICATION Spec

INVARIANTS
    ForkBlocksPersisted
    OneRowPerDetection
    BodyFetchedOnceInWindow

SYMMETRY MCSymmetry
