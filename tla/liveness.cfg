CONSTANTS
    Node = {n1, n2}
    NoBlock = NoBlock
    a1 = a1
    b1 = b1
    Block <- MCBlock
    MaxHeight <- MCMaxHeight
    Number <- MCNumber
    Parent <- MCParent
    WalkSlack = 0
    MaxRecentForks = 1
    PruneAfter = 0
    DbEnabled = TRUE
    DbFails = TRUE
    MaxAwaiting = 3

SPECIFICATION FairSpec

PROPERTIES
    RowsEventuallyResolved
    BodyEventuallyFetched
