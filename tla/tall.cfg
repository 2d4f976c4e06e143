\* WalkSlack is 100 in the code; 0 shows that the walk never needs the slack
CONSTANTS
    Node = {n1, n2}
    NoBlock = NoBlock
    a1 = a1
    b1 = b1
    a2 = a2
    b2 = b2
    a3 = a3
    Block <- MCBlock
    MaxHeight <- MCMaxHeight
    Number <- MCNumber
    Parent <- MCParent
    WalkSlack = 0
    MaxRecentForks = 1
    PruneAfter = 0
    DbEnabled = FALSE
    DbFails = FALSE
    MaxAwaiting = 1

SPECIFICATION Spec

INVARIANTS
    IndexesAgree
    ForkDepthIsRunLength
    CanonicalWalkExact
    ActiveGaugeExact

SYMMETRY MCSymmetry
