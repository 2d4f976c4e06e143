SPECIFICATION FairSpec
CONSTANTS
    n1 = n1
    n2 = n2
    Node = {n1, n2}
    Conn = {c1, c2, c3, c4, c5}
    NoNode = NoNode
    MaxCalls <- MCMaxCalls
INVARIANTS
    ListedAreLive
    NeverGivenUp
    OneCallPerNode
PROPERTIES
    HealthyNodesServed
    StartUpCompletes
