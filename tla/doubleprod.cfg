SPECIFICATION Spec
CONSTANTS
    b1 = b1
    b2 = b2
    b3 = b3
    al = al
    bo = bo
    Block = {b1, b2, b3}
    Account = {al, bo}
    NoAccount = NoAccount
    Author <- MCAuthor
    ParaParent <- MCParaParent
    RelayNumber <- MCRelayNumber
    RelayRoot <- MCSharedRoot
    RootOnly = {b2}
    HasName = {al}
    KnownAuthor = {bo}
    LookupFails = FALSE
INVARIANT DoubleProductionIsReal
CHECK_DEADLOCK FALSE
