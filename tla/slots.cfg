CONSTANTS
    Node = {n1, n2}
    NoNode = NoNode
    Unset = Unset
    MaxNumber = 5
    Slot <- MCSlot
    FetchWindow = 2
    MaxHistory = 4
    MaxCombos = 2
    MaxQueue = 2

SPECIFICATION FairSpec

INVARIANTS
    SlotsAccounted
    MissesAreReal
    CombosMaximal

PROPERTIES
    NeverBackwards
    HeadersProcessed
