CONSTANTS
    Node = {n1}
    NoBlock = NoBlock
    a1 = a1
    b1 = b1
    a2 = a2
    b2 = b2
    a3 = a3
    a4 = a4
    shared = shared
    lost = lost
    replacement = replacement
    late = late
    mortal = mortal
    k1 = k1
    k2 = k2
    k3 = k3
    k4 = k4
    Block <- MCBlock
    MaxHeight <- MCMaxHeight
    Number <- MCNumber
    Parent <- MCParent
    WalkSlack = 0
    Tx <- MCTx
    SignerNonce = {k1, k2, k3, k4}
    NoKey = NoKey
    Key <- MCKey
    Death <- MCDeath
    Body <- MCBody
    NoInclusion = NoInclusion
    GraceBlocks = 2
    DropGracePolls = 1
    DropMaxWaitPolls = 2
    ReappearPolls = 2
    MaxHashes = 5
    ResubmitEnabled = TRUE
    MaxResubmitRetries = 2
    PruneAfter = 1
    Orderly = TRUE
    PoolTx = {}

SPECIFICATION Spec

INVARIANTS
    WinnerNeverReviewed
    LosersAccounted
    ConfirmedMeansRescued

PROPERTY AlertsAreReal
