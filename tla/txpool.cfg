CONSTANTS
    Node = {n1}
    NoBlock = NoBlock
    a1 = a1
    b1 = b1
    seen = seen
    stuck = stuck
    replacement = replacement
    k1 = k1
    k2 = k2
    Block <- MCBlock
    MaxHeight <- MCMaxHeight
    Number <- MCNumber
    Parent <- MCParent
    WalkSlack = 0
    Tx <- MCTx
    SignerNonce = {k1, k2}
    NoKey = NoKey
    Key <- MCKey
    Death <- MCDeath
    Body <- MCBody
    NoInclusion = NoInclusion
    GraceBlocks = 0
    DropGracePolls = 1
    DropMaxWaitPolls = 3
    ReappearPolls = 2
    MaxHashes = 3
    ResubmitEnabled = TRUE
    MaxResubmitRetries = 1
    PruneAfter = 0
    Orderly = FALSE
    PoolTx = {stuck}

SPECIFICATION Spec

INVARIANTS
    CanonicalOnlyFromFinalized
    OneOutcomePerTx
    OneRetryLifecycle
    StreakMatchesPool

PROPERTY DroppedOnlyIfUnseen
