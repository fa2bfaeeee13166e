CONSTANTS
    n1 = n1
    n2 = n2
    mint = mint
    ann = ann
    bob = bob
    Nodes <- MCNodes
    Slice <- MCSlice
    Owners <- MCOwners
    Operations <- Separate
    Signature <- MCSignature
    Nil = Nil
    BalanceRange = 16
    SequenceRange = 8
    MaxChunkSize = 3
    QueueLimit = 2
    Funds <- MCFunds
    MaxRestarts = 1
SPECIFICATION FairSpec
INVARIANTS
    TypeOK
    NeverFails
    LedgersAgree
    PoolValid
    SequenceIsLast
    MoneyAccounted
PROPERTIES
    OnlyWorstEvicted
    PoolsSpread
CHECK_DEADLOCK FALSE
