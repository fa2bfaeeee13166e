CONSTANTS
    n1 = n1
    n2 = n2
    mint = mint
    ann = ann
    bob = bob
    Nodes <- MCNodes
    Slice <- MCSlice
    Owners <- MCOwners
    Operations <- Conflicting
    Signature <- MCSignature
    Nil = Nil
    BalanceRange = 16
    SequenceRange = 8
    MaxChunkSize = 3
    QueueLimit = 2
    Funds <- MCFunds
    MaxRestarts = 0
SPECIFICATION Spec
INVARIANT NeverFails
CHECK_DEADLOCK FALSE
