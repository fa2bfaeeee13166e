CONSTANTS
    n1 = n1
    n2 = n2
    n3 = n3
    Nodes <- MCNodes
    Slice <- MCSlice
    Values = {v1, v2}
    Nil = Nil
    MaxSlot = 2
    MaxRestarts = 1
SPECIFICATION FairSpec
INVARIANTS
    ChainIsSaved
    ChunkAvailable
PROPERTIES
    ImplementsLog
    AdvancesOrWaits
