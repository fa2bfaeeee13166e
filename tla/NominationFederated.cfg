CONSTANTS
    n1 = n1
    n2 = n2
    n3 = n3
    Nodes <- MCNodes
    Slice <- FollowerSlice
    Priority <- MCPriority
    Values = {v1, v2}
    Nil = Nil
    Backlog = 1
    ValidFirst <- NothingAtCore
    Own <- MCOwn
SPECIFICATION FairSpec
PROPERTIES
    IsFederatedVoting
    NominationConverges
