CONSTANTS
    n1 = n1
    n2 = n2
    n3 = n3
    Nodes <- MCNodes
    Slice <- FollowerSlice
    Priority <- MCPriority
    Values = {v1, v2}
    Nil = Nil
    Backlog = 2
    ValidFirst <- NothingFirst
    Own <- MCOwn
SPECIFICATION Spec
SYMMETRY Symmetry
INVARIANTS
    TypeOK
    ListsHaveNoDupes
    AcceptedWasValidated
PROPERTY
    KnowledgeGrows
