CONSTANTS
    Nodes = {n1, n2}
    Threshold = 2
    Slice <- UniformSlice
    Values = {v1, v2}
    Nil = Nil
    StaleLimit = 1
    MaxBallot = 4
    Backlog = 2
    MaxRestarts = 1
SPECIFICATION FairSpec
INVARIANT TypeOK
INVARIANT Agreement
PROPERTY Converges
CHECK_DEADLOCK FALSE
