CONSTANTS
    Nodes = {n1, n2, n3}
    Threshold = 2
    Slice <- UniformSlice
    Values = {v1, v2}
    Nil = Nil
    StaleLimit = 1
    MaxBallot = 1
    Backlog = 1
    MaxRestarts = 1
SPECIFICATION Spec
SYMMETRY Symmetry
INVARIANT Agreement
CHECK_DEADLOCK FALSE
