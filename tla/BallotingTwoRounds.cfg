CONSTANTS
    Nodes = {n1, n2, n3}
    Threshold = 2
    Slice <- UniformSlice
    Values = {v1, v2}
    Nil = Nil
    StaleLimit = 1
    MaxBallot = 2
    Backlog = 1
    MaxRestarts = 0
SPECIFICATION Spec
SYMMETRY Symmetry
INVARIANT AssertionsHold
INVARIANT HandleReturns
INVARIANT AcceptedCommitsAgree
INVARIANT CatchesUp
PROPERTY MessagesIncrease
CHECK_DEADLOCK FALSE
