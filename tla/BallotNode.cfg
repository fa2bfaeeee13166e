CONSTANTS
    me = me
    peer = peer
    Nodes <- MCNodes
    Slice <- MCSlice
    Values = {v1, v2}
    Nil = Nil
    StaleLimit = 1
    MaxNumber = 2
    Numbers <- MCNumbers
    Incoming <- MCIncoming
SPECIFICATION NodeSpec
SYMMETRY Symmetry
INVARIANT NodeInv
PROPERTY PromisesKept
