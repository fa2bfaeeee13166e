CONSTANTS
    n1 = n1
    n2 = n2
    n3 = n3
    a = a
    b = b
    Nodes <- MCNodes
    Slice <- MCSlice
    Statements = {a, b}
    Against <- MCAgainst
SPECIFICATION Spec
SYMMETRY Symmetry
INVARIANTS
    AcceptedHasVotingQuorum
    ConfirmedHasAcceptingQuorum
    AcceptedConsistent
