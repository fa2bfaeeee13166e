CONSTANTS
    Last = 6
    Nodes <- MCNodes
    Slice <- MCSlice
SPECIFICATION FairSearchSpec
INVARIANT FindsQuorum
PROPERTY Returns
\* A call that has returned takes no further step.
CHECK_DEADLOCK FALSE
