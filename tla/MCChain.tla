-------------------------------- MODULE MCChain --------------------------------
(***************************************************************************)
(* An instance of Chain: two nodes are in every quorum, and the others     *)
(* follow them.  Any two quorums share two nodes, one more than may start  *)
(* again within a slot.                                                    *)
(***************************************************************************)
EXTENDS Chain

CONSTANTS n1, n2, n3

MCNodes == {n1, n2, n3}

MCSlice ==
    [n \in MCNodes |-> [Members |-> IF n = n3 THEN {n1, n2} ELSE MCNodes, Threshold |-> 2]]

===============================================================================
