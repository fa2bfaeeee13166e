------------------------------ MODULE MCFederated ------------------------------
(***************************************************************************)
(* Three nodes that vote on two contradictory statements.  The third       *)
(* follows the two others, each of which blocks it.  Any two quorums       *)
(* intersect.                                                              *)
(***************************************************************************)
EXTENDS FederatedVoting, TLC

CONSTANTS n1, n2, n3, a, b

MCNodes == {n1, n2, n3}

MCSlice ==
    [n \in MCNodes |-> [Members |-> IF n = n3 THEN {n1, n2} ELSE MCNodes, Threshold |-> 2]]

MCAgainst == (a :> {b}) @@ (b :> {a})

Symmetry == Permutations({n1, n2}) \cup Permutations({a, b})

===============================================================================
