---------------------------- MODULE MCQuorumSearch ----------------------------
(***************************************************************************)
(* QuorumSearch in a network of a clique and a tail: each of the first     *)
(* three nodes needs one of the other two, and each later node needs the   *)
(* one before it, so that the nodes of a broken chain are dropped one pass *)
(* after the other.                                                        *)
(***************************************************************************)
EXTENDS QuorumSearch

CONSTANTS Last      \* nodes 1..Last

MCNodes == 1..Last

Clique == 1..3

MCSlice ==
    [n \in MCNodes |->
        IF n \in Clique
        THEN [Members |-> Clique, Threshold |-> 2]
        ELSE [Members |-> {n - 1, n}, Threshold |-> 2]]

===============================================================================
