----------------------------- MODULE MCNomination -----------------------------
(***************************************************************************)
(* Instances of Nomination in a network of three nodes.                    *)
(***************************************************************************)
EXTENDS Nomination, TLC

CONSTANTS n1, n2, n3

MCNodes == {n1, n2, n3}

\* The third node follows the two others, each of which blocks it.
FollowerSlice ==
    [n \in MCNodes |-> [Members |-> IF n = n3 THEN {n1, n2} ELSE MCNodes, Threshold |-> 2]]

\* The order of SeedSort.
MCPriority == n1 :> 0 @@ n2 :> 1 @@ n3 :> 2

\* No chunk is there when the block starts.
NothingFirst == [n \in MCNodes |-> {}]

\* The same, except that the third node has every chunk.
NothingAtCore == [n \in MCNodes |-> IF n = n3 THEN Values ELSE {}]

\* The third node has no operations: it only hears of chunks.
MCOwn == [n \in MCNodes |-> IF n = n3 THEN {} ELSE Values]

Symmetry == Permutations(Values)

===============================================================================
