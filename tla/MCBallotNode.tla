----------------------------- MODULE MCBallotNode -----------------------------
(***************************************************************************)
(* BallotNode for a node with one peer.  Both are needed for a quorum, and *)
(* the peer alone blocks the node.  The peer says anything it likes about  *)
(* prepared ballots and ranges of commits up to MaxNumber.                 *)
(***************************************************************************)
EXTENDS BallotNode, TLC

CONSTANTS peer, MaxNumber

MCNodes == {me, peer}

MCSlice == [n \in MCNodes |-> [Members |-> MCNodes, Threshold |-> 2]]

MCNumbers == 0..MaxNumber

SomeBallots == [n : 1..MaxNumber, x : Values]

\* p and p' of a message: both, p only, or none.
SomePrepared ==
    {<<p, q>> \in (SomeBallots \cup {NoBallot}) \X (SomeBallots \cup {NoBallot}) :
        q # NoBallot => p # NoBallot /\ q.n <= p.n /\ q.x # p.x}

SomeRanges == {r \in (0..MaxNumber) \X (0..MaxNumber) : r[1] <= r[2]}

\* The peer's own ballot is the highest one, for any value.
MCIncoming ==
    {[type |-> "Prepare", Bn |-> MaxNumber, Bx |-> x,
      Pn |-> pq[1].n, Px |-> pq[1].x, Ppn |-> pq[2].n, Ppx |-> pq[2].x,
      Cn |-> r[1], Hn |-> r[2]] :
        x \in Values, pq \in SomePrepared, r \in SomeRanges}
    \cup
    {[type |-> "Confirm", X |-> x, Pn |-> MaxNumber, Cn |-> r[1], Hn |-> r[2]] :
        x \in Values, r \in SomeRanges}
    \cup
    {[type |-> "Externalize", X |-> x, Cn |-> r[1], Hn |-> r[2]] :
        x \in Values, r \in SomeRanges}

Symmetry == Permutations(Values)

===============================================================================
