----------------------------- MODULE QuorumSlices -----------------------------
(***************************************************************************)
(* Quorum slices (consensus/quorum.go).                                    *)
(*                                                                         *)
(* Every node has a k-of-n slice: a set of members and a threshold.  A     *)
(* message carries the slice of its sender, which is constant, so          *)
(* Slice[n] is what QuorumFinder.QuorumSlice(n) returns once a message of  *)
(* n is known.                                                             *)
(***************************************************************************)
EXTENDS Integers, FiniteSets

CONSTANTS
    Nodes,      \* the nodes of the network
    Slice       \* the QuorumSlice of each node

QuorumSlice == [Members : SUBSET Nodes, Threshold : Nat]

ASSUME SliceAssumption ==
    /\ IsFiniteSet(Nodes)
    /\ Slice \in [Nodes -> QuorumSlice]

(***************************************************************************)
(* The count is only compared with t after it has been incremented, so     *)
(* atLeast is false when no member is present, whatever t is.              *)
(***************************************************************************)
atLeast(qs, nodes, t) ==
    LET count == Cardinality(qs.Members \cap nodes) IN count > 0 /\ count >= t

BlockedBy(qs, nodes) ==
    atLeast(qs, nodes, Cardinality(qs.Members) - qs.Threshold + 1)

\* Variant: one member too few is enough.
SatisfiedWithOneLess(qs, nodes) == atLeast(qs, nodes, qs.Threshold - 1)

SatisfiedWith(qs, nodes) == atLeast(qs, nodes, qs.Threshold)

(***************************************************************************)
(* MeetsQuorum(us, nodes): some of the nodes are a quorum that includes    *)
(* us, that is, a set that satisfies the slice of each of its members.     *)
(* The code drops nodes until nothing changes; module QuorumSearch has its *)
(* passes, and ChainProofs the proof that they compute this.               *)
(* Callers build "nodes" from themselves and from the senders of stored    *)
(* messages, so the slice of every node in it is known.                    *)
(***************************************************************************)
SelfSufficient(Q) == \A n \in Q : SatisfiedWith(Slice[n], Q)

MeetsQuorum(us, nodes) ==
    /\ us \in nodes
    /\ \E others \in SUBSET (nodes \ {us}) : SelfSufficient(others \cup {us})

===============================================================================
