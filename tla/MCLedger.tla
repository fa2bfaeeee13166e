------------------------------- MODULE MCLedger -------------------------------
(***************************************************************************)
(* Instances of Ledger: a local network of two nodes, which need each      *)
(* other.                                                                  *)
(***************************************************************************)
EXTENDS Ledger, NetworkConfig, TLC

CONSTANTS n1, n2, mint, ann, bob

MCNodes == {n1, n2}

MCSlice == ConfigSlice(LocalhostThreshold(Cardinality(MCNodes)))

MCOwners == {mint, ann, bob}

MCFunds == mint :> 5 @@ ann :> 2 @@ bob :> 0

Send(signer, sequence, to, amount, fee) ==
    [Signer |-> signer, Sequence |-> sequence, To |-> to, Amount |-> amount, Fee |-> fee]

\* One operation for each signer and sequence number: bob can pay only with what
\* mint has sent.
Separate ==
    {Send(mint, 1, bob, 2, 1), Send(mint, 2, ann, 1, 0), Send(ann, 1, mint, 1, 0),
     Send(bob, 1, ann, 1, 1)}

\* mint signs two operations with the same sequence number.
Conflicting == {Send(mint, 1, bob, 2, 1), Send(mint, 1, ann, 1, 0)}

\* The hypotheses of the proofs are not contradictory.
ASSUME SeparateIsOrderly ==
    Operations = Separate =>
        ToOthers /\ Counted /\ CostsFit /\ MoneyFits /\ CostSomething

\* mint's signatures are the smallest.
MCSignature ==
    LET rank == mint :> 0 @@ ann :> 10 @@ bob :> 20
    IN [op \in Operations |-> rank[op.Signer] + op.Amount]

===============================================================================
