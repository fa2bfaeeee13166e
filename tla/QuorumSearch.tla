----------------------------- MODULE QuorumSearch -----------------------------
(***************************************************************************)
(* One call of MeetsQuorum (consensus/quorum.go), pass by pass, against    *)
(* the definition of MeetsQuorum that the other modules use.               *)
(***************************************************************************)
EXTENDS QuorumSlices

VARIABLES
    us,         \* f.PublicKey()
    start,      \* the nodes of the first call
    nodes,      \* the nodes of the current call
    result      \* "searching" until the calls return

searchVars == <<us, start, nodes, result>>

SearchInit ==
    /\ us \in Nodes
    /\ start \in SUBSET Nodes
    /\ nodes = start
    /\ result = "searching"

\* Variant: the slices are looked up in the nodes of the first call.
filteredFromStart == {n \in nodes : SatisfiedWith(Slice[n], start)}

filtered == {n \in nodes : SatisfiedWith(Slice[n], nodes)}

\* hasUs is false.
NotMet ==
    /\ result = "searching"
    /\ us \notin filtered
    /\ result' = "unmet"
    /\ UNCHANGED <<us, start, nodes>>

\* Nothing was filtered out.
Met ==
    /\ result = "searching"
    /\ us \in filtered
    /\ filtered = nodes
    /\ result' = "met"
    /\ UNCHANGED <<us, start, nodes>>

\* Variant: the recursive call gets the same nodes.
RecurseUnfiltered ==
    /\ result = "searching"
    /\ us \in filtered
    /\ filtered # nodes
    /\ nodes' = nodes
    /\ UNCHANGED <<us, start, result>>

Recurse ==
    /\ result = "searching"
    /\ us \in filtered
    /\ filtered # nodes
    /\ nodes' = filtered
    /\ UNCHANGED <<us, start, result>>

SearchNext == NotMet \/ Met \/ Recurse

SearchSpec == SearchInit /\ [][SearchNext]_searchVars

\* The call runs on.
FairSearchSpec == SearchSpec /\ WF_searchVars(SearchNext)

-------------------------------------------------------------------------------
SearchTypeOK ==
    /\ us \in Nodes
    /\ start \in SUBSET Nodes
    /\ nodes \in SUBSET start
    /\ result \in {"searching", "met", "unmet"}

\* MeetsQuorum answers whether some quorum of the given nodes includes us:
\* dropping nodes pass by pass neither loses such a quorum nor invents one.
FindsQuorum == result # "searching" => (result = "met" <=> MeetsQuorum(us, start))

\* A quorum that includes us meets every set that blocks us: what a blocking
\* set has accepted (the second way to accept in ballot_state.go) contradicts
\* nothing that a quorum of ours has voted for in its own name.
QuorumMeetsBlockingSets ==
    result = "met" =>
        \A B \in SUBSET Nodes : BlockedBy(Slice[us], B) => B \cap nodes # {}

\* The recursion ends: a set that is filtered again is smaller.
Returns == <>(result # "searching")

(***************************************************************************)
(* The inductive invariant: a quorum that includes us is never filtered.   *)
(***************************************************************************)
SearchInv ==
    /\ SearchTypeOK
    /\ \A Q \in SUBSET start : us \in Q /\ SelfSufficient(Q) => Q \subseteq nodes
    /\ result = "met" => us \in nodes /\ SelfSufficient(nodes)
    /\ result = "unmet" => us \notin filtered

===============================================================================
