---------------------------- MODULE FederatedVoting ----------------------------
(***************************************************************************)
(* What nomination and balloting promise: federated voting on statements.  *)
(* A node votes for statements that do not contradict each other, accepts  *)
(* what a quorum has voted for or accepted, or what a blocking set has     *)
(* accepted, and confirms what a quorum has accepted.                      *)
(*                                                                         *)
(* The rule is written twice in the code, in NominationState.MaybeAdvance  *)
(* and in the Maybe... methods of BallotState.  A node knows of a peer     *)
(* what one message said: some of the statements that the peer has voted   *)
(* for and accepted, not always all of them.                               *)
(***************************************************************************)
EXTENDS QuorumSlices

CONSTANTS
    Statements,
    Against     \* Against[v]: the statements that contradict v

ASSUME StatementsAssumption == Against \in [Statements -> SUBSET Statements]

VARIABLES
    voted,      \* the statements each node has voted for
    accepted,   \* the ones it has accepted
    confirmed,  \* the ones it has confirmed
    heard       \* heard[n][k]: the last message of k that n has processed

vars == <<voted, accepted, confirmed, heard>>

Said == [voted : SUBSET Statements, accepted : SUBSET Statements]

Nothing == [voted |-> {}, accepted |-> {}]

\* A node casts its first votes before it has heard of anyone.
VotesConsistent == \A n \in Nodes : \A v, w \in voted[n] : w \notin Against[v]

Init ==
    /\ voted \in [Nodes -> SUBSET Statements]
    /\ VotesConsistent
    /\ accepted = [n \in Nodes |-> {}]
    /\ confirmed = [n \in Nodes |-> {}]
    /\ heard = [n \in Nodes |-> [k \in Nodes |-> Nothing]]

-------------------------------------------------------------------------------
(***************************************************************************)
(* The views of node n, given what it has heard, h, and the statements V   *)
(* that it has voted for and A that it has accepted.                       *)
(***************************************************************************)
InFavour(n, h, V, v) ==
    {k \in Nodes : v \in h[k].voted \cup h[k].accepted} \cup {k \in {n} : v \in V}

Accepting(n, h, A, v) ==
    {k \in Nodes : v \in h[k].accepted} \cup {k \in {n} : v \in A}

\* Variant: the votes of a blocking set are enough.
CanAcceptVotes(n, h, V, A, v) ==
    \/ MeetsQuorum(n, InFavour(n, h, V, v))
    \/ BlockedBy(Slice[n], InFavour(n, h, V, v))

CanAccept(n, h, V, A, v) ==
    \/ MeetsQuorum(n, InFavour(n, h, V, v))
    \/ BlockedBy(Slice[n], Accepting(n, h, A, v))

\* Variant: the votes of a quorum are enough.
CanConfirmVotes(n, h, V, A, v) == MeetsQuorum(n, InFavour(n, h, V, v))

CanConfirm(n, h, V, A, v) == MeetsQuorum(n, Accepting(n, h, A, v))

\* What votes a node casts is up to the phase that uses the protocol, as long as
\* they do not contradict each other.
MayVote(n, V) == \A v, w \in voted[n] \cup V : w \notin Against[v]

\* The votes, then what can be accepted, then what can be confirmed.
Respond(n) ==
    /\ \E V \in SUBSET (Statements \ voted[n]) :
         MayVote(n, V) /\ voted' = [voted EXCEPT ![n] = @ \cup V]
    /\ \E A \in SUBSET {v \in Statements \ accepted[n] :
                        CanAccept(n, heard'[n], voted'[n], accepted[n], v)} :
         accepted' = [accepted EXCEPT ![n] = @ \cup A]
    /\ \E C \in SUBSET {v \in Statements \ confirmed[n] :
                        CanConfirm(n, heard'[n], voted'[n], accepted'[n], v)} :
         confirmed' = [confirmed EXCEPT ![n] = @ \cup C]

\* A message of k says some of what k has voted for and accepted.
Process(n, k) ==
    /\ k # n
    /\ \E V \in SUBSET voted[k], A \in SUBSET accepted[k] :
         heard' = [heard EXCEPT ![n][k] = [voted |-> V, accepted |-> A]]
    /\ Respond(n)

\* A node may also act without a message, on a timer or a new transaction.
Act(n) == UNCHANGED heard /\ Respond(n)

Next == \E n \in Nodes : Act(n) \/ \E k \in Nodes : Process(n, k)

Spec == Init /\ [][Next]_vars

-------------------------------------------------------------------------------
\* Statements, and messages made of them, are all that a node holds.
TypeOK ==
    /\ voted \in [Nodes -> SUBSET Statements]
    /\ accepted \in [Nodes -> SUBSET Statements]
    /\ confirmed \in [Nodes -> SUBSET Statements]
    /\ heard \in [Nodes -> [Nodes -> Said]]

\* What a node holds of a peer is still true of the peer: votes and acceptances
\* are never taken back.
HeardIsTrue ==
    \A n, k \in Nodes : /\ heard[n][k].voted \subseteq voted[k]
                        /\ heard[n][k].accepted \subseteq accepted[k]

Voters(v) == {k \in Nodes : v \in voted[k]}

Accepters(v) == {k \in Nodes : v \in accepted[k]}

(***************************************************************************)
(* No statement is accepted on the word of others alone.  However many     *)
(* nodes accepted v because a blocking set had, behind them stands a       *)
(* quorum whose members all voted for v (MaybeAdvance,                     *)
(* nomination_state.go:183-193).                                           *)
(***************************************************************************)
AcceptedHasVotingQuorum ==
    \A n \in Nodes : \A v \in accepted[n] : \E k \in Nodes : MeetsQuorum(k, Voters(v))

\* A statement that a node confirms is accepted by a quorum that the node is a
\* member of, whatever the node had heard of it (nomination_state.go:195-200).
ConfirmedHasAcceptingQuorum ==
    \A n \in Nodes : \A v \in confirmed[n] : MeetsQuorum(n, Accepters(v))

\* The inductive invariant.
VotingInv ==
    /\ TypeOK
    /\ HeardIsTrue
    /\ VotesConsistent
    /\ AcceptedHasVotingQuorum
    /\ ConfirmedHasAcceptingQuorum

\* Any two quorums have a member in common.
QuorumsIntersect ==
    \A P, Q \in (SUBSET Nodes) \ {{}} :
        SelfSufficient(P) /\ SelfSufficient(Q) => P \cap Q # {}

(***************************************************************************)
(* Where quorums intersect no two nodes accept contradictory statements,   *)
(* though no node looks at what the others accepted before it accepts.     *)
(***************************************************************************)
AcceptedConsistent ==
    QuorumsIntersect =>
        \A n, m \in Nodes : \A v \in accepted[n], w \in accepted[m] : w \notin Against[v]

===============================================================================
