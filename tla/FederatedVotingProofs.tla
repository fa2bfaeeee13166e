------------------------- MODULE FederatedVotingProofs -------------------------
(***************************************************************************)
(* Federated voting is correct for any nodes, slices and statements.  Its  *)
(* agreement is for slices whose quorums intersect; the slices that the    *)
(* repository configures are among them.                                   *)
(***************************************************************************)
EXTENDS FederatedVoting, NetworkConfig, FiniteSetTheorems, TLAPS

-------------------------------------------------------------------------------
(***************************************************************************)
(* Quorums and blocking sets.                                              *)
(***************************************************************************)

\* A set that contains a quorum of us contains one still when it grows.
LEMMA QuorumMonotone ==
    ASSUME NEW us, NEW S, NEW T, S \subseteq T, MeetsQuorum(us, S)
    PROVE  MeetsQuorum(us, T)
  BY DEF MeetsQuorum

\* A set that blocks a slice has a node in it, whatever the threshold: atLeast
\* does not hold of an empty count.
LEMMA BlockingSetNonempty ==
    ASSUME NEW n \in Nodes, NEW S, BlockedBy(Slice[n], S)
    PROVE  S # {}
<1>1. SUFFICES ASSUME S = {} PROVE FALSE
  OBVIOUS
<1>2. Slice[n].Members \cap S = {}
  BY <1>1
<1>3. Cardinality(Slice[n].Members \cap S) = 0
  BY <1>2, FS_EmptySet
<1>. QED
  BY <1>3 DEF BlockedBy, atLeast

\* A quorum of us is a self-sufficient set that is not empty.
LEMMA QuorumIsSelfSufficient ==
    ASSUME NEW us, NEW S, MeetsQuorum(us, S)
    PROVE  \E Q \in SUBSET S : Q # {} /\ SelfSufficient(Q)
<1>1. PICK others \in SUBSET (S \ {us}) : SelfSufficient(others \cup {us})
  BY DEF MeetsQuorum
<1>2. us \in S
  BY DEF MeetsQuorum
<1>. QED
  BY <1>1, <1>2

-------------------------------------------------------------------------------
(***************************************************************************)
(* A step of node n, in the form that the proofs use.                      *)
(***************************************************************************)
Moves(n) ==
    /\ voted' \in [Nodes -> SUBSET Statements]
    /\ accepted' \in [Nodes -> SUBSET Statements]
    /\ confirmed' \in [Nodes -> SUBSET Statements]
    /\ \A k \in Nodes : /\ voted[k] \subseteq voted'[k]
                        /\ accepted[k] \subseteq accepted'[k]
                        /\ k # n => /\ voted'[k] = voted[k]
                                    /\ accepted'[k] = accepted[k]
                                    /\ confirmed'[k] = confirmed[k]
    /\ \A v, w \in voted'[n] : w \notin Against[v]
    /\ \A v \in accepted'[n] \ accepted[n] :
         CanAccept(n, heard'[n], voted'[n], accepted[n], v)
    /\ \A v \in confirmed'[n] \ confirmed[n] :
         CanConfirm(n, heard'[n], voted'[n], accepted'[n], v)

\* Responding to what was heard is such a move.
LEMMA RespondMoves ==
    ASSUME TypeOK, NEW n \in Nodes, Respond(n)
    PROVE  Moves(n)
<1>1. PICK V \in SUBSET (Statements \ voted[n]) :
         MayVote(n, V) /\ voted' = [voted EXCEPT ![n] = @ \cup V]
  BY DEF Respond
<1>2. PICK A \in SUBSET {v \in Statements \ accepted[n] :
                          CanAccept(n, heard'[n], voted'[n], accepted[n], v)} :
         accepted' = [accepted EXCEPT ![n] = @ \cup A]
  BY DEF Respond
<1>3. PICK C \in SUBSET {v \in Statements \ confirmed[n] :
                          CanConfirm(n, heard'[n], voted'[n], accepted'[n], v)} :
         confirmed' = [confirmed EXCEPT ![n] = @ \cup C]
  BY DEF Respond
<1>4. /\ voted' \in [Nodes -> SUBSET Statements]
      /\ voted'[n] = voted[n] \cup V
      /\ \A k \in Nodes : k # n => voted'[k] = voted[k]
  BY <1>1 DEF TypeOK
<1>5. /\ accepted' \in [Nodes -> SUBSET Statements]
      /\ accepted'[n] = accepted[n] \cup A
      /\ \A k \in Nodes : k # n => accepted'[k] = accepted[k]
  BY <1>2 DEF TypeOK
<1>6. /\ confirmed' \in [Nodes -> SUBSET Statements]
      /\ confirmed'[n] = confirmed[n] \cup C
      /\ \A k \in Nodes : k # n => confirmed'[k] = confirmed[k]
  BY <1>3 DEF TypeOK
<1>7. \A v, w \in voted'[n] : w \notin Against[v]
  BY <1>1, <1>4 DEF MayVote
<1>8. \A v \in accepted'[n] \ accepted[n] :
        CanAccept(n, heard'[n], voted'[n], accepted[n], v)
  BY <1>2, <1>5
<1>9. \A v \in confirmed'[n] \ confirmed[n] :
        CanConfirm(n, heard'[n], voted'[n], accepted'[n], v)
  BY <1>3, <1>6
<1>10. \A k \in Nodes : /\ voted[k] \subseteq voted'[k]
                        /\ accepted[k] \subseteq accepted'[k]
                        /\ k # n => /\ voted'[k] = voted[k]
                                    /\ accepted'[k] = accepted[k]
                                    /\ confirmed'[k] = confirmed[k]
  BY <1>4, <1>5, <1>6
<1>. QED
  BY <1>4, <1>5, <1>6, <1>7, <1>8, <1>9, <1>10 DEF Moves

\* What n holds after the step is true of the peers before it.
HeardBefore(n) ==
    /\ heard' \in [Nodes -> [Nodes -> Said]]
    /\ \A k \in Nodes : /\ heard'[n][k].voted \subseteq voted[k]
                        /\ heard'[n][k].accepted \subseteq accepted[k]
    /\ \A m \in Nodes \ {n} : heard'[m] = heard[m]

\* A message brings what was true of its sender.
LEMMA ProcessHears ==
    ASSUME TypeOK, HeardIsTrue, NEW n \in Nodes, NEW k \in Nodes, Process(n, k)
    PROVE  HeardBefore(n)
<1>1. PICK V \in SUBSET voted[k], A \in SUBSET accepted[k] :
         heard' = [heard EXCEPT ![n][k] = [voted |-> V, accepted |-> A]]
  BY DEF Process
<1>2. PICK m : m = [voted |-> V, accepted |-> A]
  OBVIOUS
<1>3. /\ m \in Said
      /\ m.voted = V
      /\ m.accepted = A
  BY <1>2 DEF Said, TypeOK
<1>4. heard' = [heard EXCEPT ![n][k] = m]
  BY <1>1, <1>2
<1>5. /\ heard' \in [Nodes -> [Nodes -> Said]]
      /\ heard'[n][k] = m
      /\ \A j \in Nodes : j # k => heard'[n][j] = heard[n][j]
      /\ \A j \in Nodes \ {n} : heard'[j] = heard[j]
  BY <1>3, <1>4 DEF TypeOK
<1>6. \A j \in Nodes : /\ heard'[n][j].voted \subseteq voted[j]
                       /\ heard'[n][j].accepted \subseteq accepted[j]
  BY <1>1, <1>3, <1>5 DEF HeardIsTrue
<1>. QED
  BY <1>5, <1>6 DEF HeardBefore

\* Acting without a message hears nothing new.
LEMMA ActHears ==
    ASSUME TypeOK, HeardIsTrue, NEW n \in Nodes, Act(n)
    PROVE  HeardBefore(n)
  BY DEF Act, TypeOK, HeardIsTrue, HeardBefore

-------------------------------------------------------------------------------
(***************************************************************************)
(* The invariant is inductive.  A statement that n accepts through a       *)
(* quorum either had been accepted by a member, and then a quorum of       *)
(* voters was already behind it, or all the members have voted for it.     *)
(***************************************************************************)
LEMMA AcceptKeeps ==
    ASSUME VotingInv, NEW n \in Nodes, Moves(n), HeardBefore(n)
    PROVE  AcceptedHasVotingQuorum'
<1>1. SUFFICES ASSUME NEW m \in Nodes, NEW v \in accepted'[m]
               PROVE  \E k \in Nodes : MeetsQuorum(k, Voters(v)')
  BY DEF AcceptedHasVotingQuorum
<1>2. Voters(v) \subseteq Voters(v)'
  BY DEF Voters, Moves
<1>3. ASSUME NEW j \in Nodes, v \in accepted[j]
      PROVE  \E k \in Nodes : MeetsQuorum(k, Voters(v)')
  <2>1. PICK k \in Nodes : MeetsQuorum(k, Voters(v))
    BY <1>3 DEF VotingInv, AcceptedHasVotingQuorum
  <2>. QED
    BY <2>1, <1>2, QuorumMonotone
<1>4. CASE v \in accepted[m]
  BY <1>3, <1>4
<1>5. CASE v \notin accepted[m]
  <2>1. m = n
    BY <1>5 DEF Moves
  <2>2. CanAccept(n, heard'[n], voted'[n], accepted[n], v)
    BY <1>5, <2>1 DEF Moves
  <2>3. CASE \E j \in Nodes : v \in heard'[n][j].accepted
    BY <1>3, <2>3 DEF HeardBefore
  <2>4. CASE \A j \in Nodes : v \notin heard'[n][j].accepted
    <3>1. Accepting(n, heard'[n], accepted[n], v) = {}
      BY <1>5, <2>1, <2>4 DEF Accepting
    <3>2. MeetsQuorum(n, InFavour(n, heard'[n], voted'[n], v))
      BY <2>2, <3>1, BlockingSetNonempty DEF CanAccept
    <3>3. InFavour(n, heard'[n], voted'[n], v) \subseteq Voters(v)'
      BY <2>4 DEF InFavour, Voters, HeardBefore, Moves
    <3>. QED
      BY <3>2, <3>3, QuorumMonotone
  <2>. QED
    BY <2>3, <2>4
<1>. QED
  BY <1>4, <1>5

\* An accepting quorum stands behind what a move confirms.
LEMMA ConfirmKeeps ==
    ASSUME VotingInv, NEW n \in Nodes, Moves(n), HeardBefore(n)
    PROVE  ConfirmedHasAcceptingQuorum'
<1>1. SUFFICES ASSUME NEW m \in Nodes, NEW v \in confirmed'[m]
               PROVE  MeetsQuorum(m, Accepters(v)')
  BY DEF ConfirmedHasAcceptingQuorum
<1>2. Accepters(v) \subseteq Accepters(v)'
  BY DEF Accepters, Moves
<1>3. CASE v \in confirmed[m]
  BY <1>2, <1>3, QuorumMonotone DEF VotingInv, ConfirmedHasAcceptingQuorum
<1>4. CASE v \notin confirmed[m]
  <2>1. m = n
    BY <1>4 DEF Moves
  <2>2. MeetsQuorum(n, Accepting(n, heard'[n], accepted'[n], v))
    BY <1>4, <2>1 DEF Moves, CanConfirm
  <2>3. Accepting(n, heard'[n], accepted'[n], v) \subseteq Accepters(v)'
    BY DEF Accepting, Accepters, HeardBefore, Moves
  <2>. QED
    BY <2>1, <2>2, <2>3, QuorumMonotone
<1>. QED
  BY <1>3, <1>4

\* A move keeps the invariant.
LEMMA MoveKeeps ==
    ASSUME VotingInv, NEW n \in Nodes, Moves(n), HeardBefore(n)
    PROVE  VotingInv'
<1>1. TypeOK'
  BY DEF TypeOK, Moves, HeardBefore
<1>2. HeardIsTrue'
  BY DEF VotingInv, HeardIsTrue, Moves, HeardBefore
<1>3. VotesConsistent'
  BY DEF VotingInv, VotesConsistent, Moves
<1>. QED
  BY <1>1, <1>2, <1>3, AcceptKeeps, ConfirmKeeps DEF VotingInv

\* So does a step that changes nothing.
LEMMA StutterKeeps ==
    ASSUME VotingInv, UNCHANGED vars
    PROVE  VotingInv'
  BY DEF VotingInv, vars, TypeOK, HeardIsTrue, VotesConsistent, AcceptedHasVotingQuorum,
         ConfirmedHasAcceptingQuorum, Voters, Accepters

\* Nothing is voted for, accepted or confirmed at first.
LEMMA InitVoting == Init => VotingInv
<1>1. SUFFICES ASSUME Init PROVE VotingInv
  OBVIOUS
<1>2. Nothing \in Said /\ Nothing.voted = {} /\ Nothing.accepted = {}
  BY DEF Nothing, Said
<1>3. TypeOK /\ HeardIsTrue
  BY <1>1, <1>2 DEF Init, TypeOK, HeardIsTrue
<1>4. AcceptedHasVotingQuorum /\ ConfirmedHasAcceptingQuorum
  BY <1>1 DEF Init, AcceptedHasVotingQuorum, ConfirmedHasAcceptingQuorum
<1>. QED
  BY <1>1, <1>3, <1>4 DEF Init, VotingInv

\* The inductive invariant of federated voting: what nodes hold of each other is
\* true, votes do not contradict each other, and every accepted and every
\* confirmed statement has its quorum (the rule of MaybeAdvance).
THEOREM VotingInvariance == Spec => []VotingInv
<1>1. VotingInv /\ [Next]_vars => VotingInv'
  <2>1. SUFFICES ASSUME VotingInv, [Next]_vars PROVE VotingInv'
    OBVIOUS
  <2>2. CASE UNCHANGED vars
    BY <2>1, <2>2, StutterKeeps
  <2>3. ASSUME NEW n \in Nodes, Act(n) PROVE VotingInv'
    BY <2>1, <2>3, ActHears, RespondMoves, MoveKeeps DEF Act, VotingInv
  <2>4. ASSUME NEW n \in Nodes, NEW k \in Nodes, Process(n, k) PROVE VotingInv'
    BY <2>1, <2>4, ProcessHears, RespondMoves, MoveKeeps DEF Process, VotingInv
  <2>. QED
    BY <2>1, <2>2, <2>3, <2>4 DEF Next
<1>. QED
  BY <1>1, InitVoting, PTL DEF Spec

\* No statement is accepted on the word of others alone: a quorum has voted for
\* whatever a node accepts, through a quorum or through a blocking set.
THEOREM AcceptanceIsVoted == Spec => []AcceptedHasVotingQuorum
<1>1. VotingInv => AcceptedHasVotingQuorum
  BY DEF VotingInv
<1>. QED
  BY <1>1, VotingInvariance, PTL

\* What a node confirms, a quorum that it belongs to has accepted.
THEOREM ConfirmationIsAccepted == Spec => []ConfirmedHasAcceptingQuorum
<1>1. VotingInv => ConfirmedHasAcceptingQuorum
  BY DEF VotingInv
<1>. QED
  BY <1>1, VotingInvariance, PTL

-------------------------------------------------------------------------------
\* The two quorums of voters behind two accepted statements have a member in
\* common, and that member's votes do not contradict each other.
LEMMA InvConsistent == VotingInv => AcceptedConsistent
<1>1. SUFFICES ASSUME VotingInv, QuorumsIntersect,
                      NEW n \in Nodes, NEW m \in Nodes,
                      NEW v \in accepted[n], NEW w \in accepted[m]
               PROVE  w \notin Against[v]
  BY DEF AcceptedConsistent
<1>2. PICK i \in Nodes : MeetsQuorum(i, Voters(v))
  BY <1>1 DEF VotingInv, AcceptedHasVotingQuorum
<1>3. PICK j \in Nodes : MeetsQuorum(j, Voters(w))
  BY <1>1 DEF VotingInv, AcceptedHasVotingQuorum
<1>4. PICK P \in SUBSET Voters(v) : P # {} /\ SelfSufficient(P)
  BY <1>2, QuorumIsSelfSufficient
<1>5. PICK Q \in SUBSET Voters(w) : Q # {} /\ SelfSufficient(Q)
  BY <1>3, QuorumIsSelfSufficient
<1>6. PICK k : k \in P /\ k \in Q
  <2>1. P \in (SUBSET Nodes) \ {{}} /\ Q \in (SUBSET Nodes) \ {{}}
    BY <1>4, <1>5 DEF Voters
  <2>2. P \cap Q # {}
    BY <1>1, <1>4, <1>5, <2>1 DEF QuorumsIntersect
  <2>. QED
    BY <2>2
<1>7. k \in Nodes /\ v \in voted[k] /\ w \in voted[k]
  BY <1>6 DEF Voters
<1>. QED
  BY <1>1, <1>7 DEF VotingInv, VotesConsistent

\* Where any two quorums intersect, no two nodes accept contradictory statements.
THEOREM AcceptancesAgree == Spec => []AcceptedConsistent
  BY VotingInvariance, InvConsistent, PTL

-------------------------------------------------------------------------------
(***************************************************************************)
(* What the slices of NewLocalhostNetwork give a network of any size: the  *)
(* quorums of such a network intersect.                                    *)
(***************************************************************************)

\* NewLocalhostNetwork chose the threshold of this network.
LocalhostNetwork ==
    /\ Nodes # {}
    /\ Slice = ConfigSlice(LocalhostThreshold(Cardinality(Nodes)))

\* The threshold is the least number above two thirds of num.
LEMMA AboveTwoThirds ==
    ASSUME NEW num \in Nat
    PROVE  /\ LocalhostThreshold(num) \in Nat
           /\ 3 * LocalhostThreshold(num) > 2 * num
           /\ 3 * LocalhostThreshold(num) <= 2 * num + 3
  BY DEF LocalhostThreshold, Ceil

(***************************************************************************)
(* The rounding up of NewLocalhostNetwork and the rounding down of         *)
(* MakeTestQuorumSlice give the same threshold, so the consensus tests run *)
(* with the slices of the local networks.  Of 3k+1 servers 2k+1 are        *)
(* needed, as the comment in NewLocalhostNetwork says.                     *)
(***************************************************************************)
THEOREM ThresholdsAgree ==
    /\ \A num \in Nat : LocalhostThreshold(num) = TestThreshold(num)
    /\ \A k \in Nat : LocalhostThreshold(3 * k + 1) = 2 * k + 1
<1>1. ASSUME NEW num \in Nat PROVE LocalhostThreshold(num) = TestThreshold(num)
  BY DEF LocalhostThreshold, TestThreshold, Ceil
<1>2. ASSUME NEW k \in Nat PROVE LocalhostThreshold(3 * k + 1) = 2 * k + 1
  BY DEF LocalhostThreshold, Ceil
<1>. QED
  BY <1>1, <1>2

-------------------------------------------------------------------------------
\* Finite sets of nodes have a size.
LEMMA NodesCount ==
    ASSUME NEW S \in SUBSET Nodes
    PROVE  /\ IsFiniteSet(S) /\ Cardinality(S) \in Nat
           /\ Cardinality(S) <= Cardinality(Nodes)
           /\ Cardinality(Nodes) \in Nat
<1>1. IsFiniteSet(S) /\ Cardinality(S) <= Cardinality(Nodes)
  BY SliceAssumption, FS_Subset
<1>. QED
  BY <1>1, SliceAssumption, FS_CardinalityType

\* A nonempty set is a quorum of a localhost network when it reaches the threshold.
LEMMA QuorumSize ==
    ASSUME LocalhostNetwork, NEW Q \in SUBSET Nodes, Q # {}
    PROVE  SelfSufficient(Q) <=> Cardinality(Q) >= LocalhostThreshold(Cardinality(Nodes))
<1> DEFINE t == LocalhostThreshold(Cardinality(Nodes))
<1>1. Cardinality(Q) \in Nat /\ t \in Nat /\ Cardinality(Q) # 0
  BY NodesCount, AboveTwoThirds, FS_EmptySet
<1>2. ASSUME NEW n \in Q PROVE SatisfiedWith(Slice[n], Q) <=> Cardinality(Q) >= t
  <2>1. Slice[n].Members = Nodes /\ Slice[n].Threshold = t
    BY DEF LocalhostNetwork, ConfigSlice
  <2>2. Nodes \cap Q = Q
    OBVIOUS
  <2> HIDE DEF t
  <2>. QED
    BY <1>1, <2>1, <2>2 DEF SatisfiedWith, atLeast
<1>. QED
  BY <1>2 DEF SelfSufficient

(***************************************************************************)
(* In a localhost network more than a third of all nodes is in both of any *)
(* two quorums: of 3k+1 nodes, k+1.  So as long as no more than k of them  *)
(* forget what they said in a restart, two quorums still have a node in    *)
(* common that remembers.                                                  *)
(***************************************************************************)
THEOREM QuorumsShareAThird ==
    ASSUME LocalhostNetwork,
           NEW P \in SUBSET Nodes, P # {}, SelfSufficient(P),
           NEW Q \in SUBSET Nodes, Q # {}, SelfSufficient(Q)
    PROVE  3 * Cardinality(P \cap Q) > Cardinality(Nodes)
<1> DEFINE t == LocalhostThreshold(Cardinality(Nodes))
<1>1. Cardinality(P) >= t /\ Cardinality(Q) >= t
  BY QuorumSize
<1>2. /\ Cardinality(P) \in Nat /\ Cardinality(Q) \in Nat /\ Cardinality(Nodes) \in Nat
      /\ IsFiniteSet(P) /\ IsFiniteSet(Q)
  BY NodesCount
<1>3. Cardinality(P \cap Q) \in Nat /\ Cardinality(P \cup Q) <= Cardinality(Nodes)
  <2>1. P \cap Q \in SUBSET Nodes /\ P \cup Q \in SUBSET Nodes
    OBVIOUS
  <2>. QED
    BY <2>1, NodesCount
<1>4. Cardinality(P \cup Q) = Cardinality(P) + Cardinality(Q) - Cardinality(P \cap Q)
  BY <1>2, FS_Union
<1>5. t \in Nat /\ 3 * t > 2 * Cardinality(Nodes)
  BY <1>2, AboveTwoThirds
<1> HIDE DEF t
<1>. QED
  BY <1>1, <1>2, <1>3, <1>4, <1>5

(***************************************************************************)
(* A localhost network goes on without any nodes that are fewer than a     *)
(* third of it: the others are a quorum of each of them.                   *)
(***************************************************************************)
THEOREM QuorumWithoutAThird ==
    ASSUME LocalhostNetwork,
           NEW Down \in SUBSET Nodes, 3 * Cardinality(Down) < Cardinality(Nodes),
           NEW us \in Nodes \ Down
    PROVE  MeetsQuorum(us, Nodes \ Down)
<1> DEFINE t == LocalhostThreshold(Cardinality(Nodes))
           Up == Nodes \ Down
<1>1. /\ Cardinality(Down) \in Nat /\ Cardinality(Nodes) \in Nat
  BY NodesCount
<1>2. Cardinality(Up) = Cardinality(Nodes) - Cardinality(Down)
  <2>1. Nodes \cap Down = Down
    OBVIOUS
  <2>. QED
    BY <2>1, SliceAssumption, FS_Difference
<1>3. t \in Nat /\ 3 * t <= 2 * Cardinality(Nodes) + 3
  BY <1>1, AboveTwoThirds
<1>4. Cardinality(Up) >= t
  <2> HIDE DEF t, Up
  <2>. QED
    BY <1>1, <1>2, <1>3
<1>5. SelfSufficient(Up)
  BY <1>4, QuorumSize
<1>6. Up = (Up \ {us}) \cup {us}
  OBVIOUS
<1>. QED
  BY <1>5, <1>6 DEF MeetsQuorum

NoContradictions ==
    \A n, m \in Nodes : \A v \in accepted[n], w \in accepted[m] : w \notin Against[v]

(***************************************************************************)
(* In a localhost network of any size no two nodes ever accept             *)
(* contradictory statements: the condition of AcceptedConsistent is met.   *)
(***************************************************************************)
THEOREM LocalhostNodesAgree ==
    ASSUME LocalhostNetwork
    PROVE  Spec => []NoContradictions
<1>1. QuorumsIntersect
  <2>1. SUFFICES ASSUME NEW P \in (SUBSET Nodes) \ {{}}, NEW Q \in (SUBSET Nodes) \ {{}},
                        SelfSufficient(P), SelfSufficient(Q)
                 PROVE  P \cap Q # {}
    BY DEF QuorumsIntersect
  <2>2. 3 * Cardinality(P \cap Q) > Cardinality(Nodes) /\ Cardinality(Nodes) \in Nat
    BY <2>1, QuorumsShareAThird, NodesCount
  <2>3. P \cap Q = {} => Cardinality(P \cap Q) = 0
    BY FS_EmptySet
  <2>. QED
    BY <2>2, <2>3
<1>2. AcceptedConsistent => NoContradictions
  BY <1>1 DEF AcceptedConsistent, NoContradictions
<1>. QED
  BY <1>2, AcceptancesAgree, PTL

===============================================================================
