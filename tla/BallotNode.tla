------------------------------ MODULE BallotNode ------------------------------
(***************************************************************************)
(* One node's ballot state, one method call at a time.                     *)
(*                                                                         *)
(* BallotState.Handle, CheckIfStale and Block.OutgoingMessages are         *)
(* sequences of the calls below, for ballot numbers and values the         *)
(* messages mention.  Here the calls come in any order, for any number and *)
(* any value, and the peers may send anything: what is shown of these      *)
(* steps holds for every handler built from them, in every network.        *)
(***************************************************************************)
EXTENDS BallotState

CONSTANTS
    me,         \* the node
    Incoming,   \* the messages its peers may send
    Numbers     \* the ballot numbers considered

ASSUME NodeAssumption ==
    /\ me \in Nodes
    /\ Incoming \subseteq Messages
    /\ Numbers \subseteq Nat

VARIABLE state

NodeInit == state = NewBallotState(me)

-------------------------------------------------------------------------------
(***************************************************************************)
(* Handle stores a new message and counts a duplicate.  Block.Handle drops *)
(* the node's own messages.                                                *)
(***************************************************************************)
Hear(node, m) ==
    /\ node # me
    /\ ~IsDuplicate(state, node, m)
    /\ state' = Store(state, node, m)

HearAgain(node, cand) ==
    /\ node \in Heard(state)
    /\ state.b.n + 1 \in Numbers
    /\ state' = HandleDuplicate(state, node, cand)

AcceptPrepared(n, x) == n > 0 /\ state' = MaybeAcceptAsPrepared(state, n, x)

ConfirmPrepared(n, x) == n > 0 /\ state' = MaybeConfirmAsPrepared(state, n, x)

AcceptCommitted(n, x) == n > 0 /\ state' = MaybeAcceptAsCommitted(state, n, x)

ConfirmCommitted(n, x) == n > 0 /\ state' = MaybeConfirmAsCommitted(state, n, x)

\* From CheckForBlockedBallot, or from OutgoingMessages when there is no ballot.
NextBallot(cand) ==
    /\ state.b.n + 1 \in Numbers
    /\ state.b = NoBallot \/ Blocked(state)
    /\ state' = GoToNextBallot(state, cand)

Validate == state' = AssertValid(state)

Investigate(n, x) ==
    \/ AcceptPrepared(n, x)
    \/ ConfirmPrepared(n, x)
    \/ AcceptCommitted(n, x)
    \/ ConfirmCommitted(n, x)

NodeNext ==
    \/ \E node \in Nodes, m \in Incoming : Hear(node, m)
    \/ \E node \in Nodes, cand \in SlotValues : HearAgain(node, cand)
    \/ \E n \in Numbers, x \in Values : Investigate(n, x)
    \/ \E cand \in SlotValues : NextBallot(cand)
    \/ Validate

NodeSpec == NodeInit /\ [][NodeNext]_state

-------------------------------------------------------------------------------
(***************************************************************************)
(* The inductive invariant, of any ballot state.                           *)
(***************************************************************************)

\* The state has the type of the Go struct, and the node has no message of its
\* own stored: MeetsQuorum counts the node by its own state only.
WellTyped(s) == s \in BallotStates /\ s.M[s.publicKey] = Nil

\* p' is a lower ballot than p, for another value.
PreparedOrder(s) ==
    s.pPrime # NoBallot =>
        s.p # NoBallot /\ s.pPrime.n <= s.p.n /\ s.pPrime.x # s.p.x

\* There is a ballot whenever the code reads the value of b: no nil is
\* dereferenced in AcceptedAbort, MaybeConfirmAsPrepared or Message.
BallotKnown(s) == s.hn > 0 \/ s.phase # "Prepare" => s.b # NoBallot

\* Everything confirmed as prepared has been accepted: the highest confirmed
\* ballot is p, or both p and p' are at least as high.
ConfirmedWasAccepted(s) ==
    s.phase = "Prepare" /\ s.hn > 0 =>
        s.p.n >= s.hn /\ (s.z = s.p.x \/ s.pPrime.n >= s.hn)

\* A vote to commit is for the value that later ballots will have.
CommitVoteIsNext(s) == s.phase = "Prepare" /\ s.cn # 0 => s.z = s.b.x

\* The ballot number only grows in the Prepare phase.
LastIsLower(s) == s.phase = "Prepare" => s.last.n <= s.b.n

StateInv(s) ==
    /\ WellTyped(s)
    /\ ~s.fatal
    /\ ValidRange(s)
    /\ PreparedOrder(s)
    /\ BallotKnown(s)
    /\ ConfirmedWasAccepted(s)
    /\ CommitVoteIsNext(s)
    /\ CommitNotAborted(s)
    /\ LastIsLower(s)

(***************************************************************************)
(* What a call that leads from s to t keeps of what the node said.         *)
(***************************************************************************)

\* The ballot changes only for one with a higher number.
BallotRises(s, t) == s.b.n <= t.b.n /\ (s.b.n = t.b.n => s.b = t.b)

\* A vote to commit starts at the current ballot: never below a ballot the
\* node has had for another value.
CommitStartsHere(s, t) ==
    t.cn # 0 => t.cn = t.b.n \/ (t.cn = s.cn /\ t.b.x = s.b.x)

\* The value of a vote to commit stays, the top of its range only grows, and
\* it is given up only after the abort of the whole range has been accepted.
CommitKept(s, t) ==
    s.cn # 0 =>
        /\ t.b.x = s.b.x
        /\ s.hn <= t.hn
        /\ t.cn = s.cn \/ (t.cn = 0 /\ AcceptedAbort(t, s.hn, s.b.x))

\* An accepted abort stays accepted, although p and p' only have room for two
\* ballots.
AbortsKept(s, t) ==
    \A q \in {s.p, s.pPrime}, x \in Values :
        q # NoBallot /\ q.x # x => AcceptedAbort(t, q.n, x)

Keeps(s, t) ==
    /\ s.phase # "Prepare" => t.phase # "Prepare"
    /\ s.phase = "Prepare" /\ t.phase = "Prepare" =>
         /\ BallotRises(s, t)
         /\ CommitStartsHere(s, t)
         /\ CommitKept(s, t)
         /\ AbortsKept(s, t)

-------------------------------------------------------------------------------
\* No Logger.Fatal is reached: not "we are voting to commit but must confirm a
\* contradiction" in MaybeConfirmAsPrepared, nor "should have short circuited
\* already" in MaybeAcceptAsPrepared, nor any of AssertValid.
NeverFatal == ~state.fatal

\* The node's state satisfies the inductive invariant above: among others, it
\* is well typed, no Logger.Fatal was reached, a vote to commit is for a ballot
\* that was confirmed as prepared and is not aborted.
NodeInv == state.publicKey = me /\ StateInv(state)

\* Whatever the peers have sent, no call takes back in the Prepare phase what the
\* node said: ballots only rise, an accepted abort stays, a vote to commit is for
\* the current ballot or a later one, and it is kept until its abort has been
\* accepted.
PromisesKept == [][Keeps(state, state')]_state

===============================================================================
