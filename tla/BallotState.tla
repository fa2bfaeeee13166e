------------------------------ MODULE BallotState ------------------------------
(***************************************************************************)
(* The ballot state of one node (consensus/ballot_state.go): a record with *)
(* the fields of the Go struct, and one operator per method, from the      *)
(* record before the call to the record after it.                          *)
(*                                                                         *)
(* The nomination state is read through "cand": the value PredictValue     *)
(* returns, or Nil when HasNomination is false.  It does not change during *)
(* a call.  "fatal" is set where the Go code calls Logger.Fatal.           *)
(***************************************************************************)
EXTENDS QuorumSlices, BallotMessages, Sequences

CONSTANT StaleLimit     \* duplicates from a peer that make it stale (3)

ASSUME StaleLimitAssumption == StaleLimit \in Nat \ {0}

BallotStates ==
    [publicKey : Nodes, phase : Phases,
     b : Ballots \cup {NoBallot}, last : Ballots \cup {NoBallot},
     p : Ballots \cup {NoBallot}, pPrime : Ballots \cup {NoBallot},
     cn : Nat, hn : Nat, z : SlotValues,
     M : [Nodes -> Messages \cup {Nil}], stale : [Nodes -> Nat],
     fatal : BOOLEAN]

NewBallotState(publicKey) ==
    [publicKey |-> publicKey, phase |-> "Prepare",
     b |-> NoBallot, last |-> NoBallot, p |-> NoBallot, pPrime |-> NoBallot,
     cn |-> 0, hn |-> 0, z |-> Nil,
     M |-> [n \in Nodes |-> Nil], stale |-> [n \in Nodes |-> 0],
     fatal |-> FALSE]

\* The peers a message is known from.
Heard(s) == {n \in Nodes : s.M[n] # Nil}

\* This node, as a set, when it holds the opinion itself.
Us(s, opinion) == IF opinion THEN {s.publicKey} ELSE {}

IsQuorum(s, nodes) == MeetsQuorum(s.publicKey, nodes)
IsBlocked(s, nodes) == BlockedBy(Slice[s.publicKey], nodes)

-------------------------------------------------------------------------------
(***************************************************************************)
(* Accepting and confirming that a ballot is prepared.                     *)
(***************************************************************************)
AcceptedAbort(s, n, x) ==
    IF s.phase # "Prepare"
    THEN x # s.b.x
    ELSE \/ s.p # NoBallot /\ s.p.n >= n /\ s.p.x # x
         \/ s.pPrime # NoBallot /\ s.pPrime.n >= n /\ s.pPrime.x # x

CanAcceptAsPrepared(s, n, x) ==
    /\ s.phase = "Prepare"
    /\ n # 0
    /\ ~(s.p # NoBallot /\ s.p.n >= n /\ s.p.x = x)
    /\ ~(s.pPrime # NoBallot /\ s.pPrime.n >= n)
    /\ LET accepted == {j \in Heard(s) : AcceptAsPrepared(s.M[j], n, x)}
           voted == {j \in Heard(s) : VoteToPrepare(s.M[j], n, x)}
           us == Us(s, s.b # NoBallot /\ s.b.n >= n /\ s.b.x = x)
       IN IsQuorum(s, accepted \cup voted \cup us) \/ IsBlocked(s, accepted)

\* p and p' stay the two highest incompatible ballots accepted as prepared.
\* A ballot not above p should have been ignored.
RaisePrepared(s, ballot) ==
    IF s.p = NoBallot \/ s.p.x = ballot.x
    THEN [s EXCEPT !.p = ballot,
                   !.fatal = @ \/ (s.p # NoBallot /\ ballot.n <= s.p.n)]
    ELSE IF ballot.n >= s.p.n
         THEN [s EXCEPT !.p = ballot, !.pPrime = s.p]
         ELSE [s EXCEPT !.pPrime = ballot]

\* Variant: the vote is kept.
AbortCommitNever(s) == s

\* A vote to commit does not survive the abort of its range.
AbortCommit(s) ==
    IF s.cn # 0 /\ s.hn # 0 /\ AcceptedAbort(s, s.hn, s.b.x)
    THEN [s EXCEPT !.cn = 0]
    ELSE s

MaybeAcceptAsPrepared(s, n, x) ==
    IF CanAcceptAsPrepared(s, n, x)
    THEN AbortCommit(RaisePrepared(s, [n |-> n, x |-> x]))
    ELSE s

CanConfirmAsPrepared(s, n, x) ==
    /\ s.phase = "Prepare"
    /\ s.hn <= n
    /\ s.hn = n => s.z # Nil /\ s.z # x
    /\ LET ballot == [n |-> n, x |-> x]
           us == Us(s, gtecompat(s.p, ballot) \/ gtecompat(s.pPrime, ballot))
       IN IsQuorum(s, us \cup {j \in Heard(s) : AcceptAsPrepared(s.M[j], n, x)})

\* Variant: the commit starts whatever has been accepted since.
RaiseConfirmedUnchecked(s, ballot) ==
    LET b == IF s.b = NoBallot THEN ballot ELSE s.b
    IN [s EXCEPT !.hn = ballot.n, !.z = ballot.x, !.b = b,
                 !.cn = IF s.cn = 0 /\ ballot.x = b.x /\ b.n <= ballot.n
                        THEN b.n ELSE s.cn]

\* The new highest confirmed ballot: the value of later ballots, and the one
\* to commit when it is the value of the current ballot.
RaiseConfirmed(s, ballot) ==
    LET b == IF s.b = NoBallot THEN ballot ELSE s.b
        startCommit == /\ s.cn = 0
                       /\ ballot.x = b.x
                       /\ ~gteincompat(s.p, ballot)
                       /\ ~gteincompat(s.pPrime, ballot)
                       /\ b.n <= ballot.n
    IN [s EXCEPT !.hn = ballot.n, !.z = ballot.x, !.b = b,
                 !.cn = IF startCommit THEN b.n ELSE s.cn]

MaybeConfirmAsPrepared(s, n, x) ==
    IF ~CanConfirmAsPrepared(s, n, x) THEN s
    ELSE IF s.hn = n THEN [s EXCEPT !.cn = 0, !.z = Nil]
    ELSE IF s.cn > 0 /\ x # s.b.x THEN [s EXCEPT !.fatal = TRUE]
    ELSE RaiseConfirmed(s, [n |-> n, x |-> x])

CanAcceptAsCommitted(s, n, x) ==
    /\ s.phase # "Externalize"
    /\ ~(s.phase = "Confirm" /\ s.cn <= n /\ n <= s.hn)
    /\ LET accepted == {j \in Heard(s) : AcceptAsCommitted(s.M[j], n, x)}
           voted == {j \in Heard(s) : VoteToCommit(s.M[j], n, x)}
           us == Us(s, /\ s.phase = "Prepare"
                       /\ s.b # NoBallot /\ s.b.x = x
                       /\ s.cn # 0 /\ s.cn <= n /\ n <= s.hn)
       IN IsQuorum(s, accepted \cup voted \cup us) \/ IsBlocked(s, accepted)

\* The range cn..hn widened to n.
WidenRange(s, n) ==
    [s EXCEPT !.cn = IF n < s.cn THEN n ELSE s.cn,
              !.hn = IF n > s.hn THEN n ELSE s.hn]

MaybeAcceptAsCommitted(s, n, x) ==
    IF ~CanAcceptAsCommitted(s, n, x) THEN s
    ELSE IF s.b = NoBallot \/ s.b.x # x
         THEN [s EXCEPT !.phase = "Confirm", !.b = [n |-> n, x |-> x],
                        !.cn = n, !.hn = n, !.z = x]
         ELSE WidenRange([s EXCEPT !.phase = "Confirm"], n)

CanConfirmAsCommitted(s, n, x) ==
    /\ s.phase # "Prepare"
    /\ s.b # NoBallot /\ s.b.x = x
    /\ ~(s.phase = "Externalize" /\ s.cn <= n /\ n <= s.hn)
    /\ LET us == Us(s, s.phase = "Confirm" /\ s.cn <= n /\ n <= s.hn)
       IN IsQuorum(s, us \cup {j \in Heard(s) : AcceptAsCommitted(s.M[j], n, x)})

MaybeConfirmAsCommitted(s, n, x) ==
    IF ~CanConfirmAsCommitted(s, n, x) THEN s
    ELSE IF s.phase = "Confirm"
         THEN [s EXCEPT !.phase = "Externalize", !.cn = n, !.hn = n]
         ELSE WidenRange(s, n)

-------------------------------------------------------------------------------
(***************************************************************************)
(* Moving to the next ballot.                                              *)
(***************************************************************************)
\* Variant: the confirmed value is not preferred.
NextValueNominated(s, cand) == cand

NextValue(s, cand) == IF s.z # Nil THEN s.z ELSE cand

GoToNextBallot(s, cand) ==
    IF NextValue(s, cand) = Nil THEN s
    ELSE LET b == [n |-> s.b.n + 1, x |-> NextValue(s, cand)]
             t == [s EXCEPT !.b = b]
         IN IF t.cn = 0 /\ t.hn >= b.n /\ ~AcceptedAbort(t, t.hn, b.x)
            THEN [t EXCEPT !.cn = b.n]
            ELSE t

\* CheckForBlockedBallot: a blocking set can never vote for our ballot, and
\* there is a value to move on with.
Blocked(s) ==
    /\ s.b # NoBallot
    /\ IsBlocked(s, {j \in Heard(s) : ~CouldEverVoteFor(s.M[j], s.b.n, s.b.x)})

BallotBlocked(s, cand) == NextValue(s, cand) # Nil /\ Blocked(s)

HandleStaleQuorum(s, cand) ==
    IF \/ s.b = NoBallot
       \/ IsBlocked(s, {j \in Heard(s) : BallotNumber(s.M[j]) < s.b.n})
    THEN s
    ELSE GoToNextBallot(s, cand)

\* Variant: the counters are dropped and not made again.
CheckIfStaleDropped(s, cand) ==
    IF IsQuorum(s, {s.publicKey} \cup {n \in Nodes : s.stale[n] >= StaleLimit})
    THEN HandleStaleQuorum([s EXCEPT !.stale = [n \in {} |-> 0]], cand)
    ELSE s

CheckIfStale(s, cand) ==
    IF IsQuorum(s, {s.publicKey} \cup {n \in Nodes : s.stale[n] >= StaleLimit})
    THEN HandleStaleQuorum([s EXCEPT !.stale = [n \in Nodes |-> 0]], cand)
    ELSE s

-------------------------------------------------------------------------------
(***************************************************************************)
(* Handling a message.                                                     *)
(***************************************************************************)
InvestigateBallot(s, n, x) ==
    IF n < 1 THEN s
    ELSE LET s1 == MaybeAcceptAsPrepared(s, n, x)
             s2 == MaybeConfirmAsPrepared(s1, n, x)
             s3 == MaybeAcceptAsCommitted(s2, n, x)
         IN MaybeConfirmAsCommitted(s3, n, x)

\* The numbers the peers mention for x, and the highest number that a
\* blocking set of them has reached.
RelevantRange(s, x) ==
    LET numbers == UNION {RelevantNumbers(s.M[n], x) : n \in Heard(s)}
    IN [min |-> Min0(numbers), max |-> Max0(numbers)]

MaxActionableBallotNumber(s) ==
    LET reached == {MaxN(s.M[n]) : n \in Heard(s)}
    IN Max0({k \in reached : IsBlocked(s, {j \in Heard(s) : MaxN(s.M[j]) >= k})})

\* The numbers of the range in increasing order, then the current ballot's if
\* it lies beyond them (InvestigateBallot ignores 0).
InvestigateValue(s, x) ==
    LET range == RelevantRange(s, x)
        top == MaxActionableBallotNumber(s)
        max == IF range.max > top THEN top ELSE range.max
        last == IF range.min <= max THEN max + 1 ELSE range.min
        upTo[i \in range.min..last] ==
          LET t == IF i > range.min THEN upTo[i-1] ELSE s
              n == IF i < last THEN i ELSE IF i <= t.b.n THEN t.b.n ELSE 0
          IN InvestigateBallot(t, n, x)
    IN upTo[last]

\* The values a message speaks about, without repetitions.  An unset Px or
\* Ppx has number 0, for which there is nothing to investigate.
ValuesOf(m) ==
    IF m.type # "Prepare" THEN <<m.X>>
    ELSE <<m.Bx>> \o (IF m.Px \in {m.Bx, Nil} THEN <<>> ELSE <<m.Px>>)
                 \o (IF m.Ppx \in {m.Bx, m.Px, Nil} THEN <<>> ELSE <<m.Ppx>>)

InvestigateMessage(s, m) ==
    LET values == ValuesOf(m)
        upTo[i \in 0..Len(values)] ==
          IF i = 0 THEN s ELSE InvestigateValue(upTo[i-1], values[i])
    IN upTo[Len(values)]

(***************************************************************************)
(* Handle of a message that is not newer than the one we have: only the    *)
(* stale counter moves, and a stale quorum may move us to the next ballot. *)
(* The counter is only ever compared with the limit, so it stops there.    *)
(***************************************************************************)
IsDuplicate(s, node, m) == node \in Heard(s) /\ ~Newer(s.M[node], m)

HandleDuplicate(s, node, cand) ==
    CheckIfStale([s EXCEPT !.stale[node] = IF @ < StaleLimit THEN @ + 1 ELSE @],
                 cand)

(***************************************************************************)
(* Handle of a new message: store it, investigate, and investigate again   *)
(* on the next ballot for as long as the current one is blocked            *)
(* (CheckForBlockedBallot).  At most "rounds" iterations are unrolled; a   *)
(* state whose ballot is still blocked then has not left the loop.         *)
(***************************************************************************)
Store(s, node, m) == [s EXCEPT !.stale[node] = 0, !.M[node] = m]

Receive(s, node, m) == InvestigateMessage(Store(s, node, m), m)

LeaveBlockedBallots(s, m, cand, rounds) ==
    LET loop[i \in 0..rounds] ==
          IF i = 0 THEN s
          ELSE LET t == loop[i-1]
               IN IF BallotBlocked(t, cand)
                  THEN InvestigateMessage(GoToNextBallot(t, cand), m)
                  ELSE t
    IN loop[rounds]

-------------------------------------------------------------------------------
(***************************************************************************)
(* Validation and the outgoing message.                                    *)
(***************************************************************************)
ValidRange(s) == s.cn <= s.hn

IncompatiblePrepared(s) ==
    s.p # NoBallot /\ s.pPrime # NoBallot => s.p.x # s.pPrime.x

CommitNotAborted(s) ==
    s.b # NoBallot /\ s.phase = "Prepare" /\ s.cn # 0 =>
        \A q \in {s.p, s.pPrime} : q # NoBallot /\ q.x # s.b.x => s.hn > q.n

MonotonicBallot(s) ==
    /\ s.b # NoBallot /\ s.phase = "Prepare"
    /\ s.last # NoBallot /\ s.b.x # s.last.x
    => s.last.n <= s.b.n

Valid(s) == /\ ValidRange(s)
            /\ IncompatiblePrepared(s)
            /\ CommitNotAborted(s)
            /\ MonotonicBallot(s)

AssertValid(s) ==
    [s EXCEPT !.fatal = s.fatal \/ ~Valid(s),
              !.last = IF s.b # NoBallot /\ s.phase = "Prepare" THEN s.b ELSE s.last]

Message(s) ==
    CASE s.phase = "Prepare" ->
           [type |-> "Prepare", Bn |-> s.b.n, Bx |-> s.b.x,
            Pn |-> s.p.n, Px |-> s.p.x, Ppn |-> s.pPrime.n, Ppx |-> s.pPrime.x,
            Cn |-> s.cn, Hn |-> s.hn]
      [] s.phase = "Confirm" ->
           [type |-> "Confirm", X |-> s.b.x, Pn |-> s.p.n,
            Cn |-> s.cn, Hn |-> s.hn]
      [] s.phase = "Externalize" ->
           [type |-> "Externalize", X |-> s.b.x, Cn |-> s.cn, Hn |-> s.hn]

================================================================================
