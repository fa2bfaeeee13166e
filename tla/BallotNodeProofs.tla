--------------------------- MODULE BallotNodeProofs ---------------------------
(***************************************************************************)
(* Every reachable ballot state is well typed, no Logger.Fatal is reached, *)
(* and no call takes back what the node said in the Prepare phase, for any *)
(* network, any slices, any values and any messages of the peers.          *)
(*                                                                         *)
(* The lemmas are about a method of BallotState called in any state s that *)
(* satisfies the invariant, and the state t it leads to.                   *)
(*                                                                         *)
(* The second part is about the order of the messages: a call that changes *)
(* what the node says makes a message that is newer by Compare.            *)
(*                                                                         *)
(* The third part is why nodes agree: what the votes of all nodes say      *)
(* about each other, and that no call of one node's BallotState breaks it. *)
(***************************************************************************)
EXTENDS BallotNode, TLAPS

\* Zenon is tried first: few steps need the theories of the SMT solver.
USE Zenon, SMT

-------------------------------------------------------------------------------
(***************************************************************************)
(* The operators the actions are built from.                               *)
(***************************************************************************)

\* MeetsQuorum starts by looking for the node itself.
LEMMA QuorumIncludesUs ==
    ASSUME NEW us, NEW nodes, MeetsQuorum(us, nodes)
    PROVE  us \in nodes
BY DEF MeetsQuorum

\* The node counts itself in a quorum only for an opinion it holds.
LEMMA QuorumOpinion ==
    ASSUME NEW s, WellTyped(s), NEW S \in SUBSET Heard(s), NEW opinion \in BOOLEAN,
           IsQuorum(s, Us(s, opinion) \cup S)
    PROVE  opinion
<1>1. s.publicKey \in Us(s, opinion) \cup S
  BY QuorumIncludesUs DEF IsQuorum, WellTyped
<1>2. s.publicKey \notin S
  BY DEF Heard, WellTyped
<1> QED
  BY <1>1, <1>2 DEF Us

\* What the type of the state says of the parts the proofs compute with.
LEMMA FieldTypes ==
    ASSUME NEW s, WellTyped(s)
    PROVE  /\ s \in BallotStates
           /\ s.cn \in Nat /\ s.hn \in Nat
           /\ \A q \in {s.b, s.p, s.pPrime, s.last} :
                /\ q \in Ballots \cup {NoBallot}
                /\ q.n \in Nat
                /\ q # NoBallot <=> q.n > 0
                /\ q = NoBallot <=> q.x = Nil
                /\ q.x \in SlotValues
BY NilAssumption, SMT DEF WellTyped, BallotStates, Ballots, NoBallot, SlotValues

\* A call that leaves p and p' alone keeps the aborts; one that also leaves the
\* ballot and the range alone keeps everything.
LEMMA SamePrepared ==
    ASSUME NEW s, NEW t, WellTyped(s), t.phase = "Prepare",
           t.p = s.p, t.pPrime = s.pPrime
    PROVE  AbortsKept(s, t)
BY FieldTypes DEF AbortsKept, AcceptedAbort

\* A call that leaves the votes alone keeps what the node said.
LEMMA SameVotes ==
    ASSUME NEW s, NEW t, WellTyped(s), t.phase = s.phase, t.b = s.b,
           t.p = s.p, t.pPrime = s.pPrime, t.cn = s.cn, t.hn = s.hn
    PROVE  Keeps(s, t)
BY FieldTypes, SamePrepared DEF Keeps, BallotRises, CommitStartsHere, CommitKept

\* RaisePrepared only touches p and p'.  Neither gets lower, and they remain a
\* higher and a lower ballot of different values.
PreparedRaised(s, r) ==
    /\ r \in BallotStates
    /\ r = [s EXCEPT !.p = r.p, !.pPrime = r.pPrime]
    /\ r.p # NoBallot
    /\ r.pPrime # NoBallot =>
           r.pPrime.n <= r.p.n /\ r.pPrime.x # r.p.x
    /\ s.p.n <= r.p.n /\ s.pPrime.n <= r.pPrime.n
    /\ r.p.x = s.p.x \/ s.p = NoBallot \/ r.pPrime = s.p

\* Accepting a ballot as prepared takes back no accepted abort.
LEMMA RaisePreparedKeeps ==
    ASSUME NEW s, WellTyped(s), PreparedOrder(s),
           NEW n \in Nat \ {0}, NEW x \in Values,
           CanAcceptAsPrepared(s, n, x),
           NEW r, r = RaisePrepared(s, [n |-> n, x |-> x])
    PROVE  PreparedRaised(s, r)
<1> DEFINE bal == [n |-> n, x |-> x]
<1>0. bal \in Ballots /\ bal # NoBallot /\ bal.n = n /\ bal.x = x
  BY DEF Ballots, NoBallot
<1>1. s \in BallotStates
  BY DEF WellTyped
<1>2. /\ s.p \in Ballots \cup {NoBallot} /\ s.pPrime \in Ballots \cup {NoBallot}
      /\ s.p.n \in Nat /\ s.pPrime.n \in Nat
  BY <1>1, SMT DEF BallotStates, Ballots, NoBallot
<1>3. /\ ~(s.p # NoBallot /\ s.p.n >= n /\ s.p.x = x)
      /\ ~(s.pPrime # NoBallot /\ s.pPrime.n >= n)
  BY DEF CanAcceptAsPrepared
<1>4. CASE s.p = NoBallot \/ s.p.x = x
  <2>0. ~(s.p # NoBallot /\ n <= s.p.n) /\ s.fatal \in BOOLEAN
    BY <1>1, <1>2, <1>3, <1>4 DEF BallotStates
  <2>1. r = [s EXCEPT !.p = bal]
    <3>1. r = [s EXCEPT !.p = bal, !.fatal = @ \/ (s.p # NoBallot /\ bal.n <= s.p.n)]
      BY <1>4, <1>0 DEF RaisePrepared
    <3>2. r = [s EXCEPT !.p = bal, !.fatal = s.fatal]
      BY <3>1, <2>0, <1>0, <1>1 DEF BallotStates
    <3> QED
      BY <3>2, <1>1 DEF BallotStates
  <2>2. r \in BallotStates /\ r.p = bal /\ r.pPrime = s.pPrime
    BY <2>1, <1>0, <1>1 DEF BallotStates
  <2>3. r = [s EXCEPT !.p = r.p, !.pPrime = r.pPrime]
    BY <2>1, <2>2, <1>1 DEF BallotStates
  <2> QED
    BY <2>2, <2>3, <1>0, <1>2, <1>3, <1>4, SMT DEF PreparedOrder, NoBallot, Ballots,
       PreparedRaised
<1>5. CASE ~(s.p = NoBallot \/ s.p.x = x) /\ n >= s.p.n
  <2>1. r = [s EXCEPT !.p = bal, !.pPrime = s.p]
    BY <1>5, <1>0 DEF RaisePrepared
  <2>2. r \in BallotStates /\ r.p = bal /\ r.pPrime = s.p
    BY <2>1, <1>0, <1>1, <1>2 DEF BallotStates
  <2>3. r = [s EXCEPT !.p = r.p, !.pPrime = r.pPrime]
    BY <2>1, <2>2, <1>1 DEF BallotStates
  <2> QED
    BY <2>2, <2>3, <1>0, <1>2, <1>3, <1>5, SMT DEF PreparedOrder, NoBallot, Ballots,
       PreparedRaised
<1>6. CASE ~(s.p = NoBallot \/ s.p.x = x) /\ ~(n >= s.p.n)
  <2>1. r = [s EXCEPT !.pPrime = bal]
    BY <1>6, <1>0 DEF RaisePrepared
  <2>2. r \in BallotStates /\ r.p = s.p /\ r.pPrime = bal
    BY <2>1, <1>0, <1>1, <1>2 DEF BallotStates
  <2>3. r = [s EXCEPT !.p = r.p, !.pPrime = r.pPrime]
    BY <2>1, <2>2, <1>1 DEF BallotStates
  <2> QED
    BY <2>2, <2>3, <1>0, <1>2, <1>3, <1>6, SMT DEF PreparedOrder, NoBallot, Ballots,
       PreparedRaised
<1> QED
  BY <1>4, <1>5, <1>6

\* The ballot that p and p' no longer have room for aborted nothing that they
\* do not abort.
LEMMA RaisePreparedAborts ==
    ASSUME NEW s, WellTyped(s), PreparedOrder(s),
           NEW n \in Nat \ {0}, NEW x \in Values,
           CanAcceptAsPrepared(s, n, x),
           NEW r, r = RaisePrepared(s, [n |-> n, x |-> x])
    PROVE  AbortsKept(s, r)
<1> DEFINE bal == [n |-> n, x |-> x]
<1>0. bal \in Ballots /\ bal # NoBallot /\ bal.n = n /\ bal.x = x
  BY DEF Ballots, NoBallot
<1>1. /\ s \in BallotStates /\ s.p.n \in Nat /\ s.pPrime.n \in Nat
      /\ s.phase = "Prepare"
      /\ ~(s.p # NoBallot /\ s.p.n >= n /\ s.p.x = x)
      /\ ~(s.pPrime # NoBallot /\ s.pPrime.n >= n)
      /\ s.pPrime # NoBallot => s.p # NoBallot /\ s.pPrime.n <= s.p.n /\ s.pPrime.x # s.p.x
  BY FieldTypes DEF CanAcceptAsPrepared, PreparedOrder
<1>2. /\ r.phase = "Prepare"
      /\ \/ s.p = NoBallot \/ s.p.x = x
         \/ s.p # NoBallot /\ s.p.x # x
      /\ s.p = NoBallot \/ s.p.x = x => r.p = bal /\ r.pPrime = s.pPrime
      /\ ~(s.p = NoBallot \/ s.p.x = x) /\ n >= s.p.n => r.p = bal /\ r.pPrime = s.p
      /\ ~(s.p = NoBallot \/ s.p.x = x) /\ ~(n >= s.p.n) => r.p = s.p /\ r.pPrime = bal
  BY <1>0, <1>1 DEF RaisePrepared, BallotStates
<1> HIDE DEF bal
<1> SUFFICES ASSUME NEW q \in {s.p, s.pPrime}, NEW y \in Values,
                    q # NoBallot, q.x # y
             PROVE  \/ r.p # NoBallot /\ r.p.n >= q.n /\ r.p.x # y
                    \/ r.pPrime # NoBallot /\ r.pPrime.n >= q.n /\ r.pPrime.x # y
  BY <1>2 DEF AbortsKept, AcceptedAbort
<1> QED
  BY <1>0, <1>1, <1>2

\* No call changes whose state it is, and only Handle stores messages.
LEMMA SameNode ==
    ASSUME NEW s \in BallotStates
    PROVE  /\ \A n, x : \A t \in {MaybeAcceptAsPrepared(s, n, x),
                                  MaybeConfirmAsPrepared(s, n, x),
                                  MaybeAcceptAsCommitted(s, n, x),
                                  MaybeConfirmAsCommitted(s, n, x)} :
                t.publicKey = s.publicKey /\ t.M = s.M
           /\ \A cand : \A t \in {GoToNextBallot(s, cand), AssertValid(s)} :
                t.publicKey = s.publicKey /\ t.M = s.M
           /\ \A node, cand : LET t == HandleDuplicate(s, node, cand)
                              IN  t.publicKey = s.publicKey /\ t.M = s.M
           /\ \A node, m : Store(s, node, m).publicKey = s.publicKey
<1>1. /\ \A n, x : /\ MaybeAcceptAsPrepared(s, n, x).publicKey = s.publicKey
                   /\ MaybeAcceptAsPrepared(s, n, x).M = s.M
  BY SMT DEF MaybeAcceptAsPrepared, AbortCommit, RaisePrepared, BallotStates
<1>2. /\ \A n, x : /\ MaybeConfirmAsPrepared(s, n, x).publicKey = s.publicKey
                   /\ MaybeConfirmAsPrepared(s, n, x).M = s.M
  BY DEF MaybeConfirmAsPrepared, RaiseConfirmed, BallotStates
<1>3. /\ \A n, x : /\ MaybeAcceptAsCommitted(s, n, x).publicKey = s.publicKey
                   /\ MaybeAcceptAsCommitted(s, n, x).M = s.M
  BY DEF MaybeAcceptAsCommitted, WidenRange, BallotStates
<1>4. /\ \A n, x : /\ MaybeConfirmAsCommitted(s, n, x).publicKey = s.publicKey
                   /\ MaybeConfirmAsCommitted(s, n, x).M = s.M
  BY DEF MaybeConfirmAsCommitted, WidenRange, BallotStates
<1>5. \A cand : \A t \in {GoToNextBallot(s, cand), AssertValid(s)} :
                t.publicKey = s.publicKey /\ t.M = s.M
  BY DEF GoToNextBallot, AssertValid, BallotStates
<1>6. \A node, cand : LET t == HandleDuplicate(s, node, cand)
                      IN  t.publicKey = s.publicKey /\ t.M = s.M
  BY SMT DEF HandleDuplicate, CheckIfStale, HandleStaleQuorum, GoToNextBallot, BallotStates
<1>7. \A node, m : Store(s, node, m).publicKey = s.publicKey
  BY DEF Store, BallotStates
<1> QED
  BY <1>1, <1>2, <1>3, <1>4, <1>5, <1>6, <1>7

-------------------------------------------------------------------------------
(***************************************************************************)
(* The inductive invariant holds initially, and each call preserves it and *)
(* keeps a vote to commit.                                                 *)
(***************************************************************************)
LEMMA NewInv ==
    ASSUME NEW n \in Nodes
    PROVE  StateInv(NewBallotState(n))
<1>1. PICK s : s = NewBallotState(n)
  OBVIOUS
<1>2. /\ s.publicKey = n /\ s.phase = "Prepare" /\ s.b = NoBallot
      /\ s.last = NoBallot /\ s.p = NoBallot /\ s.pPrime = NoBallot
      /\ s.cn = 0 /\ s.hn = 0 /\ s.z = Nil /\ s.M = [k \in Nodes |-> Nil]
      /\ s.fatal = FALSE
  BY <1>1 DEF NewBallotState
<1>3. WellTyped(s)
  BY <1>1 DEF NewBallotState, WellTyped, BallotStates, Phases, SlotValues
<1>4. StateInv(s)
  BY <1>2, <1>3 DEF StateInv, ValidRange, PreparedOrder, BallotKnown,
     ConfirmedWasAccepted, CommitVoteIsNext, CommitNotAborted, LastIsLower,
     NoBallot
<1> QED
  BY <1>1, <1>4

\* A step that only stores or counts messages.
LEMMA QuietStep ==
    ASSUME NEW s, NEW t \in BallotStates, StateInv(s), t.M[s.publicKey] = Nil,
           t = [s EXCEPT !.M = t.M, !.stale = t.stale]
    PROVE  StateInv(t) /\ Keeps(s, t)
<1>1. s \in BallotStates
  BY DEF StateInv, WellTyped
<1>2. /\ t.publicKey = s.publicKey /\ t.phase = s.phase /\ t.b = s.b
      /\ t.last = s.last /\ t.p = s.p /\ t.pPrime = s.pPrime
      /\ t.cn = s.cn /\ t.hn = s.hn /\ t.z = s.z /\ t.fatal = s.fatal
  BY <1>1 DEF BallotStates
<1>3. WellTyped(t)
  BY <1>2 DEF StateInv, WellTyped
<1>4. Keeps(s, t)
  BY <1>2, SameVotes DEF StateInv
<1> QED
  BY <1>2, <1>3, <1>4 DEF StateInv, ValidRange, PreparedOrder,
     BallotKnown, ConfirmedWasAccepted, CommitVoteIsNext, CommitNotAborted,
     LastIsLower

\* Handle stores a message of a peer.
LEMMA StoreInv ==
    ASSUME NEW s, NEW t, StateInv(s), NEW node \in Nodes \ {s.publicKey},
           NEW m \in Messages, t = Store(s, node, m)
    PROVE  StateInv(t) /\ Keeps(s, t)
<1>1. s \in BallotStates /\ s.M[s.publicKey] = Nil
  BY DEF StateInv, WellTyped
<1>2. t = [s EXCEPT !.stale[node] = 0, !.M[node] = m]
  BY DEF Store
<1>3. t \in BallotStates /\ t.M[s.publicKey] = Nil
  <2>1. s.M \in [Nodes -> Messages \cup {Nil}] /\ s.stale \in [Nodes -> Nat]
    BY <1>1 DEF BallotStates
  <2>2. t.M = [s.M EXCEPT ![node] = m] /\ t.stale = [s.stale EXCEPT ![node] = 0]
    BY <1>1, <1>2 DEF BallotStates
  <2>3. t = [s EXCEPT !.M = t.M, !.stale = t.stale]
    BY <1>1, <1>2 DEF BallotStates
  <2>4. /\ t.M \in [Nodes -> Messages \cup {Nil}] /\ t.stale \in [Nodes -> Nat]
        /\ t.M[s.publicKey] = Nil
    BY <2>1, <2>2, <1>1, SMT
  <2> QED
    BY <2>3, <2>4, <1>1 DEF BallotStates
<1>4. t = [s EXCEPT !.M = t.M, !.stale = t.stale]
  BY <1>1, <1>2 DEF BallotStates
<1> QED
  BY <1>3, <1>4, QuietStep

\* A call that changes nothing.
LEMMA StutterInv ==
    ASSUME NEW s, NEW t, StateInv(s), t = s
    PROVE  StateInv(t) /\ Keeps(s, t)
<1>1. s \in BallotStates /\ s.M[s.publicKey] = Nil
  BY DEF StateInv, WellTyped
<1>2. t = [s EXCEPT !.M = t.M, !.stale = t.stale]
  BY <1>1 DEF BallotStates
<1> QED
  BY <1>1, <1>2, QuietStep

\* Accepting a ballot as prepared: p and p' go up, and the vote to commit goes
\* if one of them aborts it.
LEMMA AcceptPreparedInv ==
    ASSUME NEW s, NEW t, StateInv(s), NEW n \in Nat \ {0}, NEW x \in Values,
           t = MaybeAcceptAsPrepared(s, n, x)
    PROVE  StateInv(t) /\ Keeps(s, t)
<1>1. CASE ~CanAcceptAsPrepared(s, n, x)
  BY <1>1, StutterInv DEF MaybeAcceptAsPrepared
<1>2. CASE CanAcceptAsPrepared(s, n, x)
  <2>0. PICK r : r = RaisePrepared(s, [n |-> n, x |-> x])
    OBVIOUS
  <2> DEFINE dropped == r.cn # 0 /\ r.hn # 0 /\ AcceptedAbort(r, r.hn, r.b.x)
  <2>1. n \in Nat \ {0} /\ t = AbortCommit(r)
    BY <1>2, <2>0 DEF MaybeAcceptAsPrepared
  <2>1a. WellTyped(s) /\ PreparedOrder(s)
    BY DEF StateInv
  <2>2. /\ r \in BallotStates
        /\ r = [s EXCEPT !.p = r.p, !.pPrime = r.pPrime]
        /\ r.p # NoBallot
        /\ r.pPrime # NoBallot => r.pPrime.n <= r.p.n /\ r.pPrime.x # r.p.x
        /\ s.p.n <= r.p.n /\ s.pPrime.n <= r.pPrime.n
        /\ r.p.x = s.p.x \/ s.p = NoBallot \/ r.pPrime = s.p
    <3>1. PreparedRaised(s, r)
      BY <1>2, <2>0, <2>1a, RaisePreparedKeeps
    <3> QED
      BY <3>1 DEF PreparedRaised
  <2>3. /\ s \in BallotStates /\ s.phase = "Prepare"
        /\ s.cn \in Nat /\ s.hn \in Nat /\ s.p.n \in Nat /\ s.pPrime.n \in Nat
    BY <1>2, FieldTypes DEF StateInv, CanAcceptAsPrepared
  <2>4. /\ r.publicKey = s.publicKey /\ r.phase = s.phase /\ r.b = s.b
        /\ r.last = s.last /\ r.cn = s.cn /\ r.hn = s.hn /\ r.z = s.z
        /\ r.M = s.M /\ r.fatal = s.fatal
    BY <2>2, <2>3 DEF BallotStates
  <2>4a. r.p.n \in Nat /\ r.pPrime.n \in Nat
    BY <2>2, SMT DEF BallotStates, Ballots, NoBallot
  <2>5. /\ t \in BallotStates
        /\ t.publicKey = s.publicKey /\ t.phase = s.phase /\ t.b = s.b
        /\ t.last = s.last /\ t.hn = s.hn /\ t.z = s.z
        /\ t.M = s.M /\ t.fatal = s.fatal
        /\ t.p = r.p /\ t.pPrime = r.pPrime
        /\ t.cn = IF dropped THEN 0 ELSE s.cn
    BY <2>1, <2>2, <2>4, SMT DEF AbortCommit, BallotStates
  <2>6. AcceptedAbort(r, r.hn, r.b.x) <=> AcceptedAbort(t, s.hn, s.b.x)
    BY <2>4, <2>5 DEF AcceptedAbort
  <2> HIDE DEF dropped
  <2>7. WellTyped(t) /\ ~t.fatal /\ BallotKnown(t) /\ LastIsLower(t)
    BY <2>5 DEF StateInv, WellTyped, BallotKnown, LastIsLower
  <2>8. ValidRange(t) /\ PreparedOrder(t) /\ CommitVoteIsNext(t)
    BY <2>2, <2>3, <2>5, SMT DEF StateInv, ValidRange, PreparedOrder, CommitVoteIsNext
  <2>9. ConfirmedWasAccepted(t)
    BY <2>2, <2>3, <2>4a, <2>5, SMT DEF StateInv, ConfirmedWasAccepted, NoBallot
  <2>10. CommitNotAborted(t)
    <3>1. CASE t.cn = 0
      BY <3>1 DEF CommitNotAborted
    <3>2. CASE t.cn # 0
      <4>1. s.cn # 0 /\ s.hn # 0 /\ ~AcceptedAbort(t, s.hn, s.b.x)
        BY <3>2, <2>3, <2>4, <2>5, <2>6 DEF dropped, StateInv, ValidRange
      <4> QED
        BY <4>1, <2>3, <2>4a, <2>5 DEF AcceptedAbort, CommitNotAborted
    <3> QED
      BY <3>1, <3>2
  <2>11. Keeps(s, t)
    <3>1. CommitKept(s, t) /\ CommitStartsHere(s, t) /\ BallotRises(s, t)
      BY <2>3, <2>5, <2>6, FieldTypes, SMT DEF CommitKept, dropped, CommitStartsHere,
         BallotRises, StateInv
    <3>2. AbortsKept(s, r)
      BY <1>2, <2>0, <2>1a, RaisePreparedAborts
    <3>2a. AbortsKept(s, t)
      BY <3>2, <2>3, <2>4, <2>5 DEF AbortsKept, AcceptedAbort
    <3> QED
      BY <3>1, <3>2a, <2>3, <2>5 DEF Keeps
  <2> QED
    BY <2>7, <2>8, <2>9, <2>10, <2>11 DEF StateInv
<1> QED
  BY <1>1, <1>2

\* Confirming a ballot as prepared: one of p and p' has accepted it, so the
\* value of a vote to commit cannot be another one.
LEMMA ConfirmPreparedInv ==
    ASSUME NEW s, NEW t, StateInv(s), NEW n \in Nat \ {0}, NEW x \in Values,
           t = MaybeConfirmAsPrepared(s, n, x)
    PROVE  StateInv(t) /\ Keeps(s, t)
<1> DEFINE bal == [n |-> n, x |-> x]
<1>1. CASE ~CanConfirmAsPrepared(s, n, x)
  BY <1>1, StutterInv DEF MaybeConfirmAsPrepared
<1>2. CASE CanConfirmAsPrepared(s, n, x)
  <2>1. /\ n \in Nat \ {0} /\ t = MaybeConfirmAsPrepared(s, n, x)
        /\ bal \in Ballots /\ bal # NoBallot /\ bal.n = n /\ bal.x = x
        /\ x # Nil
    BY NilAssumption DEF Ballots, NoBallot
  <2>2. /\ s \in BallotStates /\ s.phase = "Prepare" /\ s.hn <= n
        /\ s.hn = n => s.z # Nil /\ s.z # x
        /\ s.cn \in Nat /\ s.hn \in Nat /\ s.cn <= s.hn
        /\ s.p.n \in Nat /\ s.pPrime.n \in Nat /\ s.b.n \in Nat
        /\ s.last.n \in Nat
    BY <1>2, FieldTypes DEF StateInv, CanConfirmAsPrepared, ValidRange
  <2>3. /\ s.p = NoBallot <=> s.p.n = 0
        /\ s.pPrime = NoBallot <=> s.pPrime.n = 0
        /\ s.b = NoBallot <=> s.b.n = 0
        /\ s.p # NoBallot => s.p.x # Nil
        /\ s.b # NoBallot => s.b.x # Nil
    BY FieldTypes DEF StateInv
  <2>4. gtecompat(s.p, bal) \/ gtecompat(s.pPrime, bal)
    <3> DEFINE S == {j \in Heard(s) : AcceptAsPrepared(s.M[j], n, x)}
    <3>1. IsQuorum(s, Us(s, gtecompat(s.p, bal) \/ gtecompat(s.pPrime, bal)) \cup S)
      BY <1>2 DEF CanConfirmAsPrepared
    <3>2. S \in SUBSET Heard(s) /\ WellTyped(s)
      BY DEF StateInv
    <3> HIDE DEF S, bal
    <3>3. (gtecompat(s.p, bal) \/ gtecompat(s.pPrime, bal)) \in BOOLEAN
      BY DEF gtecompat
    <3> QED
      BY <3>1, <3>2, <3>3, QuorumOpinion
  <2>5. \/ s.p.n >= n /\ s.p.x = x
        \/ /\ s.pPrime.n >= n /\ s.pPrime.x = x
           /\ s.p.n >= n /\ s.p.x # x
    <3>1. \/ s.p # NoBallot /\ s.p.n >= n /\ s.p.x = x
          \/ s.pPrime # NoBallot /\ s.pPrime.n >= n /\ s.pPrime.x = x
      BY <2>4, <2>1 DEF gtecompat
    <3> QED
      BY <3>1, <2>1, <2>2 DEF StateInv, PreparedOrder
  <2> HIDE DEF bal
  <2>6. CASE s.hn = n
    <3>1. t = [s EXCEPT !.cn = 0, !.z = Nil]
      BY <2>6, <2>1, <1>2 DEF MaybeConfirmAsPrepared
    <3>2. /\ t \in BallotStates
          /\ t.publicKey = s.publicKey /\ t.phase = s.phase /\ t.b = s.b
          /\ t.last = s.last /\ t.hn = s.hn /\ t.M = s.M
          /\ t.fatal = s.fatal /\ t.p = s.p /\ t.pPrime = s.pPrime
          /\ t.cn = 0 /\ t.z = Nil
      <4>1. Nil \in SlotValues /\ 0 \in Nat
        BY DEF SlotValues
      <4> QED
        BY <3>1, <4>1, <2>2 DEF BallotStates
    <3>3. WellTyped(t) /\ ~t.fatal /\ BallotKnown(t) /\ LastIsLower(t) /\ PreparedOrder(t)
      BY <3>2 DEF StateInv, WellTyped, BallotKnown, LastIsLower,
         PreparedOrder
    <3>4. ValidRange(t) /\ CommitVoteIsNext(t) /\ CommitNotAborted(t)
      BY <3>2, <2>2 DEF ValidRange, CommitVoteIsNext, CommitNotAborted
    <3>5. ConfirmedWasAccepted(t)
      BY <3>2, <2>1, <2>2, <2>5, <2>6 DEF StateInv, ConfirmedWasAccepted
    <3>6. CommitKept(s, t)
      <4> SUFFICES ASSUME s.cn # 0
                   PROVE  AcceptedAbort(t, s.hn, s.b.x)
        BY <3>2, <2>2 DEF CommitKept
      <4>1. s.b.x # x
        BY <2>2, <2>6 DEF StateInv, CommitVoteIsNext
      <4> QED
        BY <4>1, <3>2, <2>1, <2>2, <2>3, <2>5, <2>6 DEF AcceptedAbort
    <3>7. BallotRises(s, t) /\ CommitStartsHere(s, t) /\ AbortsKept(s, t)
      BY <3>2, <2>2, SamePrepared DEF StateInv, BallotRises, CommitStartsHere
    <3> QED
      BY <3>3, <3>4, <3>5, <3>6, <3>7, <2>2 DEF StateInv, Keeps
  <2>7. CASE s.hn # n
    <3>1. ~(s.cn > 0 /\ x # s.b.x)
      <4> SUFFICES ASSUME s.cn > 0, x # s.b.x PROVE FALSE
        OBVIOUS
      <4>1. s.b # NoBallot
        BY <2>2 DEF StateInv, BallotKnown
      <4>2. \A q \in {s.p, s.pPrime} : q # NoBallot /\ q.x # s.b.x => s.hn > q.n
        BY <4>1, <2>2 DEF StateInv, CommitNotAborted
      <4> QED
        BY <4>2, <2>1, <2>2, <2>3, <2>5
    <3>2. PICK b1 : b1 = IF s.b = NoBallot THEN bal ELSE s.b
      OBVIOUS
    <3>3. PICK startCommit \in BOOLEAN :
            startCommit <=> /\ s.cn = 0
                            /\ x = b1.x
                            /\ ~gteincompat(s.p, bal)
                            /\ ~gteincompat(s.pPrime, bal)
                            /\ b1.n <= n
      OBVIOUS
    <3>4. t = [s EXCEPT !.hn = n, !.z = x, !.b = b1,
                         !.cn = IF startCommit THEN b1.n ELSE s.cn]
      BY <3>1, <3>2, <3>3, <2>1, <2>7, <1>2
         DEF MaybeConfirmAsPrepared, RaiseConfirmed, bal
    <3>5. /\ b1 \in Ballots /\ b1 # NoBallot /\ b1.n \in Nat
          /\ s.b.n <= b1.n /\ (s.b # NoBallot => b1 = s.b)
      BY <3>2, <2>1, <2>2, <2>3, SMT DEF BallotStates, Ballots
    <3>6. /\ t \in BallotStates
          /\ t.publicKey = s.publicKey /\ t.phase = s.phase /\ t.b = b1
          /\ t.last = s.last /\ t.hn = n /\ t.M = s.M /\ t.fatal = s.fatal
          /\ t.p = s.p /\ t.pPrime = s.pPrime /\ t.z = x
          /\ t.cn = IF startCommit THEN b1.n ELSE s.cn
      BY <3>4, <3>5, <2>1, <2>2 DEF BallotStates, SlotValues
    <3>7. s.cn # 0 => s.b # NoBallot /\ b1 = s.b /\ x = s.b.x /\ ~startCommit
      BY <3>1, <3>3, <3>5, <2>2 DEF StateInv, BallotKnown
    <3>8. WellTyped(t) /\ ~t.fatal /\ PreparedOrder(t) /\ BallotKnown(t)
      BY <3>5, <3>6 DEF StateInv, WellTyped, BallotKnown,
         PreparedOrder
    <3>9. LastIsLower(t) /\ ValidRange(t)
      BY <3>3, <3>5, <3>6, <2>1, <2>2 DEF StateInv, LastIsLower, ValidRange
    <3>10. ConfirmedWasAccepted(t)
      BY <3>6, <2>5 DEF ConfirmedWasAccepted
    <3>11. CommitVoteIsNext(t)
      BY <3>3, <3>6, <3>7 DEF CommitVoteIsNext
    <3>12. CommitNotAborted(t)
      <4>1. CASE startCommit
        BY <4>1, <3>3, <3>6, <2>1, <2>2 DEF CommitNotAborted, gteincompat
      <4>2. CASE ~startCommit /\ s.cn # 0
        BY <4>2, <3>6, <3>7, <2>1, <2>2 DEF StateInv, CommitNotAborted
      <4>3. CASE ~startCommit /\ s.cn = 0
        BY <4>3, <3>6 DEF CommitNotAborted
      <4> QED
        BY <4>1, <4>2, <4>3
    <3>13. CommitKept(s, t)
      BY <3>6, <3>7, <2>2 DEF CommitKept
    <3>14. BallotRises(s, t) /\ CommitStartsHere(s, t) /\ AbortsKept(s, t)
      <4>1. AbortsKept(s, t)
        BY <3>6, <2>2, SamePrepared DEF StateInv
      <4>2. s.b = NoBallot => s.b.n = 0 /\ b1.n > 0
        BY <3>5, <2>3, SMT DEF Ballots
      <4> QED
        BY <4>1, <4>2, <3>5, <3>6, <3>7, <2>2, <2>3, SMT DEF BallotRises, CommitStartsHere
    <3> QED
      BY <3>8, <3>9, <3>10, <3>11, <3>12, <3>13, <3>14, <2>2 DEF StateInv, Keeps
  <2> QED
    BY <2>6, <2>7
<1> QED
  BY <1>1, <1>2

\* Once the Prepare phase is left, only the range and the ballot matter.
LEMMA AfterPrepare ==
    ASSUME NEW s, NEW t \in BallotStates, StateInv(s), t.phase # "Prepare",
           t.publicKey = s.publicKey, t.M = s.M, t.fatal = s.fatal,
           t.p = s.p, t.pPrime = s.pPrime,
           t.b # NoBallot, t.cn <= t.hn
    PROVE  StateInv(t) /\ Keeps(s, t)
<1>1. WellTyped(t) /\ ~t.fatal /\ PreparedOrder(t) /\ BallotKnown(t)
  BY DEF StateInv, WellTyped, PreparedOrder, BallotKnown
<1>2. ValidRange(t) /\ ConfirmedWasAccepted(t) /\ CommitVoteIsNext(t)
      /\ CommitNotAborted(t) /\ LastIsLower(t) /\ Keeps(s, t)
  BY DEF ValidRange, ConfirmedWasAccepted, CommitVoteIsNext,
     CommitNotAborted, LastIsLower, Keeps
<1> QED
  BY <1>1, <1>2 DEF StateInv

\* MaybeAcceptAsCommitted.
LEMMA AcceptCommittedInv ==
    ASSUME NEW s, NEW t, StateInv(s), NEW n \in Nat \ {0}, NEW x \in Values,
           t = MaybeAcceptAsCommitted(s, n, x)
    PROVE  StateInv(t) /\ Keeps(s, t)
<1>1. CASE ~CanAcceptAsCommitted(s, n, x)
  BY <1>1, StutterInv DEF MaybeAcceptAsCommitted
<1>2. CASE CanAcceptAsCommitted(s, n, x)
  <2>0. PICK bal : bal = [n |-> n, x |-> x]
    OBVIOUS
  <2>1. /\ n \in Nat \ {0} /\ t = MaybeAcceptAsCommitted(s, n, x)
        /\ bal \in Ballots /\ bal # NoBallot
    BY <2>0 DEF Ballots, NoBallot
  <2>2. s \in BallotStates /\ s.cn \in Nat /\ s.hn \in Nat /\ s.cn <= s.hn
    BY FieldTypes DEF StateInv, ValidRange
  <2>3. CASE s.b = NoBallot \/ s.b.x # x
    <3>1. t = [s EXCEPT !.phase = "Confirm", !.b = bal,
                         !.cn = n, !.hn = n, !.z = x]
      BY <1>2, <2>0, <2>1, <2>3 DEF MaybeAcceptAsCommitted
    <3>2. t \in BallotStates
      <4>1. x \in SlotValues /\ "Confirm" \in Phases
        BY DEF SlotValues, Phases
      <4> QED
        BY <4>1, <3>1, <2>1, <2>2 DEF BallotStates
    <3>3. /\ t.phase = "Confirm" /\ t.publicKey = s.publicKey
          /\ t.M = s.M /\ t.fatal = s.fatal
          /\ t.p = s.p /\ t.pPrime = s.pPrime /\ t.b = bal
          /\ t.cn = n /\ t.hn = n
      BY <3>1, <2>2 DEF BallotStates
    <3>4. t.b # NoBallot /\ t.cn <= t.hn
      BY <3>3, <2>1
    <3> QED
      BY <3>2, <3>3, <3>4, AfterPrepare
  <2>4. CASE ~(s.b = NoBallot \/ s.b.x # x)
    <3>1. t = WidenRange([s EXCEPT !.phase = "Confirm"], n)
      BY <1>2, <2>1, <2>4 DEF MaybeAcceptAsCommitted
    <3>2. /\ t \in BallotStates /\ t.phase = "Confirm"
          /\ t.publicKey = s.publicKey /\ t.M = s.M /\ t.fatal = s.fatal
          /\ t.p = s.p /\ t.pPrime = s.pPrime /\ t.b = s.b
          /\ t.cn = (IF n < s.cn THEN n ELSE s.cn)
          /\ t.hn = (IF n > s.hn THEN n ELSE s.hn)
      BY <3>1, <2>1, <2>2 DEF WidenRange, BallotStates, Phases
    <3>3. t.b # NoBallot /\ t.cn <= t.hn
      BY <3>2, <2>1, <2>2, <2>4
    <3> QED
      BY <3>2, <3>3, AfterPrepare
  <2> QED
    BY <2>3, <2>4
<1> QED
  BY <1>1, <1>2

\* MaybeConfirmAsCommitted.
LEMMA ConfirmCommittedInv ==
    ASSUME NEW s, NEW t, StateInv(s), NEW n \in Nat \ {0}, NEW x \in Values,
           t = MaybeConfirmAsCommitted(s, n, x)
    PROVE  StateInv(t) /\ Keeps(s, t)
<1>1. CASE ~CanConfirmAsCommitted(s, n, x)
  BY <1>1, StutterInv DEF MaybeConfirmAsCommitted
<1>2. CASE CanConfirmAsCommitted(s, n, x)
  <2>1. n \in Nat /\ t = MaybeConfirmAsCommitted(s, n, x)
    OBVIOUS
  <2>2. /\ s \in BallotStates /\ s.cn \in Nat /\ s.hn \in Nat /\ s.cn <= s.hn
        /\ s.phase # "Prepare" /\ s.b # NoBallot
    BY <1>2, FieldTypes DEF StateInv, ValidRange, CanConfirmAsCommitted
  <2>3. /\ t \in BallotStates /\ t.phase # "Prepare"
        /\ t.publicKey = s.publicKey /\ t.M = s.M /\ t.fatal = s.fatal
        /\ t.p = s.p /\ t.pPrime = s.pPrime /\ t.b = s.b
    BY <1>2, <2>1, <2>2, ZenonT(60) DEF MaybeConfirmAsCommitted, WidenRange, BallotStates,
       Phases
  <2>4. t.cn <= t.hn
    BY <1>2, <2>1, <2>2, SMT DEF MaybeConfirmAsCommitted, WidenRange, BallotStates
  <2> QED
    BY <2>2, <2>3, <2>4, AfterPrepare
<1> QED
  BY <1>1, <1>2

\* Moving to the next ballot.  Without a confirmed value two contradictory
\* ballots are accepted as prepared at hn or above, so one of them aborts
\* whatever value was nominated and no commit starts.
LEMMA GoToNextBallotInv ==
    ASSUME NEW s, NEW t, StateInv(s), NEW cand \in SlotValues,
           t = GoToNextBallot(s, cand)
    PROVE  StateInv(t) /\ Keeps(s, t)
<1>1. /\ s \in BallotStates /\ s.M[s.publicKey] = Nil /\ s.b.n \in Nat
      /\ s.cn \in Nat /\ s.hn \in Nat /\ s.cn <= s.hn /\ s.last.n \in Nat
      /\ s.p.n \in Nat /\ s.pPrime.n \in Nat
      /\ s.p = NoBallot <=> s.p.n = 0
      /\ s.pPrime = NoBallot <=> s.pPrime.n = 0
      /\ s.p # NoBallot => s.p.x # Nil
      /\ s.b # NoBallot => s.b.x # Nil
  BY FieldTypes DEF StateInv, WellTyped, ValidRange
<1>3. CASE NextValue(s, cand) = Nil
  BY <1>3, StutterInv DEF GoToNextBallot
<1>4. CASE NextValue(s, cand) # Nil
  <2>1. PICK v : v = NextValue(s, cand)
    OBVIOUS
  <2>2. v \in Values /\ v # Nil /\ (s.z # Nil => v = s.z)
    BY <1>4, <2>1, <1>1 DEF NextValue, BallotStates, SlotValues
  <2>3. PICK b1 : b1 = [n |-> s.b.n + 1, x |-> v]
    OBVIOUS
  <2>4. b1 \in Ballots /\ b1.n \in Nat /\ b1.n = s.b.n + 1 /\ b1.x = v /\ b1 # NoBallot
    BY <2>2, <2>3, <1>1 DEF Ballots, NoBallot
  <2>5. PICK starts \in BOOLEAN :
          starts <=> /\ s.cn = 0 /\ s.hn >= b1.n
                     /\ ~AcceptedAbort([s EXCEPT !.b = b1], s.hn, v)
    OBVIOUS
  <2>6. t = IF starts THEN [s EXCEPT !.b = b1, !.cn = b1.n]
                       ELSE [s EXCEPT !.b = b1]
    <3>1. /\ [s EXCEPT !.b = b1].cn = s.cn
          /\ [s EXCEPT !.b = b1].hn = s.hn
      BY <1>1 DEF BallotStates
    <3>2. [[s EXCEPT !.b = b1] EXCEPT !.cn = b1.n] = [s EXCEPT !.b = b1, !.cn = b1.n]
      OBVIOUS
    <3> QED
      BY <3>1, <3>2, <1>4, <2>1, <2>3, <2>4, <2>5 DEF GoToNextBallot
  <2>7. /\ t \in BallotStates
        /\ t.publicKey = s.publicKey /\ t.phase = s.phase /\ t.b = b1
        /\ t.last = s.last /\ t.p = s.p /\ t.pPrime = s.pPrime
        /\ t.hn = s.hn /\ t.z = s.z /\ t.M = s.M /\ t.fatal = s.fatal
        /\ t.cn = IF starts THEN b1.n ELSE s.cn
    <3>1. CASE starts
      BY <3>1, <2>6, <2>4, <1>1 DEF BallotStates
    <3>2. CASE ~starts
      BY <3>2, <2>6, <2>4, <1>1 DEF BallotStates
    <3> QED
      BY <3>1, <3>2
  <2>8. s.phase = "Prepare" /\ starts =>
          \A q \in {s.p, s.pPrime} : q # NoBallot /\ q.x # v => s.hn > q.n
    BY <2>5, <1>1, SMT DEF AcceptedAbort, BallotStates
  <2>9. s.phase = "Prepare" /\ t.cn # 0 => s.z = v
    <3>1. CASE s.cn # 0
      BY <3>1, <1>1, <2>2 DEF StateInv, CommitVoteIsNext, BallotKnown
    <3>2. CASE starts /\ s.phase = "Prepare"
      <4> SUFFICES ASSUME s.z = Nil PROVE FALSE
        BY <2>2
      <4>1. s.hn > 0
        BY <3>2, <2>4, <2>5, <1>1
      <4>2. s.p.n >= s.hn /\ s.pPrime.n >= s.hn /\ s.pPrime # NoBallot
        BY <4>1, <3>2, <1>1 DEF StateInv, ConfirmedWasAccepted
      <4>3. s.p # NoBallot /\ s.pPrime.x # s.p.x
        BY <4>2 DEF StateInv, PreparedOrder
      <4> QED
        BY <4>2, <4>3, <3>2, <2>8, <1>1
    <3> QED
      BY <3>1, <3>2, <2>7
  <2>10. WellTyped(t) /\ ~t.fatal /\ PreparedOrder(t) /\ ConfirmedWasAccepted(t)
    BY <2>7 DEF StateInv, WellTyped, PreparedOrder,
       ConfirmedWasAccepted
  <2>11. ValidRange(t) /\ BallotKnown(t) /\ CommitVoteIsNext(t) /\ LastIsLower(t)
    BY <1>1, <2>4, <2>5, <2>7, <2>9, SMT DEF StateInv, ValidRange, BallotKnown,
       CommitVoteIsNext, LastIsLower
  <2>12. s.phase = "Prepare" /\ s.cn # 0 => s.b # NoBallot /\ s.b.x = v /\ ~starts
    BY <1>1, <2>5, <2>7, <2>9 DEF StateInv, BallotKnown, CommitVoteIsNext
  <2>13. CommitNotAborted(t)
    BY <2>4, <2>7, <2>8, <2>12 DEF StateInv, CommitNotAborted
  <2>15. t.phase = "Prepare" => AbortsKept(s, t)
    BY <2>7, SamePrepared DEF StateInv
  <2>16. BallotRises(s, t)
    BY <1>1, <2>4, <2>7 DEF BallotRises
  <2>17. s.phase = "Prepare" => CommitStartsHere(s, t) /\ CommitKept(s, t)
    BY <1>1, <2>4, <2>7, <2>12 DEF CommitStartsHere, CommitKept
  <2> QED
    BY <2>7, <2>10, <2>11, <2>13, <2>15, <2>16, <2>17 DEF StateInv, Keeps
<1> QED
  BY <1>3, <1>4

\* A duplicate is counted by CheckIfStale, which may go to the next ballot.
LEMMA HandleDuplicateInv ==
    ASSUME NEW s, NEW t, StateInv(s), NEW node \in Nodes, NEW cand \in SlotValues,
           t = HandleDuplicate(s, node, cand)
    PROVE  StateInv(t) /\ Keeps(s, t)
<1>1. s \in BallotStates /\ s.M[s.publicKey] = Nil /\ s.stale \in [Nodes -> Nat]
  BY DEF StateInv, WellTyped, BallotStates
<1>2. PICK r : r = [s EXCEPT !.stale[node] = IF @ < StaleLimit THEN @ + 1 ELSE @]
  OBVIOUS
<1>3. r \in BallotStates /\ r = [s EXCEPT !.M = r.M, !.stale = r.stale] /\ r.M = s.M
  <2>1. PICK c \in Nat : c = IF s.stale[node] < StaleLimit THEN s.stale[node] + 1
                                                        ELSE s.stale[node]
    BY <1>1, StaleLimitAssumption, SMT
  <2>2. r = [s EXCEPT !.stale = [s.stale EXCEPT ![node] = c]]
    BY <2>1, <1>1, <1>2 DEF BallotStates
  <2>3. [s.stale EXCEPT ![node] = c] \in [Nodes -> Nat]
    BY <1>1
  <2> QED
    BY <2>2, <2>3, <1>1 DEF BallotStates
<1>4. PICK w : w = [r EXCEPT !.stale = [n \in Nodes |-> 0]]
  OBVIOUS
<1>5. w \in BallotStates /\ w = [s EXCEPT !.M = w.M, !.stale = w.stale] /\ w.M = s.M
  BY <1>1, <1>3, <1>4, ZenonT(60) DEF BallotStates
<1>6. \/ t = r
      \/ t = w
      \/ t = GoToNextBallot(w, cand)
  BY <1>2, <1>4 DEF HandleDuplicate, CheckIfStale, HandleStaleQuorum
<1>7. /\ StateInv(r) /\ Keeps(s, r)
      /\ StateInv(w) /\ Keeps(s, w)
  BY <1>1, <1>3, <1>5, QuietStep
<1>8. CASE t = GoToNextBallot(w, cand)
  <2>1. StateInv(t) /\ Keeps(w, t)
    BY <1>7, <1>8, GoToNextBallotInv
  <2>2. /\ w.phase = s.phase /\ w.b = s.b /\ w.cn = s.cn /\ w.hn = s.hn
        /\ w.p = s.p /\ w.pPrime = s.pPrime
    BY <1>1, <1>5 DEF BallotStates
  <2> QED
    BY <2>1, <2>2 DEF Keeps, BallotRises, CommitStartsHere, CommitKept, AbortsKept
<1> QED
  BY <1>6, <1>7, <1>8

\* AssertValid finds nothing wrong.
LEMMA AssertValidInv ==
    ASSUME NEW s, NEW t, StateInv(s), t = AssertValid(s)
    PROVE  StateInv(t) /\ Keeps(s, t)
<1>1. s \in BallotStates /\ s.cn \in Nat /\ s.hn \in Nat /\ s.b.n \in Nat
  BY FieldTypes DEF StateInv
<1>2. Valid(s) /\ s.fatal = FALSE
  BY DEF StateInv, WellTyped, BallotStates, Valid, PreparedOrder,
     IncompatiblePrepared, LastIsLower, MonotonicBallot
<1>3. t = [s EXCEPT !.fatal = FALSE,
              !.last = IF s.b # NoBallot /\ s.phase = "Prepare" THEN s.b ELSE s.last]
  BY <1>2 DEF AssertValid
<1>4. /\ t \in BallotStates
      /\ t.publicKey = s.publicKey /\ t.phase = s.phase /\ t.b = s.b
      /\ t.p = s.p /\ t.pPrime = s.pPrime /\ t.cn = s.cn /\ t.hn = s.hn
      /\ t.z = s.z /\ t.M = s.M /\ t.fatal = FALSE
      /\ t.last = s.b \/ t.last = s.last
  BY <1>1, <1>3 DEF BallotStates
<1>5. WellTyped(t) /\ ~t.fatal /\ ValidRange(t) /\ PreparedOrder(t)
  BY <1>4 DEF StateInv, WellTyped, ValidRange, PreparedOrder
<1>6. BallotKnown(t) /\ ConfirmedWasAccepted(t) /\ CommitVoteIsNext(t)
      /\ CommitNotAborted(t)
  BY <1>4 DEF StateInv, BallotKnown, ConfirmedWasAccepted, CommitVoteIsNext,
     CommitNotAborted
<1>7. LastIsLower(t) /\ Keeps(s, t)
  BY <1>1, <1>4, SameVotes DEF StateInv, LastIsLower
<1> QED
  BY <1>5, <1>6, <1>7 DEF StateInv

\* Every call keeps the invariant and what the node said.
LEMMA NextInv == NodeInv /\ [NodeNext]_state => NodeInv' /\ Keeps(state, state')
<1> SUFFICES ASSUME NodeInv, [NodeNext]_state
             PROVE  NodeInv' /\ Keeps(state, state')
  OBVIOUS
<1>1. StateInv(state) /\ state.publicKey = me /\ state \in BallotStates
  BY DEF NodeInv, StateInv, WellTyped
<1>2. CASE state' = state
  BY <1>1, <1>2, StutterInv DEF NodeInv
<1>3. CASE \E node \in Nodes, m \in Incoming : Hear(node, m)
  <2>1. PICK node \in Nodes, m \in Incoming : Hear(node, m)
    BY <1>3
  <2>2. m \in Messages /\ node \in Nodes \ {state.publicKey}
    BY <2>1, <1>1, NodeAssumption DEF Hear
  <2>3. StateInv(state') /\ Keeps(state, state')
    BY <2>1, <2>2, <1>1, StoreInv DEF Hear
  <2> QED
    BY <2>1, <2>3, <1>1, SameNode, SMT DEF Hear, NodeInv
<1>4. CASE \E node \in Nodes, cand \in SlotValues : HearAgain(node, cand)
  BY <1>1, <1>4, HandleDuplicateInv, SameNode, SMT DEF HearAgain, NodeInv
<1>5. CASE \E n \in Numbers, x \in Values : Investigate(n, x)
  <2>1. PICK n \in Numbers, x \in Values : Investigate(n, x)
    BY <1>5
  <2>2. n \in Nat \ {0}
    BY <2>1, NodeAssumption DEF Investigate, AcceptPrepared, ConfirmPrepared,
       AcceptCommitted, ConfirmCommitted
  <2>3. \/ state' = MaybeAcceptAsPrepared(state, n, x)
        \/ state' = MaybeConfirmAsPrepared(state, n, x)
        \/ state' = MaybeAcceptAsCommitted(state, n, x)
        \/ state' = MaybeConfirmAsCommitted(state, n, x)
    BY <2>1 DEF Investigate, AcceptPrepared, ConfirmPrepared,
       AcceptCommitted, ConfirmCommitted
  <2>4. StateInv(state') /\ Keeps(state, state')
    BY <2>2, <2>3, <1>1, AcceptPreparedInv, ConfirmPreparedInv,
       AcceptCommittedInv, ConfirmCommittedInv
  <2> QED
    BY <2>2, <2>3, <2>4, <1>1, SameNode, SMT DEF NodeInv
<1>6. CASE \E cand \in SlotValues : NextBallot(cand)
  BY <1>1, <1>6, GoToNextBallotInv, SameNode, SMT DEF NextBallot, NodeInv
<1>7. CASE Validate
  BY <1>1, <1>7, AssertValidInv, SameNode DEF Validate, NodeInv
<1> QED
  BY <1>2, <1>3, <1>4, <1>5, <1>6, <1>7 DEF NodeNext

-------------------------------------------------------------------------------
(***************************************************************************)
(* The theorems.                                                           *)
(***************************************************************************)

\* The invariant is inductive: it holds in every state that calls to the
\* methods of BallotState can lead to.
THEOREM NodeInvariance == NodeSpec => []NodeInv
<1>1. NodeInit => NodeInv
  BY NewInv, NodeAssumption DEF NodeInit, NodeInv, NewBallotState
<1>2. NodeInv /\ [NodeNext]_state => NodeInv'
  BY NextInv
<1> QED
  BY <1>1, <1>2, PTL DEF NodeSpec

\* No call of Logger.Fatal in ballot_state.go is reached, whatever the peers
\* send: MaybeConfirmAsPrepared never meets a contradiction with a vote to
\* commit, and the four checks of AssertValid hold.
THEOREM FatalUnreachable == NodeSpec => []NeverFatal
<1>1. NodeInv => NeverFatal
  BY DEF NodeInv, StateInv, NeverFatal
<1> QED
  BY <1>1, NodeInvariance, PTL

\* In the Prepare phase ballots only rise, an accepted abort stays accepted, a
\* vote to commit starts at the current ballot and is kept for its value until
\* the abort of its whole range has been accepted.
THEOREM NothingTakenBack == NodeSpec => PromisesKept
<1>1. NodeInv /\ [NodeNext]_state => [Keeps(state, state')]_state
  BY NextInv
<1> QED
  BY <1>1, NodeInvariance, PTL DEF NodeSpec, PromisesKept

-------------------------------------------------------------------------------
(***************************************************************************)
(* What one call of Handle does, and what the node sends after it.         *)
(***************************************************************************)

\* One round of InvestigateBallot keeps the invariant of the state.
LEMMA InvestigateBallotInv ==
    ASSUME NEW s, StateInv(s), NEW n \in Nat, NEW x \in Values,
           NEW t, t = InvestigateBallot(s, n, x)
    PROVE  StateInv(t) /\ t.publicKey = s.publicKey /\ t.M = s.M
<1>1. CASE n < 1
  BY <1>1 DEF InvestigateBallot
<1>2. CASE n >= 1
  <2>1. PICK s1 : s1 = MaybeAcceptAsPrepared(s, n, x)
    OBVIOUS
  <2>2. PICK s2 : s2 = MaybeConfirmAsPrepared(s1, n, x)
    OBVIOUS
  <2>3. PICK s3 : s3 = MaybeAcceptAsCommitted(s2, n, x)
    OBVIOUS
  <2>4. t = MaybeConfirmAsCommitted(s3, n, x) /\ n \in Nat \ {0}
    BY <1>2, <2>1, <2>2, <2>3 DEF InvestigateBallot
  <2>5. StateInv(s1) /\ s1.publicKey = s.publicKey /\ s1.M = s.M
    BY <2>1, <2>4, AcceptPreparedInv, SameNode, SMT DEF StateInv, WellTyped
  <2>6. StateInv(s2) /\ s2.publicKey = s.publicKey /\ s2.M = s.M
    BY <2>2, <2>4, <2>5, ConfirmPreparedInv, SameNode, SMT DEF StateInv, WellTyped
  <2>7. StateInv(s3) /\ s3.publicKey = s.publicKey /\ s3.M = s.M
    <3>1. StateInv(s3)
      BY <2>3, <2>4, <2>6, AcceptCommittedInv
    <3>2. s2 \in BallotStates
      BY <2>6 DEF StateInv, WellTyped
    <3> QED
      BY <2>3, <2>6, <3>1, <3>2, SameNode, SMT
  <2> QED
    BY <2>4, <2>7, ConfirmCommittedInv, SameNode, SMT DEF StateInv, WellTyped
<1> QED
  BY <1>1, <1>2

\* What a node with a ballot sends is a message.
LEMMA MessageIsTyped ==
    ASSUME NEW s, StateInv(s), s.b # NoBallot
    PROVE  /\ Message(s) \in Messages
           /\ s.phase = "Externalize" => Message(s) \in ExternalizeMessages
<1>1. /\ s.b.n \in Nat /\ s.b.x \in Values /\ s.cn \in Nat /\ s.hn \in Nat
      /\ s.p.n \in Nat /\ s.p.x \in SlotValues
      /\ s.pPrime.n \in Nat /\ s.pPrime.x \in SlotValues
  BY FieldTypes DEF StateInv, SlotValues
<1>2. s.phase \in Phases
  BY DEF StateInv, WellTyped, BallotStates
<1>3. CASE s.phase = "Prepare"
  BY <1>1, <1>3 DEF Message, Messages, PrepareMessages
<1>4. CASE s.phase = "Confirm"
  BY <1>1, <1>4 DEF Message, Messages, ConfirmMessages
<1>5. CASE s.phase = "Externalize"
  BY <1>1, <1>5 DEF Message, Messages, ExternalizeMessages
<1> QED
  BY <1>2, <1>3, <1>4, <1>5 DEF Phases

\* A message that is not new.
LEMMA DuplicateInv ==
    ASSUME NEW s, StateInv(s), NEW node \in Nodes, NEW cand \in SlotValues,
           NEW t, t = AssertValid(HandleDuplicate(s, node, cand))
    PROVE  StateInv(t) /\ t.publicKey = s.publicKey /\ t.M = s.M
<1>1. PICK r : r = HandleDuplicate(s, node, cand)
  OBVIOUS
<1>2. s \in BallotStates
  BY DEF StateInv, WellTyped
<1>3. StateInv(r)
  BY <1>1, HandleDuplicateInv
<1>4. r \in BallotStates /\ r.publicKey = s.publicKey /\ r.M = s.M
  BY <1>1, <1>2, <1>3, SameNode, SMT DEF StateInv, WellTyped
<1> QED
  BY <1>1, <1>3, <1>4, AssertValidInv, SameNode

-------------------------------------------------------------------------------
(***************************************************************************)
(* The order of the messages.                                              *)
(*                                                                         *)
(* A receiver drops a message that Compare does not find newer than the    *)
(* one it has.  Compare ignores the values and the bottom of the range.    *)
(* So a call of Handle that changes what the node would say must change    *)
(* the numbers that Compare looks at too, and the first of them that       *)
(* changes must rise.                                                      *)
(***************************************************************************)

\* The peers that block a node make a quorum with it: a commit that a node
\* accepts from a blocking set is confirmed in the same call.
BlockersAreQuorums ==
    \A n \in Nodes : \A B \in SUBSET (Nodes \ {n}) :
        BlockedBy(Slice[n], B) => MeetsQuorum(n, B \cup {n})

\* The first number that differs is higher in t.
Rises(s, t) ==
    \/ s.b.n < t.b.n
    \/ s.b.n = t.b.n /\ s.p.n < t.p.n
    \/ s.b.n = t.b.n /\ s.p.n = t.p.n /\ s.pPrime.n < t.pPrime.n
    \/ s.b.n = t.b.n /\ s.p.n = t.p.n /\ s.pPrime.n = t.pPrime.n /\ s.hn < t.hn

\* The node says the same in t as in s.
SaysTheSame(s, t) ==
    t.b = s.b /\ t.p = s.p /\ t.pPrime = s.pPrime /\ t.cn = s.cn /\ t.hn = s.hn

\* Where the calls of one step lead from s.  A ConfirmMessage is not followed by
\* another one.
Follows(s, t) ==
    \/ t.phase = "Externalize"
    \/ s.phase = "Prepare" /\ t.phase = "Confirm"
    \/ /\ s.phase = "Confirm" /\ t.phase = "Confirm"
       /\ t.b.x = s.b.x /\ t.p = s.p /\ t.cn = s.cn /\ t.hn = s.hn
    \/ s.phase = "Prepare" /\ t.phase = "Prepare" /\ (SaysTheSame(s, t) \/ Rises(s, t))

\* A node that has accepted a commit voted for it before, and goes on with it.
Settled(s) == s.phase = "Confirm" => s.z = s.b.x /\ s.cn # 0

\* The calls of a step lead forward, one after the other.
LEMMA FollowsTransitive ==
    ASSUME NEW s, NEW t, NEW u, WellTyped(s), WellTyped(t), WellTyped(u),
           Follows(s, t), Follows(t, u)
    PROVE  Follows(s, u)
<1>1. /\ s.b.n \in Nat /\ s.p.n \in Nat /\ s.pPrime.n \in Nat /\ s.hn \in Nat
      /\ t.b.n \in Nat /\ t.p.n \in Nat /\ t.pPrime.n \in Nat /\ t.hn \in Nat
      /\ u.b.n \in Nat /\ u.p.n \in Nat /\ u.pPrime.n \in Nat /\ u.hn \in Nat
  BY FieldTypes
<1>2. CASE u.phase = "Externalize"
  BY <1>2 DEF Follows
<1>3. CASE u.phase = "Confirm"
  <2>1. t.phase \in {"Prepare", "Confirm"}
    BY <1>3 DEF Follows
  <2> QED
    BY <1>3, <2>1 DEF Follows
<1>4. CASE u.phase = "Prepare"
  <2>1. /\ t.phase = "Prepare" /\ s.phase = "Prepare"
        /\ SaysTheSame(s, t) \/ Rises(s, t)
        /\ SaysTheSame(t, u) \/ Rises(t, u)
    BY <1>4 DEF Follows
  <2>2. CASE SaysTheSame(s, t)
    <3>1. SaysTheSame(s, u) \/ Rises(s, u)
      BY <2>1, <2>2 DEF SaysTheSame, Rises
    <3> QED
      BY <1>4, <2>1, <3>1 DEF Follows
  <2>3. CASE Rises(s, t) /\ SaysTheSame(t, u)
    <3>1. Rises(s, u)
      BY <2>3 DEF SaysTheSame, Rises
    <3> QED
      BY <1>4, <2>1, <3>1 DEF Follows
  <2>4. CASE Rises(s, t) /\ Rises(t, u)
    <3>1. Rises(s, u)
      BY <1>1, <2>4 DEF Rises
    <3> QED
      BY <1>4, <2>1, <3>1 DEF Follows
  <2> QED
    BY <2>1, <2>2, <2>3, <2>4
<1>5. u.phase \in {"Prepare", "Confirm", "Externalize"}
  BY DEF WellTyped, BallotStates, Phases
<1> QED
  BY <1>2, <1>3, <1>4, <1>5

\* A call that leaves the node's votes alone.
LEMMA SameFollows ==
    ASSUME NEW s, NEW t, WellTyped(s), t.phase = s.phase, t.z = s.z, SaysTheSame(s, t)
    PROVE  Follows(s, t) /\ (Settled(s) => Settled(t))
<1>1. s.phase \in {"Prepare", "Confirm", "Externalize"}
  BY DEF WellTyped, BallotStates, Phases
<1> QED
  BY <1>1 DEF Follows, Settled, SaysTheSame

\* MaybeAcceptAsPrepared.  Where the new ballot has the number of p and another
\* value, the old p becomes p', above the old p'.
LEMMA AcceptPreparedFollows ==
    ASSUME NEW s, StateInv(s), NEW n \in Nat \ {0}, NEW x \in Values,
           NEW t, t = MaybeAcceptAsPrepared(s, n, x)
    PROVE  Follows(s, t) /\ (Settled(s) => Settled(t))
<1>0. s \in BallotStates /\ WellTyped(s)
  BY DEF StateInv, WellTyped
<1>1. CASE ~CanAcceptAsPrepared(s, n, x)
  <2>1. t = s
    BY <1>1 DEF MaybeAcceptAsPrepared
  <2> QED
    BY <1>0, <2>1, SameFollows DEF SaysTheSame
<1>2. CASE CanAcceptAsPrepared(s, n, x)
  <2>1. PICK bal : bal = [n |-> n, x |-> x]
    OBVIOUS
  <2>2. bal.n = n /\ bal.x = x
    BY <2>1
  <2>3. /\ s.p.n \in Nat /\ s.pPrime.n \in Nat /\ s.phase = "Prepare"
        /\ s.p = NoBallot <=> s.p.n = 0
        /\ s.pPrime = NoBallot <=> s.pPrime.n = 0
        /\ ~(s.p # NoBallot /\ s.p.n >= n /\ s.p.x = x)
        /\ ~(s.pPrime # NoBallot /\ s.pPrime.n >= n)
    BY <1>0, <1>2, FieldTypes DEF CanAcceptAsPrepared
  <2>4. PICK r : r = RaisePrepared(s, bal)
    OBVIOUS
  <2>5. /\ r.phase = "Prepare" /\ r.b = s.b /\ r.hn = s.hn
        /\ s.p = NoBallot \/ s.p.x = x => r.p = bal /\ r.pPrime = s.pPrime
        /\ ~(s.p = NoBallot \/ s.p.x = x) /\ n >= s.p.n => r.p = bal /\ r.pPrime = s.p
        /\ ~(s.p = NoBallot \/ s.p.x = x) /\ ~(n >= s.p.n) => r.p = s.p /\ r.pPrime = bal
    BY <1>0, <2>2, <2>3, <2>4 DEF RaisePrepared, BallotStates
  <2>6. /\ r.phase = "Prepare" /\ r.b = s.b /\ r.hn = s.hn
        /\ \/ s.p.n < r.p.n
           \/ s.p.n = r.p.n /\ s.pPrime.n < r.pPrime.n
    BY <2>2, <2>3, <2>5
  <2>7. r \in BallotStates
    BY <1>0, <1>2, <2>1, <2>4, RaisePreparedKeeps DEF StateInv, PreparedRaised
  <2>8. t = r \/ t = [r EXCEPT !.cn = 0]
    BY <1>2, <2>1, <2>4 DEF MaybeAcceptAsPrepared, AbortCommit
  <2>9. /\ t.phase = r.phase /\ t.b = r.b /\ t.hn = r.hn /\ t.p = r.p /\ t.pPrime = r.pPrime
    BY <2>7, <2>8 DEF BallotStates
  <2> QED
    BY <2>3, <2>6, <2>9 DEF Follows, Rises, Settled
<1> QED
  BY <1>1, <1>2

\* MaybeConfirmAsPrepared.  Where a second value is confirmed at the same number,
\* there was no vote to commit.
LEMMA ConfirmPreparedFollows ==
    ASSUME NEW s, StateInv(s), NEW n \in Nat \ {0}, NEW x \in Values,
           NEW t, t = MaybeConfirmAsPrepared(s, n, x)
    PROVE  Follows(s, t) /\ (Settled(s) => Settled(t))
<1>0. s \in BallotStates /\ WellTyped(s) /\ s.hn \in Nat /\ s.cn \in Nat /\ s.b.n \in Nat
  BY FieldTypes DEF StateInv, WellTyped
<1>1. CASE ~CanConfirmAsPrepared(s, n, x)
  <2>1. t = s
    BY <1>1 DEF MaybeConfirmAsPrepared
  <2> QED
    BY <1>0, <2>1, SameFollows DEF SaysTheSame
<1>2. CASE CanConfirmAsPrepared(s, n, x)
  <2>1. PICK bal : bal = [n |-> n, x |-> x]
    OBVIOUS
  <2>2. bal.n = n /\ bal.x = x
    BY <2>1
  <2>3. s.phase = "Prepare" /\ s.hn <= n /\ (s.hn = n => s.z # Nil /\ s.z # x)
    BY <1>2 DEF CanConfirmAsPrepared
  <2>4. CASE s.hn = n
    <3>1. t = [s EXCEPT !.cn = 0, !.z = Nil]
      BY <1>2, <2>4 DEF MaybeConfirmAsPrepared
    <3>2. gtecompat(s.p, bal) \/ gtecompat(s.pPrime, bal)
      <4> DEFINE S == {j \in Heard(s) : AcceptAsPrepared(s.M[j], n, x)}
      <4>1. IsQuorum(s, Us(s, gtecompat(s.p, bal) \/ gtecompat(s.pPrime, bal)) \cup S)
        BY <1>2, <2>1 DEF CanConfirmAsPrepared
      <4>2. S \in SUBSET Heard(s)
        OBVIOUS
      <4>3. (gtecompat(s.p, bal) \/ gtecompat(s.pPrime, bal)) \in BOOLEAN
        BY DEF gtecompat
      <4> HIDE DEF S
      <4> QED
        BY <1>0, <4>1, <4>2, <4>3, QuorumOpinion
    <3>3. PICK q \in {s.p, s.pPrime} : q # NoBallot /\ q.n >= n /\ q.x = x
      BY <2>2, <3>2 DEF gtecompat
    <3>4. q.n \in Nat
      BY <1>0, FieldTypes
    <3>5. s.cn = 0
      <4> SUFFICES ASSUME s.cn # 0 PROVE FALSE
        OBVIOUS
      <4>1. s.z = s.b.x
        BY <2>3 DEF StateInv, CommitVoteIsNext
      <4>2. s.b # NoBallot /\ q.x # s.b.x
        BY <2>3, <2>4, <3>3, <4>1 DEF StateInv, BallotKnown
      <4>3. s.hn > q.n
        BY <2>3, <3>3, <4>2 DEF StateInv, CommitNotAborted
      <4> QED
        BY <1>0, <2>4, <3>3, <3>4, <4>3
    <3>6. /\ t.phase = s.phase /\ t.b = s.b /\ t.p = s.p /\ t.pPrime = s.pPrime
          /\ t.hn = s.hn /\ t.cn = s.cn
      BY <1>0, <3>1, <3>5 DEF BallotStates
    <3> QED
      BY <2>3, <3>6 DEF Follows, SaysTheSame, Settled
  <2>5. CASE s.hn # n
    <3>1. StateInv(t)
      BY ConfirmPreparedInv
    <3>2. ~(s.cn > 0 /\ x # s.b.x)
      <4> SUFFICES ASSUME s.cn > 0 /\ x # s.b.x PROVE FALSE
        OBVIOUS
      <4>1. t = [s EXCEPT !.fatal = TRUE]
        BY <1>2, <2>5 DEF MaybeConfirmAsPrepared
      <4>2. t.fatal
        BY <1>0, <4>1 DEF BallotStates
      <4> QED
        BY <3>1, <4>2 DEF StateInv
    <3>3. t = RaiseConfirmed(s, bal)
      BY <1>2, <2>1, <2>5, <3>2 DEF MaybeConfirmAsPrepared
    <3>4. /\ t.phase = s.phase /\ t.p = s.p /\ t.pPrime = s.pPrime /\ t.hn = n
          /\ t.b = IF s.b = NoBallot THEN bal ELSE s.b
      BY <1>0, <2>2, <3>3 DEF RaiseConfirmed, BallotStates
    <3>5. s.b.n < t.b.n \/ t.b = s.b
      BY <1>0, <2>2, <3>4 DEF NoBallot
    <3>6. s.hn < t.hn
      BY <1>0, <2>3, <2>5, <3>4
    <3> QED
      BY <2>3, <3>4, <3>5, <3>6 DEF Follows, Rises, Settled
  <2> QED
    BY <2>4, <2>5
<1> QED
  BY <1>1, <1>2

\* MaybeConfirmAsCommitted changes what the node says only to externalize.
LEMMA ConfirmCommittedFollows ==
    ASSUME NEW s, StateInv(s), NEW n, NEW x, NEW t, t = MaybeConfirmAsCommitted(s, n, x)
    PROVE  t = s \/ t.phase = "Externalize"
<1>1. s \in BallotStates
  BY DEF StateInv, WellTyped
<1>2. CASE ~CanConfirmAsCommitted(s, n, x)
  BY <1>2 DEF MaybeConfirmAsCommitted
<1>3. CASE CanConfirmAsCommitted(s, n, x)
  <2>1. s.phase \in {"Confirm", "Externalize"}
    BY <1>1, <1>3 DEF CanConfirmAsCommitted, BallotStates, Phases
  <2>2. CASE s.phase = "Confirm"
    BY <1>1, <1>3, <2>2 DEF MaybeConfirmAsCommitted, BallotStates
  <2>3. CASE s.phase = "Externalize"
    BY <1>1, <1>3, <2>3 DEF MaybeConfirmAsCommitted, WidenRange, BallotStates
  <2> QED
    BY <2>1, <2>2, <2>3
<1> QED
  BY <1>2, <1>3

\* A commit is accepted with the node's own vote for it, or because a blocking
\* set has accepted it.
LEMMA CommitVoteOrBlocked ==
    ASSUME NEW s, StateInv(s), NEW n, NEW x, CanAcceptAsCommitted(s, n, x)
    PROVE  \/ /\ s.phase = "Prepare" /\ s.b # NoBallot /\ s.b.x = x
              /\ s.cn # 0 /\ s.cn <= n /\ n <= s.hn
           \/ IsBlocked(s, {j \in Heard(s) : AcceptAsCommitted(s.M[j], n, x)})
<1> DEFINE A == {j \in Heard(s) : AcceptAsCommitted(s.M[j], n, x)}
           V == {j \in Heard(s) : VoteToCommit(s.M[j], n, x)}
           own == /\ s.phase = "Prepare" /\ s.b # NoBallot /\ s.b.x = x
                  /\ s.cn # 0 /\ s.cn <= n /\ n <= s.hn
<1>1. IsQuorum(s, A \cup V \cup Us(s, own)) \/ IsBlocked(s, A)
  BY DEF CanAcceptAsCommitted
<1>2. A \cup V \in SUBSET Heard(s) /\ WellTyped(s)
  BY DEF StateInv
<1>3. A \cup V \cup Us(s, own) = Us(s, own) \cup (A \cup V)
  OBVIOUS
<1>4. own \in BOOLEAN
  OBVIOUS
<1>5. PICK S \in SUBSET Heard(s) : S = A \cup V
  BY <1>2
<1>6. ASSUME IsQuorum(s, A \cup V \cup Us(s, own)) PROVE own
  <2>1. IsQuorum(s, Us(s, own) \cup S)
    BY <1>3, <1>5, <1>6
  <2> HIDE DEF own
  <2> QED
    BY <1>2, <1>4, <2>1, QuorumOpinion
<1> QED
  BY <1>1, <1>6

\* MaybeAcceptAsCommitted, with the call of MaybeConfirmAsCommitted that follows
\* it.  A range that a blocking set widens or replaces is never sent in a
\* ConfirmMessage: the node externalizes in the second call.
LEMMA CommitFollows ==
    ASSUME BlockersAreQuorums,
           NEW s, StateInv(s), s.publicKey \in Nodes, Settled(s),
           NEW n \in Nat \ {0}, NEW x \in Values,
           NEW r, r = MaybeAcceptAsCommitted(s, n, x),
           NEW t, t = MaybeConfirmAsCommitted(r, n, x)
    PROVE  Follows(s, t) /\ Settled(t)
<1>0. /\ s \in BallotStates /\ WellTyped(s)
      /\ s.cn \in Nat /\ s.hn \in Nat /\ s.cn <= s.hn
  BY FieldTypes DEF StateInv, WellTyped, ValidRange
<1>1. StateInv(r)
  BY AcceptCommittedInv
<1>2. t = r \/ t.phase = "Externalize"
  BY <1>1, ConfirmCommittedFollows
<1>3. CASE t.phase = "Externalize"
  BY <1>3 DEF Follows, Settled
<1>4. CASE t = r /\ ~CanAcceptAsCommitted(s, n, x)
  <2>1. t = s
    BY <1>4 DEF MaybeAcceptAsCommitted
  <2> QED
    BY <1>0, <2>1, SameFollows DEF SaysTheSame
<1>5. CASE t = r /\ CanAcceptAsCommitted(s, n, x)
  <2>1. CASE /\ s.phase = "Prepare" /\ s.b # NoBallot /\ s.b.x = x
             /\ s.cn # 0 /\ s.cn <= n /\ n <= s.hn
    <3>1. r = WidenRange([s EXCEPT !.phase = "Confirm"], n)
      BY <1>5, <2>1 DEF MaybeAcceptAsCommitted
    <3>2. r.phase = "Confirm" /\ r.b = s.b /\ r.z = s.z /\ r.cn = s.cn
      BY <1>0, <2>1, <3>1, SMT DEF WidenRange, BallotStates
    <3>3. s.z = s.b.x
      BY <2>1 DEF StateInv, CommitVoteIsNext
    <3> QED
      BY <1>5, <2>1, <3>2, <3>3 DEF Follows, Settled
  <2>2. CASE IsBlocked(s, {j \in Heard(s) : AcceptAsCommitted(s.M[j], n, x)})
    <3> DEFINE B == {j \in Heard(s) : AcceptAsCommitted(s.M[j], n, x)}
    <3>1. /\ r.phase = "Confirm" /\ r.M = s.M /\ r.publicKey = s.publicKey
          /\ r.b # NoBallot /\ r.b.x = x /\ r.cn <= n /\ n <= r.hn
      <4>1. CASE s.b = NoBallot \/ s.b.x # x
        <5>1. r = [s EXCEPT !.phase = "Confirm", !.b = [n |-> n, x |-> x],
                            !.cn = n, !.hn = n, !.z = x]
          BY <1>5, <4>1 DEF MaybeAcceptAsCommitted
        <5>2. /\ r.phase = "Confirm" /\ r.M = s.M /\ r.publicKey = s.publicKey
              /\ r.b = [n |-> n, x |-> x] /\ r.cn = n /\ r.hn = n
          BY <1>0, <5>1 DEF BallotStates
        <5> QED
          BY <5>2 DEF NoBallot
      <4>2. CASE ~(s.b = NoBallot \/ s.b.x # x)
        <5>1. r = WidenRange([s EXCEPT !.phase = "Confirm"], n)
          BY <1>5, <4>2 DEF MaybeAcceptAsCommitted
        <5> QED
          BY <1>0, <4>2, <5>1, SMT DEF WidenRange, BallotStates
      <4> QED
        BY <4>1, <4>2
    <3>2. PICK a \in Nodes : a = s.publicKey
      OBVIOUS
    <3>3. B \in SUBSET (Nodes \ {a}) /\ BlockedBy(Slice[a], B)
      BY <1>0, <2>2, <3>2 DEF Heard, IsBlocked, WellTyped
    <3>4. MeetsQuorum(a, B \cup {a})
      <4> HIDE DEF B
      <4> QED
        BY <3>3 DEF BlockersAreQuorums
    <3>5. Us(r, r.phase = "Confirm" /\ r.cn <= n /\ n <= r.hn) = {a}
      BY <3>1, <3>2 DEF Us
    <3>6. {a} \cup B = B \cup {a} /\ B = {j \in Heard(r) : AcceptAsCommitted(r.M[j], n, x)}
      BY <3>1 DEF Heard
    <3>7. IsQuorum(r, Us(r, r.phase = "Confirm" /\ r.cn <= n /\ n <= r.hn)
                      \cup {j \in Heard(r) : AcceptAsCommitted(r.M[j], n, x)})
      BY <3>1, <3>2, <3>4, <3>5, <3>6 DEF IsQuorum
    <3>8. CanConfirmAsCommitted(r, n, x)
      BY <3>1, <3>7 DEF CanConfirmAsCommitted
    <3>9. t = [r EXCEPT !.phase = "Externalize", !.cn = n, !.hn = n]
      BY <3>1, <3>8 DEF MaybeConfirmAsCommitted
    <3>10. t.phase = "Externalize"
      BY <1>1, <3>9 DEF StateInv, WellTyped, BallotStates
    <3> QED
      BY <3>10 DEF Follows, Settled
  <2> QED
    BY <1>5, <2>1, <2>2, CommitVoteOrBlocked
<1> QED
  BY <1>2, <1>3, <1>4, <1>5

\* One round of InvestigateBallot.
LEMMA InvestigateFollows ==
    ASSUME BlockersAreQuorums,
           NEW s, StateInv(s), s.publicKey \in Nodes, Settled(s),
           NEW n \in Nat, NEW x \in Values, NEW t, t = InvestigateBallot(s, n, x)
    PROVE  Follows(s, t) /\ Settled(t)
<1>1. CASE n < 1
  <2>1. t = s
    BY <1>1 DEF InvestigateBallot
  <2> QED
    BY <2>1, SameFollows DEF SaysTheSame, StateInv
<1>2. CASE n >= 1
  <2>1. PICK s1 : s1 = MaybeAcceptAsPrepared(s, n, x)
    OBVIOUS
  <2>2. PICK s2 : s2 = MaybeConfirmAsPrepared(s1, n, x)
    OBVIOUS
  <2>3. PICK s3 : s3 = MaybeAcceptAsCommitted(s2, n, x)
    OBVIOUS
  <2>4. t = MaybeConfirmAsCommitted(s3, n, x) /\ n \in Nat \ {0}
    BY <1>2, <2>1, <2>2, <2>3 DEF InvestigateBallot
  <2>5. StateInv(s1) /\ s1.publicKey = s.publicKey
    BY <2>1, <2>4, AcceptPreparedInv, SameNode, SMT DEF StateInv, WellTyped
  <2>6. StateInv(s2) /\ s2.publicKey = s.publicKey
    BY <2>2, <2>4, <2>5, ConfirmPreparedInv, SameNode, SMT DEF StateInv, WellTyped
  <2>7. StateInv(s3)
    BY <2>3, <2>4, <2>6, AcceptCommittedInv
  <2>8. StateInv(t)
    BY <2>4, <2>7, ConfirmCommittedInv
  <2>9. Follows(s, s1) /\ Settled(s1)
    BY <2>1, <2>4, AcceptPreparedFollows
  <2>10. Follows(s1, s2) /\ Settled(s2)
    BY <2>2, <2>4, <2>5, <2>9, ConfirmPreparedFollows
  <2>11. Follows(s2, t) /\ Settled(t)
    BY <2>3, <2>4, <2>6, <2>10, CommitFollows
  <2>12. WellTyped(s) /\ WellTyped(s1) /\ WellTyped(s2) /\ WellTyped(t)
    BY <2>5, <2>6, <2>8 DEF StateInv
  <2>13. Follows(s, s2)
    BY <2>9, <2>10, <2>12, FollowsTransitive
  <2> QED
    BY <2>11, <2>12, <2>13, FollowsTransitive
<1> QED
  BY <1>1, <1>2

\* GoToNextBallot raises the ballot, or does nothing; after the Prepare phase
\* the next ballot has the same value and the node says the same.
LEMMA NextBallotFollows ==
    ASSUME NEW s, StateInv(s), Settled(s), NEW cand \in SlotValues,
           NEW t, t = GoToNextBallot(s, cand)
    PROVE  Follows(s, t) /\ Settled(t)
<1>0. /\ s \in BallotStates /\ WellTyped(s) /\ s.b.n \in Nat
      /\ s.phase \in {"Prepare", "Confirm", "Externalize"}
      /\ s.b = NoBallot <=> s.b.x = Nil
  BY FieldTypes DEF StateInv, WellTyped, BallotStates, Phases
<1>1. CASE NextValue(s, cand) = Nil
  <2>1. t = s
    BY <1>1 DEF GoToNextBallot
  <2> QED
    BY <1>0, <2>1, SameFollows DEF SaysTheSame
<1>2. CASE NextValue(s, cand) # Nil
  <2>1. PICK v : v = NextValue(s, cand)
    OBVIOUS
  <2>2. PICK b1 : b1 = [n |-> s.b.n + 1, x |-> v]
    OBVIOUS
  <2>3. b1.n = s.b.n + 1 /\ b1.x = v
    BY <2>2
  <2>4. PICK u : u = [s EXCEPT !.b = b1]
    OBVIOUS
  <2>5. /\ u.phase = s.phase /\ u.b = b1 /\ u.p = s.p /\ u.z = s.z
        /\ u.cn = s.cn /\ u.hn = s.hn
        /\ [u EXCEPT !.cn = b1.n].phase = s.phase /\ [u EXCEPT !.cn = b1.n].b = b1
    BY <1>0, <2>4 DEF BallotStates
  <2>6. \/ t = u
        \/ t = [u EXCEPT !.cn = b1.n] /\ s.cn = 0
    BY <1>2, <2>1, <2>2, <2>3, <2>4, <2>5 DEF GoToNextBallot
  <2>7. t.phase = s.phase /\ t.b = b1
    BY <2>5, <2>6
  <2>8. CASE s.phase = "Prepare"
    <3>1. s.b.n < t.b.n
      BY <1>0, <2>3, <2>7
    <3> QED
      BY <2>7, <2>8, <3>1 DEF Follows, Rises, Settled
  <2>9. CASE s.phase = "Confirm"
    <3>1. s.z = s.b.x /\ s.cn # 0 /\ s.b # NoBallot
      BY <2>9 DEF Settled, StateInv, BallotKnown
    <3>2. v = s.b.x
      BY <1>0, <2>1, <3>1 DEF NextValue
    <3>3. t = u
      BY <2>6, <3>1
    <3> QED
      BY <2>3, <2>5, <2>9, <3>1, <3>2, <3>3 DEF Follows, Settled
  <2>10. CASE s.phase = "Externalize"
    BY <2>7, <2>10 DEF Follows, Settled
  <2> QED
    BY <1>0, <2>8, <2>9, <2>10
<1> QED
  BY <1>1, <1>2

\* AssertValid keeps the votes.
LEMMA AssertFollows ==
    ASSUME NEW s, StateInv(s), NEW t, t = AssertValid(s)
    PROVE  Follows(s, t) /\ (Settled(s) => Settled(t))
<1>1. s \in BallotStates /\ WellTyped(s)
  BY DEF StateInv, WellTyped
<1>2. /\ t.phase = s.phase /\ t.z = s.z /\ t.b = s.b /\ t.p = s.p /\ t.pPrime = s.pPrime
      /\ t.cn = s.cn /\ t.hn = s.hn
  BY <1>1 DEF AssertValid, BallotStates
<1> QED
  BY <1>1, <1>2, SameFollows DEF SaysTheSame

\* A message that is not new.
LEMMA DuplicateFollows ==
    ASSUME NEW s, StateInv(s), Settled(s), NEW node \in Nodes, NEW cand \in SlotValues,
           NEW t, t = AssertValid(HandleDuplicate(s, node, cand))
    PROVE  Follows(s, t) /\ Settled(t)
<1>1. /\ s \in BallotStates /\ WellTyped(s) /\ s.M[s.publicKey] = Nil
      /\ s.stale \in [Nodes -> Nat]
  BY DEF StateInv, WellTyped, BallotStates
<1>2. PICK r : r = [s EXCEPT !.stale[node] = IF @ < StaleLimit THEN @ + 1 ELSE @]
  OBVIOUS
<1>3. r \in BallotStates /\ r = [s EXCEPT !.M = r.M, !.stale = r.stale] /\ r.M = s.M
  <2>1. PICK c \in Nat : c = IF s.stale[node] < StaleLimit THEN s.stale[node] + 1
                                                        ELSE s.stale[node]
    BY <1>1, StaleLimitAssumption, SMT
  <2>2. r = [s EXCEPT !.stale = [s.stale EXCEPT ![node] = c]]
    BY <2>1, <1>1, <1>2 DEF BallotStates
  <2>3. [s.stale EXCEPT ![node] = c] \in [Nodes -> Nat]
    BY <1>1
  <2> QED
    BY <2>2, <2>3, <1>1 DEF BallotStates
<1>4. PICK w : w = [r EXCEPT !.stale = [n \in Nodes |-> 0]]
  OBVIOUS
<1>5. w \in BallotStates /\ w = [s EXCEPT !.M = w.M, !.stale = w.stale] /\ w.M = s.M
  BY <1>1, <1>3, <1>4, ZenonT(60) DEF BallotStates
<1>6. PICK h : h = HandleDuplicate(s, node, cand)
  OBVIOUS
<1>7. h = r \/ h = w \/ h = GoToNextBallot(w, cand)
  BY <1>2, <1>4, <1>6 DEF HandleDuplicate, CheckIfStale, HandleStaleQuorum
<1>8. StateInv(w) /\ StateInv(r)
  BY <1>1, <1>3, <1>5, QuietStep
<1>9. Follows(s, r) /\ Settled(r) /\ Follows(s, w) /\ Settled(w)
  <2>1. /\ r.phase = s.phase /\ r.z = s.z /\ r.b = s.b /\ r.p = s.p
        /\ r.pPrime = s.pPrime /\ r.cn = s.cn /\ r.hn = s.hn
    BY <1>1, <1>3 DEF BallotStates
  <2>2. /\ w.phase = s.phase /\ w.z = s.z /\ w.b = s.b /\ w.p = s.p
        /\ w.pPrime = s.pPrime /\ w.cn = s.cn /\ w.hn = s.hn
    BY <1>1, <1>5 DEF BallotStates
  <2>3. SaysTheSame(s, r) /\ SaysTheSame(s, w)
    BY <2>1, <2>2 DEF SaysTheSame
  <2> QED
    BY <1>1, <2>1, <2>2, <2>3, SameFollows
<1>10. StateInv(h) /\ Follows(s, h) /\ Settled(h)
  <2>1. CASE h = GoToNextBallot(w, cand)
    <3>1. StateInv(h)
      BY <1>8, <2>1, GoToNextBallotInv
    <3>2. Follows(w, h) /\ Settled(h)
      BY <1>8, <1>9, <2>1, NextBallotFollows
    <3>3. WellTyped(w) /\ WellTyped(h)
      BY <1>8, <3>1 DEF StateInv
    <3> QED
      BY <1>1, <1>9, <3>1, <3>2, <3>3, FollowsTransitive
  <2> QED
    BY <1>7, <1>8, <1>9, <2>1
<1>11. StateInv(t) /\ Follows(h, t) /\ Settled(t)
  BY <1>6, <1>10, AssertFollows, AssertValidInv
<1> QED
  BY <1>1, <1>10, <1>11, FollowsTransitive DEF StateInv

\* The message of a state that follows is the same, or newer by Compare.
LEMMA FollowsIsNewer ==
    ASSUME NEW s, NEW t, StateInv(s), StateInv(t), s.phase # "Externalize", Follows(s, t)
    PROVE  Message(t) = Message(s) \/ Newer(Message(s), Message(t))
<1>1. PICK k : k = CompareKey(Message(s))
  OBVIOUS
<1>2. PICK l : l = CompareKey(Message(t))
  OBVIOUS
<1>3. Newer(Message(s), Message(t)) <=>
        \E i \in 1..5 : k[i] < l[i] /\ \A j \in 1..(i-1) : k[j] = l[j]
  BY <1>1, <1>2 DEF Newer
<1>4. /\ s.b.n \in Nat /\ s.p.n \in Nat /\ s.pPrime.n \in Nat /\ s.hn \in Nat
      /\ t.b.n \in Nat /\ t.p.n \in Nat /\ t.pPrime.n \in Nat /\ t.hn \in Nat
      /\ s.phase \in {"Prepare", "Confirm"}
      /\ t.phase \in {"Prepare", "Confirm", "Externalize"}
  BY FieldTypes DEF StateInv, WellTyped, BallotStates, Phases
<1>5. /\ s.phase = "Prepare" => k = <<1, s.b.n, s.p.n, s.pPrime.n, s.hn>>
      /\ s.phase = "Confirm" => k = <<2, s.p.n, s.hn, 0, 0>>
  BY <1>1 DEF CompareKey, Message
<1>6. /\ t.phase = "Prepare" => l = <<1, t.b.n, t.p.n, t.pPrime.n, t.hn>>
      /\ t.phase = "Confirm" => l = <<2, t.p.n, t.hn, 0, 0>>
      /\ t.phase = "Externalize" => l = <<3, t.hn, 0, 0, 0>>
  BY <1>2 DEF CompareKey, Message
<1>7. CASE k[1] < l[1]
  BY <1>3, <1>7
<1>8. CASE s.phase = "Prepare" /\ t.phase = "Prepare"
  <2>1. CASE SaysTheSame(s, t)
    BY <1>8, <2>1 DEF SaysTheSame, Message
  <2>2. CASE Rises(s, t)
    <3>1. /\ k[1] = 1 /\ k[2] = s.b.n /\ k[3] = s.p.n /\ k[4] = s.pPrime.n /\ k[5] = s.hn
          /\ l[1] = 1 /\ l[2] = t.b.n /\ l[3] = t.p.n /\ l[4] = t.pPrime.n /\ l[5] = t.hn
      BY <1>5, <1>6, <1>8
    <3>2. \E i \in 1..5 : k[i] < l[i] /\ \A j \in 1..(i-1) : k[j] = l[j]
      <4>1. CASE k[2] < l[2]
        <5>1. \A j \in 1..(2-1) : k[j] = l[j]
          BY <3>1
        <5> QED
          BY <4>1, <5>1
      <4>2. CASE k[2] = l[2] /\ k[3] < l[3]
        <5>1. \A j \in 1..(3-1) : k[j] = l[j]
          BY <3>1, <4>2
        <5> QED
          BY <4>2, <5>1, SMT
      <4>3. CASE k[2] = l[2] /\ k[3] = l[3] /\ k[4] < l[4]
        <5>1. \A j \in 1..(4-1) : k[j] = l[j]
          BY <3>1, <4>3
        <5> QED
          BY <4>3, <5>1, SMT
      <4>4. CASE k[2] = l[2] /\ k[3] = l[3] /\ k[4] = l[4] /\ k[5] < l[5]
        <5>1. \A j \in 1..(5-1) : k[j] = l[j]
          BY <3>1, <4>4
        <5> QED
          BY <4>4, <5>1, SMT
      <4> QED
        BY <2>2, <3>1, <4>1, <4>2, <4>3, <4>4 DEF Rises
    <3> QED
      BY <1>3, <3>2
  <2> QED
    BY <1>8, <2>1, <2>2 DEF Follows
<1>9. CASE s.phase = "Confirm" /\ t.phase = "Confirm"
  BY <1>9 DEF Follows, Message
<1>10. CASE t.phase = "Externalize" \/ (s.phase = "Prepare" /\ t.phase = "Confirm")
  <2>1. k[1] < l[1]
    BY <1>4, <1>5, <1>6, <1>10
  <2> QED
    BY <1>7, <2>1
<1> QED
  BY <1>4, <1>8, <1>9, <1>10 DEF Follows

-------------------------------------------------------------------------------
(***************************************************************************)
(* Votes.                                                                  *)
(*                                                                         *)
(* The argument is about what each node has said (the messages of it that  *)
(* can still arrive or that a peer has stored) and what it would say now   *)
(* (the message of its state), given as functions of the nodes, with the   *)
(* set of the nodes that have externalized and a set of nodes that forgot  *)
(* what they said, because they restarted.                                 *)
(***************************************************************************)
Quorums == {Q \in SUBSET Nodes : Q # {} /\ SelfSufficient(Q)}

\* Two quorums share a node that has not forgotten its votes.
QuorumsShare(F) == \A P, Q \in Quorums : \E v \in P \cap Q : v \notin F

\* The sets of peers that block a node make a quorum with it, and share a node.
\* A node whose ballot is for x may accept the commit of x from a blocking set
\* while the value it would go on with is another one, and it does not change
\* that value (MaybeAcceptAsCommitted): it must externalize at once.
BlockersDecide ==
    \A n \in Nodes : \A B \in SUBSET (Nodes \ {n}) :
        BlockedBy(Slice[n], B) =>
            /\ MeetsQuorum(n, B \cup {n})
            /\ \A C \in SUBSET (Nodes \ {n}) :
                 BlockedBy(Slice[n], C) => B \cap C # {}

\* A vote to commit cast in the Prepare phase: a ConfirmMessage stands for
\* votes at every number, but the first commit accepted was accepted without.
VotesCommit(m, n, x) ==
    m.type = "Prepare" /\ m.Bx = x /\ m.Cn # 0 /\ m.Cn <= n /\ n <= m.Hn

\* The sender has accepted that the ballot is aborted.
Aborts(m, n, x) ==
    /\ m.type = "Prepare"
    /\ (m.Pn >= n /\ m.Px # x) \/ (m.Ppn >= n /\ m.Ppx # x)

\* What was said in m is still what the node stands for when it would say c:
\* ballots went up, a vote to commit is for ballots above those of other
\* values, and it was kept or aborted.
Behind(m, c) ==
    /\ m.Bn <= c.Bn /\ (m.Bn = c.Bn => m.Bx = c.Bx)
    /\ c.Cn # 0 /\ m.Bx # c.Bx => m.Bn < c.Cn
    /\ m.Cn # 0 => \/ c.Cn = m.Cn /\ c.Bx = m.Bx /\ m.Hn <= c.Hn
                   \/ Aborts(c, m.Hn, m.Bx)

\* u has not voted to commit the ballot, and never will.
Refuses(said, cur, done, u, n, x) ==
    /\ \A m \in said[u] \cup {cur[u]} : ~VotesCommit(m, n, x)
    /\ \/ u \in done
       \/ cur[u].type # "Prepare"
       \/ /\ cur[u].Bn >= n /\ (cur[u].Bn = n => cur[u].Bx # x)
          /\ cur[u].Cn # 0 /\ cur[u].Bx = x => cur[u].Cn > n

\* v votes to commit the ballot, or went on to accept the commit.
Locked(said, cur, done, v, n, x) ==
    /\ \A m \in said[v] \cup {cur[v]} :
         m.type = "Prepare" /\ m.Bx # x => m.Bn < n
    /\ \/ v \in done
       \/ cur[v].type # "Prepare"
       \/ VotesCommit(cur[v], n, x)

QuorumRefuses(said, cur, done, F, n, x) ==
    \E Q \in Quorums : \A u \in Q \ F : Refuses(said, cur, done, u, n, x)

\* No commit has been accepted.  Every ballot whose abort was accepted is
\* refused by a quorum.
Undecided(said, cur, done, F) ==
    /\ done = {}
    /\ \A v \in Nodes : \A m \in said[v] \cup {cur[v]} : m.type = "Prepare"
    /\ \A v \in Nodes \ F : \A m \in said[v] : Behind(m, cur[v])
    /\ \A n \in Nat \ {0}, x \in Values :
         (\E v \in Nodes : \E m \in said[v] \cup {cur[v]} : Aborts(m, n, x))
            => QuorumRefuses(said, cur, done, F, n, x)

\* A quorum voted to commit the ballot <<n, x>>.  Nobody has accepted its abort
\* or the commit of another value, and no commit of a lower ballot can be.
Decided(said, cur, done, F, n, x) ==
    /\ \E Q \in Quorums : \A v \in Q \ F : Locked(said, cur, done, v, n, x)
    /\ \A v \in Nodes : \A m \in said[v] \cup {cur[v]} :
         ~Aborts(m, n, x) /\ (m.type # "Prepare" => m.X = x)
    /\ \A k \in Nat \ {0}, y \in Values :
         k < n /\ y # x => QuorumRefuses(said, cur, done, F, k, y)

Protected(said, cur, done, F) ==
    \/ Undecided(said, cur, done, F)
    \/ \E n \in Nat \ {0}, x \in Values : Decided(said, cur, done, F, n, x)

-------------------------------------------------------------------------------
(***************************************************************************)
(* What a node would say, as a function of its state.                      *)
(***************************************************************************)

\* A message, or that of a node without a ballot.
Words ==
    [type : {"Prepare"}, Bn : Nat, Bx : SlotValues, Pn : Nat, Px : SlotValues,
     Ppn : Nat, Ppx : SlotValues, Cn : Nat, Hn : Nat]
    \cup ConfirmMessages \cup ExternalizeMessages

\* Who votes to commit has accepted the abort of every other value up to the
\* top of the range.
Sound(m) ==
    m.type = "Prepare" /\ m.Cn # 0 =>
        m.Cn <= m.Hn /\ \A y \in Values : y # m.Bx => Aborts(m, m.Hn, y)

\* d keeps what c says: Keeps of the states, as the peers see it.
KeepsWord(c, d) ==
    /\ c.type = "Prepare" /\ d.type = "Prepare"
    /\ c.Bn <= d.Bn /\ (c.Bn = d.Bn => c.Bx = d.Bx)
    /\ d.Cn # 0 => d.Cn = d.Bn \/ (d.Cn = c.Cn /\ d.Bx = c.Bx)
    /\ c.Cn # 0 => /\ d.Bx = c.Bx /\ c.Hn <= d.Hn
                   /\ d.Cn = c.Cn \/ (d.Cn = 0 /\ Aborts(d, c.Hn, c.Bx))
    /\ \A n \in Nat \ {0}, x \in Values : Aborts(c, n, x) => Aborts(d, n, x)

\* The fields of what nodes say.
LEMMA WordFields ==
    ASSUME NEW m \in Words
    PROVE  /\ m.type = "Prepare" =>
                /\ m.Bn \in Nat /\ m.Bx \in SlotValues
                /\ m.Pn \in Nat /\ m.Px \in SlotValues
                /\ m.Ppn \in Nat /\ m.Ppx \in SlotValues
                /\ m.Cn \in Nat /\ m.Hn \in Nat
           /\ m.type # "Prepare" => m.X \in Values
BY DEF Words, ConfirmMessages, ExternalizeMessages

\* What can be sent can be said.
LEMMA MessagesAreWords == Messages \subseteq Words
BY DEF Messages, Words, PrepareMessages, SlotValues

\* The message of a state shows its fields.
LEMMA MessageFields ==
    ASSUME NEW s
    PROVE  /\ s.phase = "Prepare" =>
                LET m == Message(s)
                IN  /\ m.type = "Prepare" /\ m.Bn = s.b.n /\ m.Bx = s.b.x
                    /\ m.Pn = s.p.n /\ m.Px = s.p.x
                    /\ m.Ppn = s.pPrime.n /\ m.Ppx = s.pPrime.x
                    /\ m.Cn = s.cn /\ m.Hn = s.hn
           /\ s.phase \in {"Confirm", "Externalize"} =>
                Message(s).type = s.phase /\ Message(s).X = s.b.x
BY DEF Message

\* Every state has something to say, and it is sound.
LEMMA MessageIsWord ==
    ASSUME NEW s, StateInv(s)
    PROVE  Message(s) \in Words /\ Sound(Message(s))
<1>0. s.phase \in {"Prepare", "Confirm", "Externalize"}
  BY DEF StateInv, WellTyped, BallotStates, Phases
<1>1. /\ s.cn \in Nat /\ s.hn \in Nat
      /\ s.b.n \in Nat /\ s.b.x \in SlotValues
      /\ s.p.n \in Nat /\ s.p.x \in SlotValues
      /\ s.pPrime.n \in Nat /\ s.pPrime.x \in SlotValues
      /\ s.pPrime # NoBallot <=> s.pPrime.n > 0
  BY FieldTypes DEF StateInv
<1>2. Message(s) \in Words
  <2>1. CASE s.phase = "Prepare"
    BY <1>1, <2>1 DEF Message, Words
  <2>2. CASE s.phase # "Prepare"
    <3>1. s.b # NoBallot
      BY <2>2 DEF StateInv, BallotKnown
    <3>2. s.b.x \in Values
      BY <3>1, FieldTypes DEF StateInv, SlotValues
    <3>3. CASE s.phase = "Confirm"
      BY <1>1, <3>2, <3>3 DEF Message, Words, ConfirmMessages
    <3>4. CASE s.phase = "Externalize"
      BY <1>1, <3>2, <3>4 DEF Message, Words, ExternalizeMessages
    <3> QED
      BY <1>0, <2>2, <3>3, <3>4
  <2> QED
    BY <2>1, <2>2
<1>3. Sound(Message(s))
  <2>1. CASE s.phase # "Prepare"
    BY <1>0, <2>1, MessageFields DEF Sound
  <2>2. CASE s.phase = "Prepare"
    <3> SUFFICES ASSUME s.cn # 0
                 PROVE  s.cn <= s.hn /\ \A y \in Values : y # s.b.x =>
                          Aborts(Message(s), s.hn, y)
      BY <2>2, MessageFields DEF Sound
    <3>1. s.cn <= s.hn /\ s.hn > 0 /\ s.z = s.b.x
      BY <1>1, <2>2 DEF StateInv, ValidRange, CommitVoteIsNext
    <3>2. s.p.n >= s.hn /\ (s.z = s.p.x \/ s.pPrime.n >= s.hn)
      BY <2>2, <3>1 DEF StateInv, ConfirmedWasAccepted
    <3>3. s.pPrime.n >= s.hn => s.pPrime.x # s.p.x
      BY <1>1, <3>1 DEF StateInv, PreparedOrder
    <3> QED
      BY <2>2, <3>1, <3>2, <3>3, MessageFields DEF Aborts
  <2> QED
    BY <2>1, <2>2
<1> QED
  BY <1>2, <1>3

\* An abort the state has accepted is one that the message tells.
LEMMA AbortsOfState ==
    ASSUME NEW s, StateInv(s), s.phase = "Prepare", NEW n \in Nat \ {0}, NEW x
    PROVE  Aborts(Message(s), n, x) <=> AcceptedAbort(s, n, x)
<1>1. /\ s.p.n \in Nat /\ (s.p # NoBallot <=> s.p.n > 0)
      /\ s.pPrime.n \in Nat /\ (s.pPrime # NoBallot <=> s.pPrime.n > 0)
  BY FieldTypes DEF StateInv
<1> QED
  BY <1>1, MessageFields DEF Aborts, AcceptedAbort

\* What the states keep, the messages show.
LEMMA MessageKeeps ==
    ASSUME NEW s, NEW t, StateInv(s), StateInv(t), Keeps(s, t),
           s.phase = "Prepare", t.phase = "Prepare"
    PROVE  KeepsWord(Message(s), Message(t))
<1>1. /\ BallotRises(s, t) /\ CommitStartsHere(s, t)
      /\ CommitKept(s, t) /\ AbortsKept(s, t)
  BY DEF Keeps
<1>2. PICK c, d : c = Message(s) /\ d = Message(t)
  OBVIOUS
<1>3. /\ c.type = "Prepare" /\ c.Bn = s.b.n /\ c.Bx = s.b.x /\ c.Cn = s.cn /\ c.Hn = s.hn
      /\ d.type = "Prepare" /\ d.Bn = t.b.n /\ d.Bx = t.b.x /\ d.Cn = t.cn /\ d.Hn = t.hn
      /\ c.Pn = s.p.n /\ c.Px = s.p.x /\ c.Ppn = s.pPrime.n /\ c.Ppx = s.pPrime.x
  BY <1>2, MessageFields
<1>4. c.Bn <= d.Bn /\ (c.Bn = d.Bn => c.Bx = d.Bx)
  BY <1>1, <1>3 DEF BallotRises
<1>5. d.Cn # 0 => d.Cn = d.Bn \/ (d.Cn = c.Cn /\ d.Bx = c.Bx)
  BY <1>1, <1>3 DEF CommitStartsHere
<1>6. c.Cn # 0 => /\ d.Bx = c.Bx /\ c.Hn <= d.Hn
                  /\ d.Cn = c.Cn \/ (d.Cn = 0 /\ Aborts(d, c.Hn, c.Bx))
  <2> SUFFICES ASSUME s.cn # 0
               PROVE  /\ d.Bx = c.Bx /\ c.Hn <= d.Hn
                      /\ d.Cn = c.Cn \/ (d.Cn = 0 /\ Aborts(d, c.Hn, c.Bx))
    BY <1>3
  <2>1. s.hn \in Nat \ {0}
    BY FieldTypes, SMT DEF StateInv, ValidRange
  <2>2. AcceptedAbort(t, s.hn, s.b.x) => Aborts(d, s.hn, s.b.x)
    BY <1>2, <2>1, AbortsOfState
  <2> QED
    BY <1>1, <1>3, <2>2 DEF CommitKept
<1>7. \A n \in Nat \ {0}, x \in Values : Aborts(c, n, x) => Aborts(d, n, x)
  <2> SUFFICES ASSUME NEW n \in Nat \ {0}, NEW x \in Values, Aborts(c, n, x)
               PROVE  Aborts(d, n, x)
    OBVIOUS
  <2>1. PICK q \in {s.p, s.pPrime} : q.n >= n /\ q.x # x
    BY <1>3 DEF Aborts
  <2>2. q.n \in Nat \ {0} /\ q # NoBallot
    BY <2>1, FieldTypes DEF StateInv
  <2>3. Aborts(d, q.n, x)
    <3>1. AcceptedAbort(t, q.n, x)
      BY <1>1, <2>1, <2>2 DEF AbortsKept
    <3> QED
      BY <1>2, <2>2, <3>1, AbortsOfState
  <2>4. d \in Words
    BY <1>2, MessageIsWord
  <2> QED
    BY <1>3, <2>1, <2>2, <2>3, <2>4, WordFields DEF Aborts
<1> QED
  BY <1>2, <1>3, <1>4, <1>5, <1>6, <1>7 DEF KeepsWord

\* A message that is behind stays behind.
LEMMA BehindKept ==
    ASSUME NEW m \in Messages, m.type = "Prepare", Sound(m),
           NEW c \in Words, NEW d \in Words, KeepsWord(c, d), Behind(m, c)
    PROVE  Behind(m, d)
<1>1. /\ m.Bn \in Nat /\ m.Bx \in Values /\ m.Cn \in Nat /\ m.Hn \in Nat
      /\ m.Cn # 0 => m.Hn \in Nat \ {0}
  BY SMT DEF Messages, PrepareMessages, ConfirmMessages, ExternalizeMessages, Sound
<1>2. /\ c.Bn \in Nat /\ d.Bn \in Nat /\ c.Cn \in Nat /\ d.Cn \in Nat
      /\ c.Hn \in Nat /\ d.Hn \in Nat /\ d.Pn \in Nat /\ d.Ppn \in Nat
  BY WordFields DEF KeepsWord
<1>3. m.Bn <= d.Bn /\ (m.Bn = d.Bn => m.Bx = d.Bx)
  BY <1>1, <1>2 DEF Behind, KeepsWord
<1>4. d.Cn # 0 /\ m.Bx # d.Bx => m.Bn < d.Cn
  BY <1>1, <1>2, <1>3 DEF Behind, KeepsWord
<1>5. ASSUME m.Cn # 0
      PROVE  \/ d.Cn = m.Cn /\ d.Bx = m.Bx /\ m.Hn <= d.Hn
             \/ Aborts(d, m.Hn, m.Bx)
  <2>1. CASE Aborts(c, m.Hn, m.Bx)
    BY <1>1, <1>5, <2>1 DEF KeepsWord
  <2>2. CASE c.Cn = m.Cn /\ c.Bx = m.Bx /\ m.Hn <= c.Hn
    <3>1. /\ d.Bx = c.Bx /\ c.Hn <= d.Hn
          /\ d.Cn = c.Cn \/ Aborts(d, c.Hn, c.Bx)
      BY <1>5, <2>2 DEF KeepsWord
    <3>2. Aborts(d, c.Hn, c.Bx) => Aborts(d, m.Hn, m.Bx)
      BY <1>1, <1>2, <2>2 DEF Aborts
    <3> QED
      BY <1>1, <1>2, <2>2, <3>1, <3>2
  <2> QED
    BY <1>5, <2>1, <2>2 DEF Behind
<1> QED
  BY <1>3, <1>4, <1>5 DEF Behind

-------------------------------------------------------------------------------
(***************************************************************************)
(* What one node does to the votes of all.                                 *)
(***************************************************************************)
World(said, cur, done, F) ==
    /\ said \in [Nodes -> SUBSET Messages] /\ cur \in [Nodes -> Words]
    /\ done \in SUBSET Nodes
    /\ F \in SUBSET Nodes /\ QuorumsShare(F)
    /\ \A v \in Nodes : \A m \in said[v] \cup {cur[v]} : Sound(m)

\* A refusal is for good.
LEMMA RefusesKept ==
    ASSUME NEW said, NEW cur, NEW done, NEW F, World(said, cur, done, F),
           NEW a \in Nodes, a \notin done, NEW d \in Words,
           KeepsWord(cur[a], d) \/ d.type # "Prepare",
           NEW u \in Nodes, NEW n \in Nat \ {0}, NEW x,
           Refuses(said, cur, done, u, n, x)
    PROVE  Refuses(said, [cur EXCEPT ![a] = d], done, u, n, x)
<1>1. PICK new : new = [cur EXCEPT ![a] = d]
  OBVIOUS
<1>2. new[a] = d /\ \A v \in Nodes \ {a} : new[v] = cur[v]
  BY <1>1 DEF World
<1>3. CASE u # a
  BY <1>1, <1>2, <1>3 DEF Refuses
<1>4. CASE u = a /\ d.type # "Prepare"
  BY <1>1, <1>2, <1>4 DEF Refuses, VotesCommit
<1>5. CASE u = a /\ d.type = "Prepare"
  <2>1. KeepsWord(cur[a], d) /\ cur[a] \in Words
    BY <1>5 DEF World
  <2>2. /\ cur[a].Bn \in Nat /\ cur[a].Cn \in Nat /\ d.Bn \in Nat /\ d.Cn \in Nat
        /\ cur[a].type = "Prepare"
    BY <1>5, <2>1, WordFields DEF KeepsWord
  <2>3. /\ cur[a].Bn >= n /\ (cur[a].Bn = n => cur[a].Bx # x)
        /\ cur[a].Cn # 0 /\ cur[a].Bx = x => cur[a].Cn > n
    BY <1>5, <2>2 DEF Refuses
  <2>4. d.Bn >= n /\ (d.Bn = n => d.Bx # x)
    BY <2>1, <2>2, <2>3 DEF KeepsWord
  <2>5. d.Cn # 0 /\ d.Bx = x => d.Cn > n
    BY <2>1, <2>2, <2>3, <2>4 DEF KeepsWord
  <2>6. ~VotesCommit(d, n, x)
    BY <2>2, <2>5 DEF VotesCommit
  <2> QED
    BY <1>1, <1>2, <1>5, <2>4, <2>5, <2>6 DEF Refuses
<1> QED
  BY <1>3, <1>4, <1>5

\* So does a quorum that refuses.
LEMMA QuorumRefusesKept ==
    ASSUME NEW said, NEW cur, NEW done, NEW F, World(said, cur, done, F),
           NEW a \in Nodes, a \notin done, NEW d \in Words,
           KeepsWord(cur[a], d) \/ d.type # "Prepare",
           NEW n \in Nat \ {0}, NEW x, QuorumRefuses(said, cur, done, F, n, x)
    PROVE  QuorumRefuses(said, [cur EXCEPT ![a] = d], done, F, n, x)
<1>1. PICK Q \in Quorums : \A u \in Q \ F : Refuses(said, cur, done, u, n, x)
  BY DEF QuorumRefuses
<1>2. Q \subseteq Nodes
  BY DEF Quorums
<1>3. \A u \in Q \ F : Refuses(said, [cur EXCEPT ![a] = d], done, u, n, x)
  BY <1>1, <1>2, RefusesKept
<1> QED
  BY <1>3 DEF QuorumRefuses

\* A step in the Prepare phase keeps "undecided" when the aborts it accepts are
\* of ballots that a quorum refuses.
LEMMA UndecidedKept ==
    ASSUME NEW said, NEW cur, NEW done, NEW F, World(said, cur, done, F),
           NEW a \in Nodes, a \notin done, NEW d \in Words, KeepsWord(cur[a], d),
           Undecided(said, cur, done, F),
           \A n \in Nat \ {0}, x \in Values :
             Aborts(d, n, x) => QuorumRefuses(said, cur, done, F, n, x)
    PROVE  Undecided(said, [cur EXCEPT ![a] = d], done, F)
<1>1. PICK new : new = [cur EXCEPT ![a] = d]
  OBVIOUS
<1>2. new[a] = d /\ \A v \in Nodes \ {a} : new[v] = cur[v]
  BY <1>1 DEF World
<1>3. \A v \in Nodes : \A m \in said[v] \cup {new[v]} : m.type = "Prepare"
  BY <1>2 DEF Undecided, KeepsWord
<1>4. ASSUME NEW v \in Nodes \ F, NEW m \in said[v] PROVE Behind(m, new[v])
  <2>1. Behind(m, cur[v]) /\ m.type = "Prepare" /\ Sound(m) /\ m \in Messages
    BY <1>4 DEF Undecided, World
  <2>2. CASE v = a
    BY <1>2, <2>1, <2>2, BehindKept DEF World
  <2>3. CASE v # a
    BY <1>2, <2>1, <2>3
  <2> QED
    BY <2>2, <2>3
<1>5. ASSUME NEW n \in Nat \ {0}, NEW x \in Values,
             NEW v \in Nodes, NEW m \in said[v] \cup {new[v]}, Aborts(m, n, x)
      PROVE  QuorumRefuses(said, new, done, F, n, x)
  <2>1. QuorumRefuses(said, cur, done, F, n, x)
    <3>1. CASE m = d
      BY <1>5, <3>1
    <3>2. CASE m # d
      <4>1. m \in said[v] \cup {cur[v]}
        BY <1>2, <1>5, <3>2
      <4> QED
        BY <1>5, <4>1 DEF Undecided
    <3> QED
      BY <3>1, <3>2
  <2> QED
    BY <1>1, <2>1, QuorumRefusesKept
<1>6. done = {}
  BY DEF Undecided
<1>7. Undecided(said, new, done, F)
  BY <1>3, <1>4, <1>5, <1>6 DEF Undecided
<1> QED
  BY <1>1, <1>7

\* A step keeps "decided" when it is in the Prepare phase and does not accept
\* the abort of the ballot, or when it ends past the Prepare phase with its value.
LEMMA DecidedKept ==
    ASSUME NEW said, NEW cur, NEW done, NEW F, World(said, cur, done, F),
           NEW a \in Nodes, a \notin done, NEW d \in Words,
           NEW n \in Nat \ {0}, NEW x \in Values,
           Decided(said, cur, done, F, n, x),
           \/ KeepsWord(cur[a], d) /\ ~Aborts(d, n, x)
           \/ d.type # "Prepare" /\ d.X = x
    PROVE  Decided(said, [cur EXCEPT ![a] = d], done, F, n, x)
<1>1. PICK new : new = [cur EXCEPT ![a] = d]
  OBVIOUS
<1>2. new[a] = d /\ \A v \in Nodes \ {a} : new[v] = cur[v]
  BY <1>1 DEF World
<1>3. KeepsWord(cur[a], d) \/ d.type # "Prepare"
  OBVIOUS
<1>4. PICK Q \in Quorums : \A v \in Q \ F : Locked(said, cur, done, v, n, x)
  BY DEF Decided
<1>5. ASSUME NEW v \in Q \ F PROVE Locked(said, new, done, v, n, x)
  <2>1. v \in Nodes /\ Locked(said, cur, done, v, n, x)
    BY <1>4 DEF Quorums
  <2>2. CASE v # a
    BY <1>2, <2>1, <2>2 DEF Locked
  <2>3. CASE v = a /\ d.type # "Prepare"
    BY <1>2, <2>1, <2>3 DEF Locked
  <2>4. CASE v = a /\ d.type = "Prepare"
    <3>1. KeepsWord(cur[a], d) /\ ~Aborts(d, n, x) /\ cur[a] \in Words
      BY <2>4 DEF World
    <3>2. VotesCommit(cur[a], n, x)
      BY <2>1, <2>4, <3>1 DEF Locked, KeepsWord
    <3>3. /\ cur[a].Cn \in Nat /\ cur[a].Hn \in Nat /\ d.Hn \in Nat
          /\ d.Pn \in Nat /\ d.Ppn \in Nat
      BY <3>1, WordFields DEF KeepsWord
    <3>4. ~Aborts(d, cur[a].Hn, x)
      BY <3>1, <3>2, <3>3 DEF Aborts, VotesCommit
    <3>5. d.Cn = cur[a].Cn /\ d.Bx = x /\ cur[a].Hn <= d.Hn
      BY <3>1, <3>2, <3>4 DEF KeepsWord, VotesCommit
    <3>6. VotesCommit(d, n, x)
      BY <2>4, <3>2, <3>3, <3>5 DEF VotesCommit
    <3> QED
      BY <1>2, <2>1, <2>4, <3>5, <3>6 DEF Locked
  <2> QED
    BY <2>2, <2>3, <2>4
<1>6. \A v \in Nodes : \A m \in said[v] \cup {new[v]} :
        ~Aborts(m, n, x) /\ (m.type # "Prepare" => m.X = x)
  <2>1. ~Aborts(d, n, x) /\ (d.type # "Prepare" => d.X = x)
    BY DEF Aborts, KeepsWord
  <2> QED
    BY <1>2, <2>1 DEF Decided
<1>7. \A k \in Nat \ {0}, y \in Values :
        k < n /\ y # x => QuorumRefuses(said, new, done, F, k, y)
  BY <1>1, <1>3, QuorumRefusesKept DEF Decided
<1>8. Decided(said, new, done, F, n, x)
  BY <1>4, <1>5, <1>6, <1>7 DEF Decided
<1> QED
  BY <1>1, <1>8

\* What a node has heard when it accepts <<h, y>> as prepared: somebody accepted
\* it, or a quorum votes for it.
PrepareSupport(said, cur, h, y) ==
    \/ \E v \in Nodes : \E m \in said[v] : AcceptAsPrepared(m, h, y)
    \/ \E Q \in Quorums : \A v \in Q :
         \E m \in said[v] \cup {cur[v]} : VoteToPrepare(m, h, y)

\* As long as nothing is decided, a quorum then refuses what <<h, y>> aborts.
LEMMA SupportRefuses ==
    ASSUME NEW said, NEW cur, NEW done, NEW F, World(said, cur, done, F),
           Undecided(said, cur, done, F),
           NEW h \in Nat \ {0}, NEW y \in Values, PrepareSupport(said, cur, h, y),
           NEW n \in Nat \ {0}, NEW x \in Values, n <= h, x # y
    PROVE  QuorumRefuses(said, cur, done, F, n, x)
<1>0. \A v \in Nodes : \A m \in said[v] \cup {cur[v]} :
        Aborts(m, n, x) => QuorumRefuses(said, cur, done, F, n, x)
  BY DEF Undecided
<1>1. CASE \E v \in Nodes : \E m \in said[v] : AcceptAsPrepared(m, h, y)
  <2>1. PICK v \in Nodes : \E m \in said[v] : AcceptAsPrepared(m, h, y)
    BY <1>1
  <2>2. PICK m \in said[v] : AcceptAsPrepared(m, h, y)
    BY <2>1
  <2>3. m.type = "Prepare" /\ m \in Words
    BY <2>2, MessagesAreWords DEF Undecided, World
  <2>4. Aborts(m, n, x)
    BY <2>2, <2>3, WordFields DEF AcceptAsPrepared, Aborts
  <2> QED
    BY <1>0, <2>4
<1>2. CASE \E Q \in Quorums : \A v \in Q :
             \E m \in said[v] \cup {cur[v]} : VoteToPrepare(m, h, y)
  <2>1. PICK Q \in Quorums : \A v \in Q :
          \E m \in said[v] \cup {cur[v]} : VoteToPrepare(m, h, y)
    BY <1>2
  <2> SUFFICES ASSUME \A v \in Nodes : \A m \in said[v] \cup {cur[v]} : ~Aborts(m, n, x)
               PROVE  \A u \in Q \ F : Refuses(said, cur, done, u, n, x)
    BY <1>0 DEF QuorumRefuses
  <2> TAKE u \in Q \ F
  <2>2. u \in Nodes
    BY DEF Quorums
  <2>3. PICK m \in said[u] \cup {cur[u]} : VoteToPrepare(m, h, y)
    BY <2>1
  <2>4. PICK c : c = cur[u]
    OBVIOUS
  <2>5. c \in Words /\ c.type = "Prepare" /\ ~Aborts(c, n, x)
    BY <2>2, <2>4 DEF World, Undecided
  <2>6. c.Bn \in Nat /\ c.Cn \in Nat /\ c.Hn \in Nat /\ c.Pn \in Nat /\ c.Ppn \in Nat
    BY <2>5, WordFields
  <2>7. m \in Words /\ m.type = "Prepare" /\ m.Bx = y /\ m.Bn >= h
    BY <2>2, <2>3, MessagesAreWords DEF World, VoteToPrepare
  <2>8. m.Bn \in Nat
    BY <2>7, WordFields
  <2>9. m.Bn <= c.Bn /\ (m.Bn = c.Bn => m.Bx = c.Bx) /\ (c.Cn # 0 /\ m.Bx # c.Bx => m.Bn < c.Cn)
    <3>1. CASE m = c
      BY <3>1, <2>6
    <3>2. CASE m \in said[u]
      <4>1. Behind(m, c)
        BY <2>2, <2>4, <3>2 DEF Undecided
      <4> QED
        BY <4>1 DEF Behind
    <3> QED
      BY <2>3, <2>4, <3>1, <3>2
  <2>10. /\ c.Bn >= n /\ (c.Bn = n => c.Bx # x)
         /\ c.Cn # 0 /\ c.Bx = x => c.Cn > n
    BY <2>6, <2>7, <2>8, <2>9
  <2>11. ~VotesCommit(c, n, x)
    BY <2>6, <2>10 DEF VotesCommit
  <2>12. ASSUME NEW k \in said[u] PROVE ~VotesCommit(k, n, x)
    <3> SUFFICES ASSUME VotesCommit(k, n, x) PROVE FALSE
      OBVIOUS
    <3>1. k \in Words /\ k.type = "Prepare" /\ Behind(k, c)
      BY <2>2, <2>4, <2>12, MessagesAreWords DEF World, Undecided
    <3>2. k.Cn \in Nat /\ k.Hn \in Nat
      BY <3>1, WordFields
    <3>3. k.Cn # 0 /\ k.Bx = x /\ k.Cn <= n /\ n <= k.Hn
      BY DEF VotesCommit
    <3>4. ~Aborts(c, k.Hn, x)
      BY <2>5, <2>6, <3>2, <3>3 DEF Aborts
    <3>5. c.Cn = k.Cn /\ c.Bx = x
      BY <3>1, <3>3, <3>4 DEF Behind
    <3> QED
      BY <2>6, <2>10, <3>2, <3>3, <3>5
  <2> QED
    BY <2>4, <2>10, <2>11, <2>12 DEF Refuses
<1> QED
  BY <1>1, <1>2 DEF PrepareSupport

\* Once a ballot is decided, nobody accepts what would abort it.
LEMMA SupportSpares ==
    ASSUME NEW said, NEW cur, NEW done, NEW F, World(said, cur, done, F),
           NEW n \in Nat \ {0}, NEW x \in Values, Decided(said, cur, done, F, n, x),
           NEW h \in Nat \ {0}, NEW y \in Values, PrepareSupport(said, cur, h, y)
    PROVE  h < n \/ y = x
<1> SUFFICES ASSUME h >= n, y # x PROVE FALSE
  OBVIOUS
<1>1. CASE \E v \in Nodes : \E m \in said[v] : AcceptAsPrepared(m, h, y)
  <2>1. PICK v \in Nodes : \E m \in said[v] : AcceptAsPrepared(m, h, y)
    BY <1>1
  <2>2. PICK m \in said[v] : AcceptAsPrepared(m, h, y)
    BY <2>1
  <2>3. ~Aborts(m, n, x) /\ (m.type # "Prepare" => m.X = x) /\ m \in Words
    BY <2>2, MessagesAreWords DEF Decided, World
  <2> QED
    BY <2>2, <2>3, WordFields DEF AcceptAsPrepared, Aborts
<1>2. CASE \E Q \in Quorums : \A v \in Q :
             \E m \in said[v] \cup {cur[v]} : VoteToPrepare(m, h, y)
  <2>1. PICK Q \in Quorums : \A v \in Q :
          \E m \in said[v] \cup {cur[v]} : VoteToPrepare(m, h, y)
    BY <1>2
  <2>2. PICK P \in Quorums : \A v \in P \ F : Locked(said, cur, done, v, n, x)
    BY DEF Decided
  <2>3. PICK v \in P \cap Q : v \notin F
    BY DEF World, QuorumsShare
  <2>4. PICK m \in said[v] \cup {cur[v]} : VoteToPrepare(m, h, y)
    BY <2>1, <2>3
  <2>5. v \in Nodes /\ m \in Words
    BY <2>3, <2>4, MessagesAreWords DEF Quorums, World
  <2>6. m.type = "Prepare" /\ m.Bx = y /\ m.Bn >= h /\ m.Bn \in Nat
    BY <2>4, <2>5, WordFields DEF VoteToPrepare
  <2>7. m.Bn < n
    BY <2>2, <2>3, <2>4, <2>6 DEF Locked
  <2> QED
    BY <2>6, <2>7
<1> QED
  BY <1>1, <1>2 DEF PrepareSupport

\* So a step in the Prepare phase keeps the votes protected: it accepts no abort
\* that the state before had not, but those of one ballot with support.
LEMMA PrepareProtects ==
    ASSUME NEW said, NEW cur, NEW done, NEW F, World(said, cur, done, F),
           Protected(said, cur, done, F),
           NEW a \in Nodes, a \notin done, NEW d \in Words, KeepsWord(cur[a], d),
           \/ \A n \in Nat \ {0}, x \in Values : Aborts(d, n, x) => Aborts(cur[a], n, x)
           \/ \E h \in Nat \ {0}, y \in Values :
                /\ PrepareSupport(said, cur, h, y)
                /\ \A n \in Nat \ {0}, x \in Values :
                     Aborts(d, n, x) => Aborts(cur[a], n, x) \/ (n <= h /\ x # y)
    PROVE  Protected(said, [cur EXCEPT ![a] = d], done, F)
<1>1. CASE Undecided(said, cur, done, F)
  <2>1. ASSUME NEW n \in Nat \ {0}, NEW x \in Values, Aborts(d, n, x)
        PROVE  QuorumRefuses(said, cur, done, F, n, x)
    <3>1. CASE Aborts(cur[a], n, x)
      BY <1>1, <3>1 DEF Undecided
    <3>2. CASE ~Aborts(cur[a], n, x)
      <4>1. PICK h \in Nat \ {0}, y \in Values :
              PrepareSupport(said, cur, h, y) /\ n <= h /\ x # y
        BY <2>1, <3>2
      <4> QED
        BY <1>1, <4>1, SupportRefuses
    <3> QED
      BY <3>1, <3>2
  <2> QED
    BY <1>1, <2>1, UndecidedKept DEF Protected
<1>2. ASSUME NEW n \in Nat \ {0}, NEW x \in Values, Decided(said, cur, done, F, n, x)
      PROVE  Protected(said, [cur EXCEPT ![a] = d], done, F)
  <2>1. ~Aborts(d, n, x)
    <3> SUFFICES ASSUME Aborts(d, n, x) PROVE FALSE
      OBVIOUS
    <3>1. ~Aborts(cur[a], n, x)
      BY <1>2 DEF Decided
    <3>2. PICK h \in Nat \ {0}, y \in Values :
            PrepareSupport(said, cur, h, y) /\ n <= h /\ x # y
      BY <3>1
    <3> QED
      BY <1>2, <3>2, SupportSpares, SMT
  <2> QED
    BY <1>2, <2>1, DecidedKept DEF Protected
<1> QED
  BY <1>1, <1>2 DEF Protected

\* What a node has heard when it accepts the commit of <<n, x>>: somebody
\* accepted a commit of x, or a quorum votes for this one.
CommitSupport(said, cur, n, x) ==
    \/ \E v \in Nodes : \E m \in said[v] : m.type # "Prepare" /\ m.X = x
    \/ \E Q \in Quorums : \A v \in Q :
         \E m \in said[v] \cup {cur[v]} : VotesCommit(m, n, x)

\* The first commit accepted is decided.
LEMMA FirstCommitDecides ==
    ASSUME NEW said, NEW cur, NEW done, NEW F, World(said, cur, done, F),
           Undecided(said, cur, done, F),
           NEW n \in Nat \ {0}, NEW x \in Values, CommitSupport(said, cur, n, x)
    PROVE  Decided(said, cur, done, F, n, x)
<1>1. PICK Q \in Quorums : \A v \in Q :
        \E m \in said[v] \cup {cur[v]} : VotesCommit(m, n, x)
  BY DEF CommitSupport, Undecided
<1>2. Q \subseteq Nodes /\ Q # {}
  BY DEF Quorums
<1>3. \A v \in Nodes : \A m \in said[v] \cup {cur[v]} :
        m \in Words /\ Sound(m) /\ m.type = "Prepare"
  BY MessagesAreWords DEF World, Undecided
<1>4. ASSUME NEW v \in Nodes, NEW m \in said[v] \cup {cur[v]}, Aborts(m, n, x)
      PROVE  FALSE
  <2>1. QuorumRefuses(said, cur, done, F, n, x)
    BY <1>4 DEF Undecided
  <2>2. PICK P \in Quorums : \A u \in P \ F : Refuses(said, cur, done, u, n, x)
    BY <2>1 DEF QuorumRefuses
  <2>3. PICK u \in P \cap Q : u \notin F
    BY DEF World, QuorumsShare
  <2>4. PICK k \in said[u] \cup {cur[u]} : VotesCommit(k, n, x)
    BY <1>1, <2>3
  <2> QED
    BY <2>2, <2>3, <2>4 DEF Refuses
<1>5. ASSUME NEW v \in Q \ F PROVE Locked(said, cur, done, v, n, x)
  <2>1. PICK m \in said[v] \cup {cur[v]} : VotesCommit(m, n, x)
    BY <1>1, <1>5
  <2>2. PICK c : c = cur[v]
    OBVIOUS
  <2>3. v \in Nodes /\ c \in Words /\ c.type = "Prepare" /\ m \in Words /\ m.type = "Prepare"
    BY <1>2, <1>3, <2>1, <2>2
  <2>4. /\ c.Bn \in Nat /\ c.Cn \in Nat /\ c.Hn \in Nat /\ c.Pn \in Nat /\ c.Ppn \in Nat
        /\ m.Cn \in Nat /\ m.Hn \in Nat
    BY <2>3, WordFields
  <2>5. m.Bx = x /\ m.Cn # 0 /\ m.Cn <= n /\ n <= m.Hn
    BY <2>1 DEF VotesCommit
  <2>6. c.Cn = m.Cn /\ c.Bx = x /\ m.Hn <= c.Hn
    <3>1. CASE m = c
      BY <2>4, <2>5, <3>1
    <3>2. CASE m \in said[v]
      <4>1. Behind(m, c)
        BY <2>2, <2>3, <3>2 DEF Undecided
      <4>2. ~Aborts(c, n, x)
        BY <1>4, <2>2, <2>3
      <4>3. ~Aborts(c, m.Hn, x)
        BY <2>4, <2>5, <4>2 DEF Aborts
      <4> QED
        BY <2>5, <4>1, <4>3 DEF Behind
    <3> QED
      BY <2>1, <2>2, <3>1, <3>2
  <2>7. VotesCommit(c, n, x)
    BY <2>3, <2>4, <2>5, <2>6 DEF VotesCommit
  <2>8. ASSUME NEW k \in said[v], k.Bx # x PROVE k.Bn < n
    <3>1. Behind(k, c) /\ k \in Words /\ k.type = "Prepare"
      BY <1>3, <2>2, <2>3, <2>8 DEF Undecided
    <3>2. k.Bn \in Nat
      BY <3>1, WordFields
    <3>3. k.Bn < c.Cn
      BY <2>5, <2>6, <2>8, <3>1 DEF Behind
    <3> QED
      BY <2>4, <2>5, <2>6, <3>2, <3>3
  <2> QED
    BY <2>2, <2>6, <2>7, <2>8 DEF Locked
<1>6. ASSUME NEW k \in Nat \ {0}, NEW y \in Values, k < n, y # x
      PROVE  QuorumRefuses(said, cur, done, F, k, y)
  <2>1. PICK v \in Q : TRUE
    BY <1>2
  <2>2. PICK m \in said[v] \cup {cur[v]} : VotesCommit(m, n, x)
    BY <1>1
  <2>3. v \in Nodes /\ m \in Words /\ Sound(m) /\ m.type = "Prepare"
    BY <1>2, <1>3, <2>2
  <2>4. m.Hn \in Nat /\ m.Pn \in Nat /\ m.Ppn \in Nat
    BY <2>3, WordFields
  <2>5. Aborts(m, m.Hn, y) /\ n <= m.Hn
    BY <1>6, <2>2, <2>3 DEF Sound, VotesCommit
  <2>6. Aborts(m, k, y)
    BY <1>6, <2>4, <2>5 DEF Aborts
  <2> QED
    BY <2>3, <2>6 DEF Undecided
<1> QED
  BY <1>3, <1>4, <1>5, <1>6 DEF Decided

\* Later commits are of the value decided.
LEMMA CommitsDecided ==
    ASSUME NEW said, NEW cur, NEW done, NEW F, World(said, cur, done, F),
           NEW k \in Nat \ {0}, NEW z \in Values, Decided(said, cur, done, F, k, z),
           NEW n \in Nat \ {0}, NEW x \in Values, CommitSupport(said, cur, n, x)
    PROVE  x = z
<1> SUFFICES ASSUME x # z PROVE FALSE
  OBVIOUS
<1>1. PICK Q \in Quorums : \A v \in Q :
        \E m \in said[v] \cup {cur[v]} : VotesCommit(m, n, x)
  BY DEF CommitSupport, Decided
<1>2. Q \subseteq Nodes /\ Q # {}
  BY DEF Quorums
<1>3. n < k
  <2>1. PICK v \in Q : TRUE
    BY <1>2
  <2>2. PICK m \in said[v] \cup {cur[v]} : VotesCommit(m, n, x)
    BY <1>1
  <2>3. v \in Nodes /\ m \in Words /\ Sound(m) /\ ~Aborts(m, k, z)
    BY <1>2, <2>2, MessagesAreWords DEF World, Decided
  <2>4. m.type = "Prepare" /\ m.Bx = x /\ m.Cn # 0 /\ n <= m.Hn
    BY <2>2 DEF VotesCommit
  <2>5. m.Hn \in Nat /\ m.Pn \in Nat /\ m.Ppn \in Nat
    BY <2>3, <2>4, WordFields
  <2>6. Aborts(m, m.Hn, z)
    BY <2>3, <2>4 DEF Sound
  <2>7. m.Hn < k
    BY <2>3, <2>5, <2>6 DEF Aborts
  <2> QED
    BY <2>4, <2>5, <2>7
<1>4. PICK P \in Quorums : \A u \in P \ F : Refuses(said, cur, done, u, n, x)
  BY <1>3 DEF Decided, QuorumRefuses
<1>5. PICK u \in P \cap Q : u \notin F
  BY DEF World, QuorumsShare
<1>6. PICK m \in said[u] \cup {cur[u]} : VotesCommit(m, n, x)
  BY <1>1, <1>5
<1> QED
  BY <1>4, <1>5, <1>6 DEF Refuses

\* So accepting a commit keeps the votes protected.
LEMMA CommitProtects ==
    ASSUME NEW said, NEW cur, NEW done, NEW F, World(said, cur, done, F),
           Protected(said, cur, done, F),
           NEW a \in Nodes, a \notin done, NEW d \in Words, d.type # "Prepare",
           NEW n \in Nat \ {0}, NEW x \in Values, d.X = x,
           CommitSupport(said, cur, n, x)
    PROVE  Protected(said, [cur EXCEPT ![a] = d], done, F)
<1>1. PICK k \in Nat \ {0}, z \in Values : Decided(said, cur, done, F, k, z)
  BY FirstCommitDecides DEF Protected
<1>2. d.X = z
  BY <1>1, CommitsDecided
<1> QED
  BY <1>1, <1>2, DecidedKept DEF Protected

\* Past the Prepare phase only the value counts.
LEMMA ValueProtects ==
    ASSUME NEW said, NEW cur, NEW done, NEW F, World(said, cur, done, F),
           Protected(said, cur, done, F),
           NEW a \in Nodes, a \notin done, cur[a].type # "Prepare",
           NEW d \in Words, d.type # "Prepare", d.X = cur[a].X
    PROVE  Protected(said, [cur EXCEPT ![a] = d], done, F)
<1>1. PICK n \in Nat \ {0}, x \in Values : Decided(said, cur, done, F, n, x)
  BY DEF Protected, Undecided
<1>2. d.X = x
  BY <1>1 DEF Decided
<1> QED
  BY <1>1, <1>2, DecidedKept DEF Protected

\* A node may say what it stands for, and messages may be lost.
LEMMA SayingProtects ==
    ASSUME NEW said, NEW cur, NEW done, NEW F, World(said, cur, done, F),
           Protected(said, cur, done, F),
           NEW heard, \A v \in Nodes : heard[v] \subseteq said[v] \cup {cur[v]}
    PROVE  Protected(heard, cur, done, F)
<1>0. \A v \in Nodes : heard[v] \cup {cur[v]} \subseteq said[v] \cup {cur[v]}
  OBVIOUS
<1>1. ASSUME NEW n, NEW x, QuorumRefuses(said, cur, done, F, n, x)
      PROVE  QuorumRefuses(heard, cur, done, F, n, x)
  <2>1. PICK Q \in Quorums : \A u \in Q \ F : Refuses(said, cur, done, u, n, x)
    BY <1>1 DEF QuorumRefuses
  <2>2. \A u \in Q \ F : Refuses(heard, cur, done, u, n, x)
    BY <1>0, <2>1 DEF Refuses, Quorums
  <2> QED
    BY <2>2 DEF QuorumRefuses
<1>2. CASE Undecided(said, cur, done, F)
  <2>1. ASSUME NEW v \in Nodes \ F, NEW m \in heard[v] PROVE Behind(m, cur[v])
    <3>1. CASE m \in said[v]
      BY <1>2, <3>1 DEF Undecided
    <3>2. CASE m = cur[v]
      <4>1. m \in Words /\ m.type = "Prepare"
        BY <1>2, <3>2 DEF World, Undecided
      <4> QED
        BY <3>2, <4>1, WordFields, SMT DEF Behind
    <3> QED
      BY <1>0, <2>1, <3>1, <3>2
  <2>2. Undecided(heard, cur, done, F)
    BY <1>0, <1>1, <1>2, <2>1 DEF Undecided
  <2> QED
    BY <2>2 DEF Protected
<1>3. ASSUME NEW n \in Nat \ {0}, NEW x \in Values, Decided(said, cur, done, F, n, x)
      PROVE  Decided(heard, cur, done, F, n, x)
  <2>1. PICK Q \in Quorums : \A v \in Q \ F : Locked(said, cur, done, v, n, x)
    BY <1>3 DEF Decided
  <2>2. \A v \in Q \ F : Locked(heard, cur, done, v, n, x)
    BY <1>0, <2>1 DEF Locked, Quorums
  <2> QED
    BY <1>0, <1>1, <1>3, <2>2 DEF Decided
<1> QED
  BY <1>2, <1>3 DEF Protected

\* The message of a state without a ballot.
LEMMA BlankMessage ==
    ASSUME NEW n \in Nodes
    PROVE  LET d == Message(NewBallotState(n))
           IN  /\ d \in Words /\ Sound(d) /\ d.type = "Prepare" /\ d.Bn = 0
               /\ d.Pn = 0 /\ d.Ppn = 0 /\ d.Cn = 0
<1>1. Message(NewBallotState(n)) \in Words /\ Sound(Message(NewBallotState(n)))
  BY NewInv, MessageIsWord
<1> QED
  BY <1>1, MessageFields DEF NewBallotState, NoBallot

\* A node that has accepted the commit may leave the slot.
LEMMA LeavingProtects ==
    ASSUME NEW said, NEW cur, NEW done, NEW F, World(said, cur, done, F),
           Protected(said, cur, done, F),
           NEW a \in Nodes, cur[a].type # "Prepare",
           NEW d, d = Message(NewBallotState(a))
    PROVE  Protected(said, [cur EXCEPT ![a] = d], done \cup {a}, F)
<1>1. PICK new, left : new = [cur EXCEPT ![a] = d] /\ left = done \cup {a}
  OBVIOUS
<1>2. new[a] = d /\ \A v \in Nodes \ {a} : new[v] = cur[v]
  BY <1>1 DEF World
<1>3. d.type = "Prepare" /\ d.Bn = 0 /\ d.Pn = 0 /\ d.Ppn = 0 /\ d.Cn = 0
  BY BlankMessage
<1>4. PICK n \in Nat \ {0}, x \in Values : Decided(said, cur, done, F, n, x)
  BY DEF Protected, Undecided
<1>5. ASSUME NEW k, NEW y, QuorumRefuses(said, cur, done, F, k, y)
      PROVE  QuorumRefuses(said, new, left, F, k, y)
  <2>1. PICK Q \in Quorums : \A u \in Q \ F : Refuses(said, cur, done, u, k, y)
    BY <1>5 DEF QuorumRefuses
  <2>2. ASSUME NEW u \in Q \ F PROVE Refuses(said, new, left, u, k, y)
    <3>1. u \in Nodes /\ Refuses(said, cur, done, u, k, y)
      BY <2>1 DEF Quorums
    <3>2. CASE u = a
      BY <1>1, <1>2, <1>3, <3>1, <3>2 DEF Refuses, VotesCommit
    <3>3. CASE u # a
      BY <1>1, <1>2, <3>1, <3>3 DEF Refuses
    <3> QED
      BY <3>2, <3>3
  <2> QED
    BY <2>2 DEF QuorumRefuses
<1>6. PICK Q \in Quorums : \A v \in Q \ F : Locked(said, cur, done, v, n, x)
  BY <1>4 DEF Decided
<1>7. ASSUME NEW v \in Q \ F PROVE Locked(said, new, left, v, n, x)
  <2>1. v \in Nodes /\ Locked(said, cur, done, v, n, x)
    BY <1>6 DEF Quorums
  <2>2. CASE v = a
    BY <1>1, <1>2, <1>3, <2>1, <2>2, SMT DEF Locked
  <2>3. CASE v # a
    BY <1>1, <1>2, <2>1, <2>3 DEF Locked
  <2> QED
    BY <2>2, <2>3
<1>8. \A v \in Nodes : \A m \in said[v] \cup {new[v]} :
        ~Aborts(m, n, x) /\ (m.type # "Prepare" => m.X = x)
  BY <1>2, <1>3, <1>4, SMT DEF Decided, Aborts
<1>9. Decided(said, new, left, F, n, x)
  BY <1>4, <1>5, <1>6, <1>7, <1>8 DEF Decided
<1> QED
  BY <1>1, <1>9 DEF Protected

\* A node that restarts has forgotten what it said, and that it was done.
LEMMA RestartProtects ==
    ASSUME NEW said, NEW cur, NEW done, NEW F, World(said, cur, done, F),
           Protected(said, cur, done, F),
           NEW a \in Nodes, NEW d, d = Message(NewBallotState(a))
    PROVE  Protected(said, [cur EXCEPT ![a] = d], done \ {a}, F \cup {a})
<1>1. PICK new, left, G : new = [cur EXCEPT ![a] = d] /\ left = done \ {a} /\ G = F \cup {a}
  OBVIOUS
<1>2. new[a] = d /\ \A v \in Nodes \ {a} : new[v] = cur[v]
  BY <1>1 DEF World
<1>3. d.type = "Prepare" /\ d.Bn = 0 /\ d.Pn = 0 /\ d.Ppn = 0 /\ d.Cn = 0
  BY BlankMessage
<1>4. ASSUME NEW k, NEW y, QuorumRefuses(said, cur, done, F, k, y)
      PROVE  QuorumRefuses(said, new, left, G, k, y)
  <2>1. PICK Q \in Quorums : \A u \in Q \ F : Refuses(said, cur, done, u, k, y)
    BY <1>4 DEF QuorumRefuses
  <2>2. \A u \in Q \ G : Refuses(said, new, left, u, k, y)
    BY <1>1, <1>2, <2>1 DEF Refuses, Quorums
  <2> QED
    BY <2>2 DEF QuorumRefuses
<1>5. CASE Undecided(said, cur, done, F)
  <2>1. \A v \in Nodes : \A m \in said[v] \cup {new[v]} : m.type = "Prepare"
    BY <1>2, <1>3, <1>5 DEF Undecided
  <2>2. \A v \in Nodes \ G : \A m \in said[v] : Behind(m, new[v])
    BY <1>1, <1>2, <1>5 DEF Undecided
  <2>3. ASSUME NEW n \in Nat \ {0}, NEW x \in Values,
               NEW v \in Nodes, NEW m \in said[v] \cup {new[v]}, Aborts(m, n, x)
        PROVE  QuorumRefuses(said, new, left, G, n, x)
    <3>1. m # d
      BY <1>3, <2>3 DEF Aborts
    <3>2. m \in said[v] \cup {cur[v]}
      BY <1>2, <2>3, <3>1
    <3>3. QuorumRefuses(said, cur, done, F, n, x)
      BY <1>5, <2>3, <3>2 DEF Undecided
    <3> QED
      BY <1>4, <3>3
  <2>4. Undecided(said, new, left, G)
    BY <1>1, <1>5, <2>1, <2>2, <2>3 DEF Undecided
  <2> QED
    BY <1>1, <2>4 DEF Protected
<1>6. ASSUME NEW n \in Nat \ {0}, NEW x \in Values, Decided(said, cur, done, F, n, x)
      PROVE  Decided(said, new, left, G, n, x)
  <2>1. PICK Q \in Quorums : \A v \in Q \ F : Locked(said, cur, done, v, n, x)
    BY <1>6 DEF Decided
  <2>2. \A v \in Q \ G : Locked(said, new, left, v, n, x)
    BY <1>1, <1>2, <2>1 DEF Locked, Quorums
  <2>3. \A v \in Nodes : \A m \in said[v] \cup {new[v]} :
          ~Aborts(m, n, x) /\ (m.type # "Prepare" => m.X = x)
    BY <1>2, <1>3, <1>6, SMT DEF Decided, Aborts
  <2> QED
    BY <1>4, <1>6, <2>2, <2>3 DEF Decided
<1> QED
  BY <1>1, <1>5, <1>6 DEF Protected

-------------------------------------------------------------------------------
(***************************************************************************)
(* What the methods of BallotState do to the votes of all.                 *)
(***************************************************************************)

\* The node finds a quorum among those it counts.
LEMMA QuorumFound ==
    ASSUME NEW us \in Nodes, NEW S \in SUBSET Nodes, MeetsQuorum(us, S)
    PROVE  \E Q \in Quorums : Q \subseteq S
BY DEF MeetsQuorum, Quorums

\* The empty set has no members.
LEMMA NothingCounts == Cardinality({}) = 0
BY DEF Cardinality

\* Nobody is blocked by no one.
LEMMA BlockersExist ==
    ASSUME NEW n \in Nodes, NEW S, BlockedBy(Slice[n], S)
    PROVE  S # {}
<1> SUFFICES ASSUME S = {} PROVE FALSE
  OBVIOUS
<1>1. Slice[n].Members \cap S = {}
  OBVIOUS
<1> QED
  BY <1>1, NothingCounts DEF BlockedBy, atLeast

\* What the nodes would say when the state of node a is t.
Now(cur, a, t) == [cur EXCEPT ![a] = Message(t)]

\* t is a state of node a, which knows no message that was not said, and the
\* votes of all are protected when it is the state of a.
Secure(t, a, said, cur, done, F) ==
    /\ StateInv(t) /\ t.publicKey = a
    /\ \A j \in Heard(t) : t.M[j] \in said[j]
    /\ Protected(said, Now(cur, a, t), done, F)

\* The state of a node replaces what the node would have said.
LEMMA SecureWorld ==
    ASSUME NEW said, NEW cur, NEW done, NEW F, World(said, cur, done, F),
           NEW a \in Nodes, NEW t, StateInv(t)
    PROVE  World(said, Now(cur, a, t), done, F) /\ Now(cur, a, t)[a] = Message(t)
<1> DEFINE now == Now(cur, a, t)
<1>1. Message(t) \in Words /\ Sound(Message(t))
  BY MessageIsWord
<1>2. cur \in [Nodes -> Words]
  BY DEF World
<1>3. /\ now \in [Nodes -> Words] /\ now[a] = Message(t)
      /\ \A v \in Nodes \ {a} : now[v] = cur[v]
  BY <1>1, <1>2 DEF Now
<1> HIDE DEF now
<1>4. \A v \in Nodes : \A m \in said[v] \cup {now[v]} : Sound(m)
  BY <1>1, <1>3 DEF World
<1>5. World(said, now, done, F)
  BY <1>3, <1>4 DEF World
<1> QED
  BY <1>3, <1>5 DEF now

\* What CanAcceptAsPrepared found is support in the sense of the votes.
LEMMA PrepareHasSupport ==
    ASSUME NEW said, NEW cur, NEW a \in Nodes, NEW t, StateInv(t), t.publicKey = a,
           cur[a] = Message(t), \A j \in Heard(t) : t.M[j] \in said[j],
           NEW h, NEW y, CanAcceptAsPrepared(t, h, y)
    PROVE  PrepareSupport(said, cur, h, y)
<1> DEFINE accepted == {j \in Heard(t) : AcceptAsPrepared(t.M[j], h, y)}
           voted == {j \in Heard(t) : VoteToPrepare(t.M[j], h, y)}
           us == Us(t, t.b # NoBallot /\ t.b.n >= h /\ t.b.x = y)
<1>1. /\ t.phase = "Prepare" /\ Heard(t) \subseteq Nodes
      /\ IsQuorum(t, accepted \cup voted \cup us) \/ IsBlocked(t, accepted)
  BY DEF CanAcceptAsPrepared, Heard
<1>2. CASE accepted # {}
  BY <1>1, <1>2 DEF PrepareSupport
<1>3. CASE accepted = {}
  <2>1. ~IsBlocked(t, accepted)
    BY <1>3, BlockersExist DEF IsBlocked
  <2>2. MeetsQuorum(a, accepted \cup voted \cup us)
    BY <1>1, <2>1 DEF IsQuorum
  <2>3. accepted \cup voted \cup us \in SUBSET Nodes
    BY <1>1 DEF Us
  <2>4. PICK Q \in Quorums : Q \subseteq accepted \cup voted \cup us
    BY <2>2, <2>3, QuorumFound, SMT
  <2>5. ASSUME NEW v \in Q PROVE \E m \in said[v] \cup {cur[v]} : VoteToPrepare(m, h, y)
    <3>1. CASE v \in voted
      BY <3>1
    <3>2. CASE v \in us
      <4>1. v = a /\ t.b.n >= h /\ t.b.x = y
        BY <3>2 DEF Us
      <4>2. VoteToPrepare(cur[a], h, y)
        BY <1>1, <4>1, MessageFields DEF VoteToPrepare
      <4> QED
        BY <4>1, <4>2
    <3> QED
      BY <1>3, <2>4, <3>1, <3>2
  <2> QED
    BY <2>5 DEF PrepareSupport
<1> QED
  BY <1>2, <1>3

\* What CanAcceptAsCommitted found is, too.
LEMMA CommitHasSupport ==
    ASSUME NEW said, NEW cur, NEW a \in Nodes, NEW t, StateInv(t), t.publicKey = a,
           cur[a] = Message(t), \A j \in Heard(t) : t.M[j] \in said[j],
           NEW n, NEW x, CanAcceptAsCommitted(t, n, x)
    PROVE  /\ CommitSupport(said, cur, n, x)
           /\ \/ t.phase = "Prepare" /\ t.z = x /\ t.b.x = x /\ t.cn # 0
              \/ IsBlocked(t, {j \in Heard(t) : AcceptAsCommitted(t.M[j], n, x)})
<1> DEFINE accepted == {j \in Heard(t) : AcceptAsCommitted(t.M[j], n, x)}
           voted == {j \in Heard(t) : VoteToCommit(t.M[j], n, x)}
           vote == /\ t.phase = "Prepare"
                   /\ t.b # NoBallot /\ t.b.x = x
                   /\ t.cn # 0 /\ t.cn <= n /\ n <= t.hn
           us == Us(t, vote)
<1>1. /\ Heard(t) \subseteq Nodes
      /\ IsQuorum(t, accepted \cup voted \cup us) \/ IsBlocked(t, accepted)
  BY DEF CanAcceptAsCommitted, Heard
<1>2. \/ t.phase = "Prepare" /\ t.z = x /\ t.b.x = x /\ t.cn # 0
      \/ IsBlocked(t, accepted)
  <2> SUFFICES ASSUME IsQuorum(t, accepted \cup voted \cup us)
               PROVE  t.phase = "Prepare" /\ t.z = x /\ t.b.x = x /\ t.cn # 0
    BY <1>1
  <2>1. WellTyped(t)
    BY DEF StateInv
  <2>2. vote
    <3>1. us \cup (accepted \cup voted) = accepted \cup voted \cup us
      OBVIOUS
    <3>2. accepted \cup voted \in SUBSET Heard(t) /\ vote \in BOOLEAN
      OBVIOUS
    <3> HIDE DEF accepted, voted, vote
    <3> QED
      BY <2>1, <3>1, <3>2, QuorumOpinion
  <2> QED
    BY <2>2 DEF StateInv, CommitVoteIsNext
<1>3. CommitSupport(said, cur, n, x)
  <2>1. CASE \E j \in accepted \cup voted : t.M[j].type # "Prepare"
    <3>1. PICK j \in accepted \cup voted : t.M[j].type # "Prepare"
      BY <2>1
    <3>2. t.M[j].X = x
      BY <3>1 DEF AcceptAsCommitted, VoteToCommit
    <3> QED
      BY <1>1, <3>1, <3>2 DEF CommitSupport
  <2>2. CASE \A j \in accepted \cup voted : t.M[j].type = "Prepare"
    <3>1. accepted = {}
      BY <2>2 DEF AcceptAsCommitted
    <3>2. MeetsQuorum(a, accepted \cup voted \cup us)
      <4>1. ~IsBlocked(t, accepted)
        BY <3>1, BlockersExist DEF IsBlocked
      <4> QED
        BY <1>1, <4>1 DEF IsQuorum
    <3>3. accepted \cup voted \cup us \in SUBSET Nodes
      BY <1>1 DEF Us
    <3>4. PICK Q \in Quorums : Q \subseteq accepted \cup voted \cup us
      <4> HIDE DEF accepted, voted, us
      <4> QED
        BY <3>2, <3>3, QuorumFound
    <3>5. ASSUME NEW v \in Q PROVE \E m \in said[v] \cup {cur[v]} : VotesCommit(m, n, x)
      <4>1. CASE v \in voted
        <5>1. VotesCommit(t.M[v], n, x) /\ t.M[v] \in said[v]
          BY <2>2, <4>1 DEF VoteToCommit, VotesCommit
        <5> QED
          BY <5>1
      <4>2. CASE v \in us
        <5>1. v = a /\ vote
          BY <4>2 DEF Us
        <5>2. VotesCommit(cur[a], n, x)
          BY <5>1, MessageFields DEF VotesCommit
        <5> QED
          BY <5>1, <5>2
      <4> QED
        BY <3>1, <3>4, <4>1, <4>2
    <3> QED
      BY <3>5 DEF CommitSupport
  <2> QED
    BY <2>1, <2>2
<1> QED
  BY <1>2, <1>3

\* A step within the Prepare phase.
LEMMA PrepareSecure ==
    ASSUME NEW said, NEW cur, NEW done, NEW F, World(said, cur, done, F),
           NEW a \in Nodes, a \notin done, NEW s, Secure(s, a, said, cur, done, F),
           NEW t, StateInv(t), Keeps(s, t), t.publicKey = s.publicKey, t.M = s.M,
           s.phase = "Prepare", t.phase = "Prepare",
           \/ t.p = s.p /\ t.pPrime = s.pPrime
           \/ \E h \in Nat \ {0}, y \in Values :
                /\ CanAcceptAsPrepared(s, h, y)
                /\ {t.p, t.pPrime} \subseteq {s.p, s.pPrime, [n |-> h, x |-> y]}
    PROVE  Secure(t, a, said, cur, done, F)
<1>1. PICK now : now = Now(cur, a, s)
  OBVIOUS
<1>2. StateInv(s) /\ s.publicKey = a /\ Protected(said, now, done, F)
      /\ \A j \in Heard(s) : s.M[j] \in said[j]
  BY <1>1 DEF Secure
<1>3. World(said, now, done, F) /\ now[a] = Message(s)
      /\ [now EXCEPT ![a] = Message(t)] = Now(cur, a, t)
  <2>1. World(said, now, done, F) /\ now[a] = Message(s)
    BY <1>1, <1>2, SecureWorld, SMT
  <2>2. cur \in [Nodes -> Words]
    BY DEF World
  <2>3. [now EXCEPT ![a] = Message(t)] = Now(cur, a, t)
    BY <1>1, <2>2 DEF Now
  <2> QED
    BY <2>1, <2>3
<1>4. PICK c, d : c = Message(s) /\ d = Message(t)
  OBVIOUS
<1>5. KeepsWord(c, d) /\ d \in Words
  BY <1>2, <1>4, MessageKeeps, MessageIsWord
<1>6. /\ c.type = "Prepare" /\ d.type = "Prepare"
      /\ c.Pn = s.p.n /\ c.Px = s.p.x /\ c.Ppn = s.pPrime.n /\ c.Ppx = s.pPrime.x
      /\ d.Pn = t.p.n /\ d.Px = t.p.x /\ d.Ppn = t.pPrime.n /\ d.Ppx = t.pPrime.x
  BY <1>4, MessageFields
<1>7. Protected(said, [now EXCEPT ![a] = d], done, F)
  <2>1. CASE t.p = s.p /\ t.pPrime = s.pPrime
    <3>1. \A n \in Nat \ {0}, x \in Values : Aborts(d, n, x) => Aborts(now[a], n, x)
      BY <1>3, <1>4, <1>6, <2>1 DEF Aborts
    <3> QED
      BY <1>2, <1>3, <1>4, <1>5, <3>1, PrepareProtects, ZenonT(60)
  <2>2. CASE \E h \in Nat \ {0}, y \in Values :
               /\ CanAcceptAsPrepared(s, h, y)
               /\ {t.p, t.pPrime} \subseteq {s.p, s.pPrime, [n |-> h, x |-> y]}
    <3>1. PICK h \in Nat \ {0}, y \in Values :
            /\ CanAcceptAsPrepared(s, h, y)
            /\ {t.p, t.pPrime} \subseteq {s.p, s.pPrime, [n |-> h, x |-> y]}
      BY <2>2
    <3>2. PrepareSupport(said, now, h, y)
      BY <1>2, <1>3, <3>1, PrepareHasSupport
    <3>3. ASSUME NEW n \in Nat \ {0}, NEW x \in Values, Aborts(d, n, x)
          PROVE  Aborts(c, n, x) \/ (n <= h /\ x # y)
      <4>1. PICK q \in {t.p, t.pPrime} : q.n >= n /\ q.x # x
        BY <1>6, <3>3 DEF Aborts
      <4>2. CASE q \in {s.p, s.pPrime}
        BY <1>6, <4>1, <4>2 DEF Aborts
      <4>3. CASE q = [n |-> h, x |-> y]
        BY <4>1, <4>3
      <4> QED
        BY <3>1, <4>1, <4>2, <4>3
    <3>4. \A n \in Nat \ {0}, x \in Values :
            Aborts(d, n, x) => Aborts(now[a], n, x) \/ (n <= h /\ x # y)
      BY <1>3, <1>4, <3>3
    <3>5. \E hh \in Nat \ {0}, yy \in Values :
            /\ PrepareSupport(said, now, hh, yy)
            /\ \A n \in Nat \ {0}, x \in Values :
                 Aborts(d, n, x) => Aborts(now[a], n, x) \/ (n <= hh /\ x # yy)
      BY <3>2, <3>4
    <3>6. KeepsWord(now[a], d)
      BY <1>3, <1>4, <1>5
    <3> QED
      BY <1>2, <1>3, <1>5, <3>5, <3>6, PrepareProtects, ZenonT(60)
  <2> QED
    BY <2>1, <2>2
<1>8. \A j \in Heard(t) : t.M[j] \in said[j]
  BY <1>2 DEF Heard
<1> QED
  BY <1>2, <1>3, <1>4, <1>7, <1>8 DEF Secure

\* A step past the Prepare phase that keeps the value.
LEMMA ValueSecure ==
    ASSUME NEW said, NEW cur, NEW done, NEW F, World(said, cur, done, F),
           NEW a \in Nodes, a \notin done, NEW s, Secure(s, a, said, cur, done, F),
           NEW t, StateInv(t), t.publicKey = s.publicKey, t.M = s.M,
           s.phase # "Prepare", t.phase # "Prepare", t.b.x = s.b.x
    PROVE  Secure(t, a, said, cur, done, F)
<1>1. PICK now : now = Now(cur, a, s)
  OBVIOUS
<1>2. StateInv(s) /\ s.publicKey = a /\ Protected(said, now, done, F)
      /\ \A j \in Heard(s) : s.M[j] \in said[j]
  BY <1>1 DEF Secure
<1>3. World(said, now, done, F) /\ now[a] = Message(s)
      /\ [now EXCEPT ![a] = Message(t)] = Now(cur, a, t)
  <2>1. World(said, now, done, F) /\ now[a] = Message(s)
    BY <1>1, <1>2, SecureWorld, SMT
  <2>2. cur \in [Nodes -> Words]
    BY DEF World
  <2>3. [now EXCEPT ![a] = Message(t)] = Now(cur, a, t)
    BY <1>1, <2>2 DEF Now
  <2> QED
    BY <2>1, <2>3
<1>4. PICK d : d = Message(t)
  OBVIOUS
<1>5. s.phase \in {"Confirm", "Externalize"} /\ t.phase \in {"Confirm", "Externalize"}
  BY <1>2 DEF StateInv, WellTyped, BallotStates, Phases
<1>6. d \in Words /\ d.type # "Prepare" /\ d.X = now[a].X /\ now[a].type # "Prepare"
  BY <1>3, <1>4, <1>5, MessageIsWord, MessageFields
<1>7. Protected(said, [now EXCEPT ![a] = d], done, F)
  BY <1>2, <1>3, <1>6, ValueProtects
<1>8. \A j \in Heard(t) : t.M[j] \in said[j]
  BY <1>2 DEF Heard
<1> QED
  BY <1>2, <1>3, <1>4, <1>7, <1>8 DEF Secure

\* Accepting a commit.
LEMMA CommitSecure ==
    ASSUME NEW said, NEW cur, NEW done, NEW F, World(said, cur, done, F),
           NEW a \in Nodes, a \notin done, NEW s, Secure(s, a, said, cur, done, F),
           NEW t, StateInv(t), t.publicKey = s.publicKey, t.M = s.M,
           NEW n \in Nat \ {0}, NEW x \in Values, CanAcceptAsCommitted(s, n, x),
           t.phase = "Confirm", t.b.x = x
    PROVE  Secure(t, a, said, cur, done, F)
<1>1. PICK now : now = Now(cur, a, s)
  OBVIOUS
<1>2. StateInv(s) /\ s.publicKey = a /\ Protected(said, now, done, F)
      /\ \A j \in Heard(s) : s.M[j] \in said[j]
  BY <1>1 DEF Secure
<1>3. World(said, now, done, F) /\ now[a] = Message(s)
      /\ [now EXCEPT ![a] = Message(t)] = Now(cur, a, t)
  <2>1. World(said, now, done, F) /\ now[a] = Message(s)
    BY <1>1, <1>2, SecureWorld, SMT
  <2>2. cur \in [Nodes -> Words]
    BY DEF World
  <2>3. [now EXCEPT ![a] = Message(t)] = Now(cur, a, t)
    BY <1>1, <2>2 DEF Now
  <2> QED
    BY <2>1, <2>3
<1>4. PICK d : d = Message(t)
  OBVIOUS
<1>5. d \in Words /\ d.type # "Prepare" /\ d.X = x
  BY <1>4, MessageIsWord, MessageFields
<1>6. CommitSupport(said, now, n, x)
  BY <1>2, <1>3, CommitHasSupport
<1>7. Protected(said, [now EXCEPT ![a] = d], done, F)
  BY <1>2, <1>3, <1>5, <1>6, CommitProtects
<1>8. \A j \in Heard(t) : t.M[j] \in said[j]
  BY <1>2 DEF Heard
<1> QED
  BY <1>2, <1>3, <1>4, <1>7, <1>8 DEF Secure

\* The value a node past the Prepare phase would go on with is the one it
\* accepted a commit of, or it has externalized because of a blocking set that
\* accepted the commit too.
GoesOn(t) ==
    /\ t.phase = "Confirm" => t.z = t.b.x
    /\ t.phase = "Externalize" =>
         \/ t.z = t.b.x
         \/ \E B \in SUBSET Heard(t) :
              /\ IsBlocked(t, B)
              /\ \A j \in B : t.M[j].type # "Prepare" /\ t.M[j].X = t.b.x

\* MaybeAcceptAsPrepared.
LEMMA AcceptPreparedSecure ==
    ASSUME NEW said, NEW cur, NEW done, NEW F, World(said, cur, done, F),
           NEW a \in Nodes, a \notin done, NEW s, Secure(s, a, said, cur, done, F),
           NEW n \in Nat \ {0}, NEW x \in Values,
           NEW t, t = MaybeAcceptAsPrepared(s, n, x)
    PROVE  /\ Secure(t, a, said, cur, done, F)
           /\ t.phase = s.phase /\ t.b = s.b /\ t.z = s.z /\ t.M = s.M
           /\ t.publicKey = a
<1>0. StateInv(s) /\ s \in BallotStates /\ s.publicKey = a
  BY DEF Secure, StateInv, WellTyped
<1>1. CASE ~CanAcceptAsPrepared(s, n, x)
  BY <1>0, <1>1 DEF MaybeAcceptAsPrepared
<1>2. CASE CanAcceptAsPrepared(s, n, x)
  <2>1. PICK r : r = RaisePrepared(s, [n |-> n, x |-> x])
    OBVIOUS
  <2>2. t = AbortCommit(r) /\ s.phase = "Prepare"
    BY <1>2, <2>1 DEF MaybeAcceptAsPrepared, CanAcceptAsPrepared
  <2>3. PreparedRaised(s, r)
    BY <1>0, <1>2, <2>1, RaisePreparedKeeps DEF StateInv
  <2>4. /\ r \in BallotStates /\ r.phase = s.phase /\ r.b = s.b /\ r.z = s.z /\ r.M = s.M
        /\ r.publicKey = s.publicKey
    <3>1. r = [s EXCEPT !.p = r.p, !.pPrime = r.pPrime] /\ r \in BallotStates
      BY <2>3 DEF PreparedRaised
    <3> QED
      BY <1>0, <3>1 DEF BallotStates
  <2>5. {r.p, r.pPrime} \subseteq {s.p, s.pPrime, [n |-> n, x |-> x]}
    BY <1>0, <2>1 DEF RaisePrepared, BallotStates
  <2>6. /\ t.phase = r.phase /\ t.b = r.b /\ t.z = r.z /\ t.M = r.M
        /\ t.p = r.p /\ t.pPrime = r.pPrime /\ t.publicKey = r.publicKey
    BY <2>2, <2>4 DEF AbortCommit, BallotStates
  <2>7. StateInv(t) /\ Keeps(s, t)
    BY <1>0, AcceptPreparedInv
  <2>8. {t.p, t.pPrime} \subseteq {s.p, s.pPrime, [n |-> n, x |-> x]}
    BY <2>5, <2>6
  <2>9. Secure(t, a, said, cur, done, F)
    BY <1>0, <1>2, <2>2, <2>4, <2>6, <2>7, <2>8, PrepareSecure
  <2> QED
    BY <1>0, <2>4, <2>6, <2>9
<1> QED
  BY <1>1, <1>2

\* MaybeConfirmAsPrepared does not touch p and p'.
LEMMA ConfirmPreparedSecure ==
    ASSUME NEW said, NEW cur, NEW done, NEW F, World(said, cur, done, F),
           NEW a \in Nodes, a \notin done, NEW s, Secure(s, a, said, cur, done, F),
           NEW n \in Nat \ {0}, NEW x \in Values,
           NEW t, t = MaybeConfirmAsPrepared(s, n, x)
    PROVE  /\ Secure(t, a, said, cur, done, F)
           /\ t.phase = s.phase /\ t.M = s.M /\ t.publicKey = a
           /\ s.phase # "Prepare" => t.b = s.b /\ t.z = s.z
<1>0. StateInv(s) /\ s \in BallotStates /\ s.publicKey = a
  BY DEF Secure, StateInv, WellTyped
<1>1. CASE ~CanConfirmAsPrepared(s, n, x)
  BY <1>0, <1>1 DEF MaybeConfirmAsPrepared
<1>2. CASE CanConfirmAsPrepared(s, n, x)
  <2>1. s.phase = "Prepare"
    BY <1>2 DEF CanConfirmAsPrepared
  <2>2. /\ t.phase = s.phase /\ t.M = s.M /\ t.publicKey = s.publicKey
        /\ t.p = s.p /\ t.pPrime = s.pPrime
    BY <1>0, <1>2 DEF MaybeConfirmAsPrepared, RaiseConfirmed, BallotStates
  <2>3. StateInv(t) /\ Keeps(s, t)
    BY <1>0, ConfirmPreparedInv
  <2>4. Secure(t, a, said, cur, done, F)
    BY <1>0, <2>1, <2>2, <2>3, PrepareSecure
  <2> QED
    BY <1>0, <2>1, <2>2, <2>4
<1> QED
  BY <1>1, <1>2

\* Moving to the next ballot, past the Prepare phase only with the same value.
LEMMA NextBallotSecure ==
    ASSUME NEW said, NEW cur, NEW done, NEW F, World(said, cur, done, F),
           NEW a \in Nodes, a \notin done, NEW s, Secure(s, a, said, cur, done, F),
           NEW cand \in SlotValues, s.phase # "Prepare" => s.z = s.b.x,
           NEW t, t = GoToNextBallot(s, cand)
    PROVE  /\ Secure(t, a, said, cur, done, F)
           /\ t.phase = s.phase /\ t.M = s.M /\ t.publicKey = a /\ t.z = s.z
           /\ s.phase # "Prepare" => t.z = t.b.x
<1>0. StateInv(s) /\ s \in BallotStates /\ s.publicKey = a
  BY DEF Secure, StateInv, WellTyped
<1>1. CASE NextValue(s, cand) = Nil
  BY <1>0, <1>1 DEF GoToNextBallot
<1>2. CASE NextValue(s, cand) # Nil
  <2>1. /\ t.phase = s.phase /\ t.M = s.M /\ t.publicKey = s.publicKey /\ t.z = s.z
        /\ t.p = s.p /\ t.pPrime = s.pPrime /\ t.b.x = NextValue(s, cand)
    BY <1>0, <1>2 DEF GoToNextBallot, BallotStates
  <2>2. StateInv(t) /\ Keeps(s, t)
    BY <1>0, GoToNextBallotInv
  <2>3. CASE s.phase = "Prepare"
    <3>1. Secure(t, a, said, cur, done, F)
      BY <1>0, <2>1, <2>2, <2>3, PrepareSecure
    <3> QED
      BY <1>0, <2>1, <2>3, <3>1
  <2>4. CASE s.phase # "Prepare"
    <3>1. s.z = s.b.x /\ s.b # NoBallot
      BY <1>0, <2>4 DEF StateInv, BallotKnown
    <3>2. s.b.x # Nil
      BY <1>0, <3>1, FieldTypes DEF StateInv
    <3>3. t.b.x = s.b.x
      BY <2>1, <3>1, <3>2 DEF NextValue
    <3>4. Secure(t, a, said, cur, done, F)
      BY <1>0, <2>1, <2>2, <2>4, <3>3, ValueSecure
    <3> QED
      BY <1>0, <2>1, <3>1, <3>3, <3>4
  <2> QED
    BY <2>3, <2>4
<1> QED
  BY <1>1, <1>2

\* MaybeAcceptAsCommitted, when it accepts.  The value to go on with is the
\* accepted one, unless it was accepted from a blocking set.
LEMMA AcceptCommittedSecure ==
    ASSUME NEW said, NEW cur, NEW done, NEW F, World(said, cur, done, F),
           NEW a \in Nodes, a \notin done, NEW s, Secure(s, a, said, cur, done, F),
           s.phase = "Confirm" => s.z = s.b.x,
           NEW n \in Nat \ {0}, NEW x \in Values, CanAcceptAsCommitted(s, n, x),
           NEW t, t = MaybeAcceptAsCommitted(s, n, x)
    PROVE  /\ Secure(t, a, said, cur, done, F)
           /\ t.phase = "Confirm" /\ t.M = s.M /\ t.publicKey = a /\ t.b.x = x
           /\ t.cn <= n /\ n <= t.hn
           /\ \/ t.z = x
              \/ IsBlocked(t, {j \in Heard(t) : AcceptAsCommitted(t.M[j], n, x)})
<1>0. /\ StateInv(s) /\ s \in BallotStates /\ s.publicKey = a
      /\ \A j \in Heard(s) : s.M[j] \in said[j]
  BY DEF Secure, StateInv, WellTyped
<1>1. s.cn \in Nat /\ s.hn \in Nat /\ s.cn <= s.hn
  BY <1>0, FieldTypes DEF StateInv, ValidRange
<1>2. StateInv(t)
  BY <1>0, AcceptCommittedInv
<1>3. /\ t.phase = "Confirm" /\ t.M = s.M /\ t.publicKey = a /\ t.b.x = x
      /\ s.b.x = x => t.z = s.z
      /\ s.b.x # x => t.z = x
      /\ t.cn <= n /\ n <= t.hn
  <2>1. CASE s.b = NoBallot \/ s.b.x # x
    <3>1. s.b.x # x
      BY <2>1, NilAssumption DEF NoBallot
    <3> QED
      BY <1>0, <2>1, <3>1, SMT DEF MaybeAcceptAsCommitted, BallotStates
  <2>2. CASE ~(s.b = NoBallot \/ s.b.x # x)
    <3>1. t = WidenRange([s EXCEPT !.phase = "Confirm"], n)
      BY <2>2 DEF MaybeAcceptAsCommitted
    <3> QED
      BY <1>0, <1>1, <2>2, <3>1, SMT DEF WidenRange, BallotStates
  <2> QED
    BY <2>1, <2>2
<1>4. Secure(t, a, said, cur, done, F)
  BY <1>0, <1>2, <1>3, CommitSecure
<1>5. \/ t.z = x
      \/ IsBlocked(t, {j \in Heard(t) : AcceptAsCommitted(t.M[j], n, x)})
  <2>1. PICK now : now = Now(cur, a, s)
    OBVIOUS
  <2>2. now[a] = Message(s)
    BY <1>0, <2>1, SecureWorld, SMT
  <2>3. \/ s.phase = "Prepare" /\ s.z = x /\ s.b.x = x /\ s.cn # 0
        \/ IsBlocked(s, {j \in Heard(s) : AcceptAsCommitted(s.M[j], n, x)})
    BY <1>0, <2>2, CommitHasSupport, ZenonT(60)
  <2>4. CASE s.phase = "Prepare" /\ s.z = x /\ s.b.x = x
    BY <1>3, <2>4
  <2>5. CASE IsBlocked(s, {j \in Heard(s) : AcceptAsCommitted(s.M[j], n, x)})
    BY <1>0, <1>3, <2>5 DEF IsBlocked, Heard
  <2> QED
    BY <2>3, <2>4, <2>5
<1> QED
  BY <1>3, <1>4, <1>5

\* MaybeConfirmAsCommitted changes neither the ballot nor the value to go on with.
LEMMA ConfirmCommittedSecure ==
    ASSUME NEW said, NEW cur, NEW done, NEW F, World(said, cur, done, F),
           NEW a \in Nodes, a \notin done, NEW s, Secure(s, a, said, cur, done, F),
           NEW n \in Nat \ {0}, NEW x \in Values,
           NEW t, t = MaybeConfirmAsCommitted(s, n, x)
    PROVE  /\ Secure(t, a, said, cur, done, F)
           /\ t.M = s.M /\ t.publicKey = a /\ t.b = s.b /\ t.z = s.z
           /\ t.phase = s.phase \/ (s.phase # "Prepare" /\ t.phase = "Externalize")
<1>0. StateInv(s) /\ s \in BallotStates /\ s.publicKey = a
  BY DEF Secure, StateInv, WellTyped
<1>1. CASE ~CanConfirmAsCommitted(s, n, x)
  BY <1>0, <1>1 DEF MaybeConfirmAsCommitted
<1>2. CASE CanConfirmAsCommitted(s, n, x)
  <2>1. s.phase # "Prepare"
    BY <1>2 DEF CanConfirmAsCommitted
  <2>2. /\ t.M = s.M /\ t.publicKey = s.publicKey /\ t.b = s.b /\ t.z = s.z
        /\ t.phase = s.phase \/ t.phase = "Externalize"
    BY <1>0, <1>2 DEF MaybeConfirmAsCommitted, WidenRange, BallotStates
  <2>3. StateInv(t)
    BY <1>0, ConfirmCommittedInv
  <2>4. Secure(t, a, said, cur, done, F)
    BY <1>0, <2>1, <2>2, <2>3, ValueSecure
  <2> QED
    BY <1>0, <2>1, <2>2, <2>4
<1> QED
  BY <1>1, <1>2

\* One round of InvestigateBallot.  Where the commit is accepted from a blocking
\* set that is not about the value to go on with, it is confirmed at once.
LEMMA InvestigateSecure ==
    ASSUME BlockersDecide,
           NEW said, NEW cur, NEW done, NEW F, World(said, cur, done, F),
           NEW a \in Nodes, a \notin done,
           NEW s, Secure(s, a, said, cur, done, F), GoesOn(s),
           NEW n \in Nat, NEW x \in Values,
           NEW t, t = InvestigateBallot(s, n, x)
    PROVE  Secure(t, a, said, cur, done, F) /\ GoesOn(t)
<1>1. CASE n < 1
  BY <1>1 DEF InvestigateBallot
<1>2. CASE n >= 1
  <2>1. PICK s1 : s1 = MaybeAcceptAsPrepared(s, n, x)
    OBVIOUS
  <2>2. PICK s2 : s2 = MaybeConfirmAsPrepared(s1, n, x)
    OBVIOUS
  <2>3. PICK s3 : s3 = MaybeAcceptAsCommitted(s2, n, x)
    OBVIOUS
  <2>4. t = MaybeConfirmAsCommitted(s3, n, x) /\ n \in Nat \ {0}
    BY <1>2, <2>1, <2>2, <2>3 DEF InvestigateBallot
  <2>5. /\ Secure(s1, a, said, cur, done, F)
        /\ s1.phase = s.phase /\ s1.b = s.b /\ s1.z = s.z /\ s1.M = s.M
    BY <2>1, <2>4, AcceptPreparedSecure, SMT
  <2>6. /\ Secure(s2, a, said, cur, done, F) /\ s2.phase = s.phase /\ s2.M = s.M
        /\ s.phase # "Prepare" => s2.b = s.b /\ s2.z = s.z
    BY <2>2, <2>4, <2>5, ConfirmPreparedSecure, SMT
  <2>7. s.publicKey = a /\ s2.publicKey = a
    BY <2>6 DEF Secure
  <2>8. GoesOn(s2)
    BY <2>6, <2>7 DEF GoesOn, Heard, IsBlocked
  <2>9. CASE ~CanAcceptAsCommitted(s2, n, x)
    <3>1. s3 = s2
      BY <2>3, <2>9 DEF MaybeAcceptAsCommitted
    <3>2. /\ Secure(t, a, said, cur, done, F) /\ t.M = s2.M /\ t.publicKey = a
          /\ t.b = s2.b /\ t.z = s2.z
          /\ t.phase = s2.phase \/ (s2.phase # "Prepare" /\ t.phase = "Externalize")
      BY <2>4, <2>6, <3>1, ConfirmCommittedSecure, SMT
    <3>3. s2.phase \in {"Prepare", "Confirm", "Externalize"}
      BY <2>6 DEF Secure, StateInv, WellTyped, BallotStates, Phases
    <3>4. GoesOn(t)
      BY <2>7, <2>8, <3>2, <3>3 DEF GoesOn, Heard, IsBlocked
    <3> QED
      BY <3>2, <3>4
  <2>10. CASE CanAcceptAsCommitted(s2, n, x)
    <3> DEFINE B == {j \in Heard(s3) : AcceptAsCommitted(s3.M[j], n, x)}
    <3>1. /\ Secure(s3, a, said, cur, done, F) /\ s3.phase = "Confirm"
          /\ s3.publicKey = a /\ s3.b.x = x /\ s3.cn <= n /\ n <= s3.hn
          /\ s3.z = x \/ IsBlocked(s3, B)
      <4>1. s2.phase = "Confirm" => s2.z = s2.b.x
        BY <2>8 DEF GoesOn
      <4> QED
        BY <2>3, <2>4, <2>6, <2>10, <4>1, AcceptCommittedSecure, SMT
    <3>2. /\ Secure(t, a, said, cur, done, F) /\ t.M = s3.M /\ t.publicKey = a
          /\ t.b = s3.b /\ t.z = s3.z
      BY <2>4, <3>1, ConfirmCommittedSecure, SMT
    <3>3. CASE s3.z = x
      BY <3>1, <3>2, <3>3 DEF GoesOn
    <3>4. CASE IsBlocked(s3, B)
      <4>1. s3.M[a] = Nil /\ s3 \in BallotStates /\ s3.b # NoBallot
        BY <3>1 DEF Secure, StateInv, WellTyped, BallotKnown
      <4>2. B \in SUBSET (Nodes \ {a}) /\ BlockedBy(Slice[a], B)
        BY <3>1, <3>4, <4>1 DEF Heard, IsBlocked
      <4>3. MeetsQuorum(a, B \cup {a})
        <5> HIDE DEF B
        <5> QED
          BY <4>2 DEF BlockersDecide
      <4>4. /\ Us(s3, s3.phase = "Confirm" /\ s3.cn <= n /\ n <= s3.hn) = {a}
        BY <3>1 DEF Us
      <4>5. {a} \cup B = B \cup {a}
        OBVIOUS
      <4>6. CanConfirmAsCommitted(s3, n, x)
        BY <3>1, <4>1, <4>3, <4>4, <4>5 DEF CanConfirmAsCommitted, IsQuorum
      <4>7. t.phase = "Externalize"
        BY <2>4, <3>1, <4>1, <4>6 DEF MaybeConfirmAsCommitted, BallotStates
      <4>8. \A j \in B : t.M[j].type # "Prepare" /\ t.M[j].X = t.b.x
        BY <3>1, <3>2 DEF AcceptAsCommitted
      <4>9. B \in SUBSET Heard(t) /\ IsBlocked(t, B)
        BY <3>1, <3>2, <3>4 DEF Heard, IsBlocked
      <4> QED
        BY <3>2, <4>7, <4>8, <4>9 DEF GoesOn
    <3> QED
      BY <3>1, <3>3, <3>4
  <2> QED
    BY <2>9, <2>10
<1> QED
  BY <1>1, <1>2

\* A node that leaves a blocked ballot goes on with its value: where it would
\* not, the blocking set that made it externalize keeps the ballot alive.
LEMMA LeaveBallotSecure ==
    ASSUME BlockersDecide,
           NEW said, NEW cur, NEW done, NEW F, World(said, cur, done, F),
           NEW a \in Nodes, a \notin done,
           NEW s, Secure(s, a, said, cur, done, F), GoesOn(s),
           NEW cand \in SlotValues, BallotBlocked(s, cand),
           NEW t, t = GoToNextBallot(s, cand)
    PROVE  Secure(t, a, said, cur, done, F) /\ GoesOn(t)
<1>0. StateInv(s) /\ s.publicKey = a /\ s.M[a] = Nil /\ s.phase \in Phases
  BY DEF Secure, StateInv, WellTyped, BallotStates
<1>1. s.phase # "Prepare" => s.z = s.b.x
  <2> SUFFICES ASSUME s.phase # "Prepare", s.z # s.b.x PROVE FALSE
    OBVIOUS
  <2>1. PICK B \in SUBSET Heard(s) :
          /\ IsBlocked(s, B)
          /\ \A j \in B : s.M[j].type # "Prepare" /\ s.M[j].X = s.b.x
    BY <1>0 DEF GoesOn, Phases
  <2>2. PICK C : C = {j \in Heard(s) : ~CouldEverVoteFor(s.M[j], s.b.n, s.b.x)}
    OBVIOUS
  <2>3. IsBlocked(s, C)
    BY <2>2 DEF BallotBlocked, Blocked
  <2>4. B \in SUBSET (Nodes \ {a}) /\ C \in SUBSET (Nodes \ {a})
    BY <1>0, <2>2 DEF Heard
  <2>5. B \cap C # {}
    BY <1>0, <2>1, <2>3, <2>4 DEF BlockersDecide, IsBlocked
  <2>6. \A j \in B : CouldEverVoteFor(s.M[j], s.b.n, s.b.x)
    BY <2>1 DEF CouldEverVoteFor
  <2> QED
    BY <2>2, <2>5, <2>6
<1>2. /\ Secure(t, a, said, cur, done, F) /\ t.phase = s.phase
      /\ s.phase # "Prepare" => t.z = t.b.x
  BY <1>1, NextBallotSecure, SMT
<1> QED
  BY <1>2 DEF GoesOn

\* What does not change the message, and stores only what was said.
LEMMA SameSecure ==
    ASSUME NEW said, NEW cur, NEW done, NEW F, NEW a,
           NEW s, Secure(s, a, said, cur, done, F), NEW t, StateInv(t),
           t.publicKey = s.publicKey, t.phase = s.phase, t.b = s.b, t.p = s.p,
           t.pPrime = s.pPrime, t.cn = s.cn, t.hn = s.hn,
           \A j \in Heard(t) : t.M[j] \in said[j]
    PROVE  Secure(t, a, said, cur, done, F)
<1>1. Message(t) = Message(s)
  BY DEF Message
<1> QED
  BY <1>1 DEF Secure, Now

\* AssertValid changes nothing that peers see.
LEMMA AssertSecure ==
    ASSUME NEW said, NEW cur, NEW done, NEW F, NEW a,
           NEW s, Secure(s, a, said, cur, done, F), GoesOn(s),
           NEW t, t = AssertValid(s)
    PROVE  Secure(t, a, said, cur, done, F) /\ GoesOn(t)
<1>1. /\ StateInv(s) /\ s \in BallotStates
      /\ \A j \in Heard(s) : s.M[j] \in said[j]
  BY DEF Secure, StateInv, WellTyped
<1>2. StateInv(t)
  BY <1>1, AssertValidInv
<1>3. /\ t.publicKey = s.publicKey /\ t.phase = s.phase /\ t.b = s.b /\ t.p = s.p
      /\ t.pPrime = s.pPrime /\ t.cn = s.cn /\ t.hn = s.hn /\ t.z = s.z
      /\ t.M = s.M
  BY <1>1 DEF AssertValid, BallotStates
<1>4. \A j \in Heard(t) : t.M[j] \in said[j]
  BY <1>1, <1>3 DEF Heard
<1>5. Secure(t, a, said, cur, done, F)
  BY <1>2, <1>3, <1>4, SameSecure
<1>6. GoesOn(t)
  BY <1>3 DEF GoesOn, Heard, IsBlocked
<1> QED
  BY <1>5, <1>6

\* Handle of a message that is not new.
LEMMA DuplicateSecure ==
    ASSUME NEW said, NEW cur, NEW done, NEW F, World(said, cur, done, F),
           NEW a \in Nodes, a \notin done,
           NEW s, Secure(s, a, said, cur, done, F), GoesOn(s), s.phase # "Externalize",
           NEW node \in Nodes, NEW cand \in SlotValues,
           NEW t, t = AssertValid(HandleDuplicate(s, node, cand))
    PROVE  Secure(t, a, said, cur, done, F) /\ GoesOn(t)
<1>1. /\ StateInv(s) /\ s \in BallotStates /\ s.M[s.publicKey] = Nil
      /\ s.stale \in [Nodes -> Nat] /\ s.phase \in Phases
      /\ \A j \in Heard(s) : s.M[j] \in said[j]
  BY DEF Secure, StateInv, WellTyped, BallotStates
<1>2. s.phase # "Prepare" => s.z = s.b.x
  BY <1>1 DEF GoesOn, Phases
<1>3. ASSUME NEW c \in [Nodes -> Nat], NEW r, r = [s EXCEPT !.stale = c]
      PROVE  /\ Secure(r, a, said, cur, done, F) /\ r.phase = s.phase
             /\ r.z = s.z /\ r.b = s.b
  <2>1. /\ r \in BallotStates /\ r.publicKey = s.publicKey /\ r.phase = s.phase
        /\ r.b = s.b /\ r.p = s.p /\ r.z = s.z
        /\ r.pPrime = s.pPrime /\ r.cn = s.cn /\ r.hn = s.hn /\ r.M = s.M
        /\ r = [s EXCEPT !.M = r.M, !.stale = r.stale]
    BY <1>1, <1>3 DEF BallotStates
  <2>2. StateInv(r)
    BY <1>1, <2>1, QuietStep
  <2>3. \A j \in Heard(r) : r.M[j] \in said[j]
    BY <1>1, <2>1 DEF Heard
  <2> QED
    BY <2>1, <2>2, <2>3, SameSecure
<1>4. PICK h : h = HandleDuplicate(s, node, cand)
  OBVIOUS
<1>5. PICK c \in [Nodes -> Nat] :
        c = [s.stale EXCEPT ![node] = IF @ < StaleLimit THEN @ + 1 ELSE @]
  <2>1. PICK k \in Nat : k = IF s.stale[node] < StaleLimit THEN s.stale[node] + 1
                                                          ELSE s.stale[node]
    BY <1>1, StaleLimitAssumption, SMT
  <2>2. [s.stale EXCEPT ![node] = k] \in [Nodes -> Nat]
    BY <1>1
  <2> QED
    BY <2>1, <2>2
<1>6. PICK r : r = [s EXCEPT !.stale = c]
  OBVIOUS
<1>7. PICK w : w = [s EXCEPT !.stale = [n \in Nodes |-> 0]]
  OBVIOUS
<1>8. h = r \/ h = w \/ h = GoToNextBallot(w, cand)
  <2>1. [s EXCEPT !.stale[node] = IF @ < StaleLimit THEN @ + 1 ELSE @] = r
    BY <1>1, <1>5, <1>6 DEF BallotStates
  <2>2. [r EXCEPT !.stale = [n \in Nodes |-> 0]] = w
    BY <1>1, <1>6, <1>7 DEF BallotStates
  <2>3. h = CheckIfStale(r, cand)
    BY <1>4, <2>1 DEF HandleDuplicate
  <2> QED
    BY <2>2, <2>3 DEF CheckIfStale, HandleStaleQuorum
<1>9. Secure(r, a, said, cur, done, F) /\ GoesOn(r)
  BY <1>1, <1>2, <1>3, <1>6 DEF GoesOn
<1>10. /\ Secure(w, a, said, cur, done, F) /\ GoesOn(w)
       /\ w.phase # "Prepare" => w.z = w.b.x
  <2>1. PICK zero \in [Nodes -> Nat] : zero = [n \in Nodes |-> 0]
    OBVIOUS
  <2>2. w = [s EXCEPT !.stale = zero]
    BY <1>7, <2>1
  <2>3. /\ Secure(w, a, said, cur, done, F) /\ w.phase = s.phase
        /\ w.z = s.z /\ w.b = s.b
    BY <1>3, <2>2
  <2> QED
    BY <1>1, <1>2, <2>3 DEF GoesOn
<1>11. Secure(h, a, said, cur, done, F) /\ GoesOn(h)
  <2>1. CASE h = GoToNextBallot(w, cand)
    <3>1. /\ Secure(h, a, said, cur, done, F) /\ h.phase = w.phase
          /\ w.phase # "Prepare" => h.z = h.b.x
      BY <1>10, <2>1, NextBallotSecure, SMT
    <3> QED
      BY <3>1 DEF GoesOn
  <2> QED
    BY <1>8, <1>9, <1>10, <2>1
<1> QED
  BY <1>4, <1>11, AssertSecure

===============================================================================
