---------------------------- MODULE BallotMessages ----------------------------
(***************************************************************************)
(* The messages of the ballot protocol and what they say about a ballot    *)
(* (consensus/ballot_message.go, consensus/range.go).                      *)
(*                                                                         *)
(* The slot (I) is left out: a module that uses these messages works on    *)
(* one slot, or tags them with it.  The quorum slice (D) is left out: it   *)
(* is Slice[sender].                                                       *)
(***************************************************************************)
EXTENDS Integers, FiniteSetsExt

CONSTANTS
    Values,     \* slot values
    Nil         \* a nil pointer, or the empty SlotValue of an unset field

ASSUME NilAssumption == Nil \notin Values

\* The ends of a set of ballot numbers; 0 when there is no number.
Max0(S) == Max(S \cup {0})
Min0(S) == IF S = {} THEN 0 ELSE Min(S)

Phases == {"Prepare", "Confirm", "Externalize"}

SlotValues == Values \cup {Nil}

\* Real ballots have n >= 1, so number 0 is free to mark a nil *Ballot.
Ballots == [n : Nat \ {0}, x : Values]
NoBallot == [n |-> 0, x |-> Nil]

gtecompat(a, b) == a # NoBallot /\ a.n >= b.n /\ a.x = b.x
gteincompat(a, b) == a # NoBallot /\ a.n >= b.n /\ a.x # b.x

PrepareMessages ==
    [type : {"Prepare"}, Bn : Nat, Bx : Values, Pn : Nat, Px : SlotValues,
     Ppn : Nat, Ppx : SlotValues, Cn : Nat, Hn : Nat]
ConfirmMessages ==
    [type : {"Confirm"}, X : Values, Pn : Nat, Cn : Nat, Hn : Nat]
ExternalizeMessages ==
    [type : {"Externalize"}, X : Values, Cn : Nat, Hn : Nat]
Messages == PrepareMessages \cup ConfirmMessages \cup ExternalizeMessages

ASSUME NilIsNoMessage == Nil \notin Messages

-------------------------------------------------------------------------------
(***************************************************************************)
(* The votes a message stands for.                                         *)
(***************************************************************************)
AcceptAsPrepared(m, n, x) ==
    IF m.type = "Prepare"
    THEN IF m.Px = x THEN m.Pn >= n ELSE m.Ppx = x /\ m.Ppn >= n
    ELSE m.X = x

VoteToPrepare(m, n, x) == m.type = "Prepare" /\ m.Bx = x /\ m.Bn >= n

\* Variant: an ExternalizeMessage only stands for the ballots above its range.
AcceptAsCommittedAbove(m, n, x) ==
    \/ m.type = "Confirm" /\ m.X = x /\ m.Cn <= n /\ n <= m.Hn
    \/ m.type = "Externalize" /\ m.X = x /\ m.Cn < n

AcceptAsCommitted(m, n, x) ==
    \/ m.type = "Confirm" /\ m.X = x /\ m.Cn <= n /\ n <= m.Hn
    \/ m.type = "Externalize" /\ m.X = x /\ m.Cn <= n

\* Variant: the value of the ballot is not compared.
VoteToCommitAnyValue(m, n, x) ==
    \/ /\ m.type = "Prepare"
       /\ m.Cn # 0 /\ m.Hn # 0 /\ m.Cn <= n /\ n <= m.Hn
    \/ m.type = "Confirm" /\ m.X = x

VoteToCommit(m, n, x) ==
    \/ /\ m.type = "Prepare" /\ m.Bx = x
       /\ m.Cn # 0 /\ m.Hn # 0 /\ m.Cn <= n /\ n <= m.Hn
    \/ m.type = "Confirm" /\ m.X = x

\* Variant: a ConfirmMessage speaks for its range only.
CouldEverVoteForInRange(m, n, x) ==
    IF m.type = "Prepare"
    THEN m.Bn <= n /\ (m.Bn = n => m.Bx = x)
    ELSE m.X = x /\ n <= m.Hn

CouldEverVoteFor(m, n, x) ==
    IF m.type = "Prepare"
    THEN m.Bn <= n /\ (m.Bn = n => m.Bx = x)
    ELSE m.X = x

(***************************************************************************)
(* A range is its set of end points; 0 stands for "no number" and never    *)
(* widens a range, as in RangeUnion and MakeRange.                         *)
(***************************************************************************)
RelevantNumbers(m, x) ==
    (CASE m.type = "Prepare" ->
            (IF m.Bx = x THEN {m.Bn, m.Cn, m.Hn} ELSE {}) \cup
            (IF m.Px = x THEN {m.Pn} ELSE {}) \cup
            (IF m.Ppx = x THEN {m.Ppn} ELSE {})
       [] m.type = "Confirm" -> IF m.X = x THEN {m.Pn, m.Cn, m.Hn} ELSE {}
       [] m.type = "Externalize" -> IF m.X = x THEN {m.Cn, m.Hn} ELSE {}) \ {0}

MaxN(m) ==
    CASE m.type = "Prepare" -> Max0({m.Bn, m.Cn, m.Hn, m.Pn, m.Ppn})
      [] m.type = "Confirm" -> Max0({m.Pn, m.Cn, m.Hn})
      [] m.type = "Externalize" -> m.Hn

BallotNumber(m) == IF m.type = "Prepare" THEN m.Bn ELSE m.Hn

(***************************************************************************)
(* Compare(m1, m2) < 0: m2 is newer than m1.  Only the phase and some of   *)
(* the numbers take part: (b, p, p', h) of a PrepareMessage, (p, h) of a   *)
(* ConfirmMessage, h of an ExternalizeMessage.                             *)
(***************************************************************************)
\* Variant: h does not take part in the Prepare phase.
CompareKeyNoH(m) ==
    CASE m.type = "Prepare" -> <<1, m.Bn, m.Pn, m.Ppn, 0>>
      [] m.type = "Confirm" -> <<2, m.Pn, m.Hn, 0, 0>>
      [] m.type = "Externalize" -> <<3, m.Hn, 0, 0, 0>>

CompareKey(m) ==
    CASE m.type = "Prepare" -> <<1, m.Bn, m.Pn, m.Ppn, m.Hn>>
      [] m.type = "Confirm" -> <<2, m.Pn, m.Hn, 0, 0>>
      [] m.type = "Externalize" -> <<3, m.Hn, 0, 0, 0>>

Newer(m1, m2) ==
    LET k1 == CompareKey(m1)
        k2 == CompareKey(m2)
    IN \E i \in 1..5 : k1[i] < k2[i] /\ \A j \in 1..(i-1) : k1[j] = k2[j]

===============================================================================
