---------------------------- MODULE NominationState ----------------------------
(***************************************************************************)
(* The nomination state of one node (consensus/nomination_state.go): a     *)
(* record with the fields of the Go struct, and one operator per method.   *)
(*                                                                         *)
(* The value store is read through "valid", the set of values that         *)
(* ValidateValue accepts.  It does not change during a call.               *)
(***************************************************************************)
EXTENDS QuorumSlices, Sequences

CONSTANTS
    Values,     \* slot values
    Nil,        \* no value, or no message
    Priority    \* SeedPriority of each node; negative: never nominates

ASSUME NominationAssumption ==
    /\ Nil \notin Values
    /\ Priority \in [Nodes -> Int]

\* The slices X, Y and Z keep the order in which values were added.
NominationMessages == [Nom : Seq(Values), Acc : Seq(Values)]

ASSUME NilIsNoMessage == Nil \notin NominationMessages

NominationStates ==
    [publicKey : Nodes, X : Seq(Values), Y : Seq(Values), Z : Seq(Values),
     N : [Nodes -> NominationMessages \cup {Nil}], received : Nat]

NewNominationState(publicKey) ==
    [publicKey |-> publicKey, X |-> <<>>, Y |-> <<>>, Z |-> <<>>,
     N |-> [n \in Nodes |-> Nil], received |-> 0]

HasSlotValue(list, v) == \E i \in 1..Len(list) : list[i] = v

HasNomination(s) == s.X # <<>>

NominationMessage(s) == [Nom |-> s.X, Acc |-> s.Y]

-------------------------------------------------------------------------------
(***************************************************************************)
(* Nominating a value of our own.  "Received" is a timer: a node waits for *)
(* Threshold messages per node of a better priority.                       *)
(***************************************************************************)
TurnComes(n) == Slice[n].Threshold * Priority[n]

IsOurTurn(s) ==
    Priority[s.publicKey] >= 0 /\ TurnComes(s.publicKey) <= s.received

\* v is what SuggestValue returns, Nil when there is nothing to suggest.
MaybeNominateNewValue(s, v) ==
    IF HasNomination(s) \/ ~IsOurTurn(s) \/ v = Nil THEN s
    ELSE [s EXCEPT !.X = <<v>>]

(***************************************************************************)
(* The values that PredictValue combines.                                  *)
(***************************************************************************)
Predicted(s) == IF s.Z # <<>> THEN s.Z ELSE IF s.Y # <<>> THEN s.Y ELSE s.X

-------------------------------------------------------------------------------
(***************************************************************************)
(* Accepting and confirming a nomination.                                  *)
(***************************************************************************)
HeardFrom(s) == {n \in Nodes : s.N[n] # Nil}

Ourselves(s, holds) == IF holds THEN {s.publicKey} ELSE {}

Accepted(s, v) ==
    {n \in HeardFrom(s) : HasSlotValue(s.N[n].Acc, v)}
        \cup Ourselves(s, HasSlotValue(s.Y, v))

VotedOrAccepted(s, v) ==
    {n \in HeardFrom(s) : HasSlotValue(s.N[n].Acc, v) \/ HasSlotValue(s.N[n].Nom, v)}
        \cup Ourselves(s, HasSlotValue(s.X, v))

\* Variant: a node is blocked by votes.
MaybeAcceptVotes(s, v) ==
    IF /\ ~HasSlotValue(s.Y, v)
       /\ \/ MeetsQuorum(s.publicKey, VotedOrAccepted(s, v))
          \/ BlockedBy(Slice[s.publicKey], VotedOrAccepted(s, v))
    THEN [s EXCEPT !.Y = Append(@, v)]
    ELSE s

MaybeAccept(s, v) ==
    IF /\ ~HasSlotValue(s.Y, v)
       /\ \/ MeetsQuorum(s.publicKey, VotedOrAccepted(s, v))
          \/ BlockedBy(Slice[s.publicKey], Accepted(s, v))
    THEN [s EXCEPT !.Y = Append(@, v)]
    ELSE s

\* Variant: votes count as acceptances.
MaybeConfirmVotes(s, v) ==
    IF MeetsQuorum(s.publicKey, VotedOrAccepted(s, v))
    THEN [s EXCEPT !.Z = Append(@, v)]
    ELSE s

MaybeConfirm(s, v) ==
    IF MeetsQuorum(s.publicKey, Accepted(s, v))
    THEN [s EXCEPT !.Z = Append(@, v)]
    ELSE s

MaybeAdvance(s, v) ==
    IF HasSlotValue(s.Z, v) THEN s ELSE MaybeConfirm(MaybeAccept(s, v), v)

-------------------------------------------------------------------------------
(***************************************************************************)
(* Handling a message.                                                     *)
(***************************************************************************)
NoMessage == [Nom |-> <<>>, Acc |-> <<>>]

Known(s, node) == IF s.N[node] = Nil THEN NoMessage ELSE s.N[node]

\* Variant: a message that says the same is not stale.
IsStaleIfShorter(old, m) == Len(m.Nom) < Len(old.Nom) \/ Len(m.Acc) < Len(old.Acc)

\* Variant: a message may take back what was accepted.
IsStaleByVotes(old, m) ==
    \/ Len(m.Nom) < Len(old.Nom)
    \/ Len(m.Nom) = Len(old.Nom) /\ Len(m.Acc) = Len(old.Acc)

\* Only the lengths are compared with the message we have.
IsStale(old, m) ==
    \/ Len(m.Nom) < Len(old.Nom)
    \/ Len(m.Acc) < Len(old.Acc)
    \/ Len(m.Nom) = Len(old.Nom) /\ Len(m.Acc) = Len(old.Acc)

\* The list, with the allowed ones of the new values that it does not have yet.
AddNew(list, new, allowed) ==
    LET upTo[i \in 0..Len(new)] ==
          IF i = 0 THEN list
          ELSE LET L == upTo[i-1]
               IN IF HasSlotValue(L, new[i]) \/ new[i] \notin allowed THEN L
                  ELSE Append(L, new[i])
    IN upTo[Len(new)]

\* Variant: a value that we support already is added again.
SupportAgain(s, new, valid) ==
    [s EXCEPT !.X = @ \o SelectSeq(new, LAMBDA v : v \in valid)]

Support(s, new, valid) == [s EXCEPT !.X = AddNew(@, new, valid)]

\* Variant: the values that the message newly accepts are left out.
TouchedVotes(newNom, newAcc) == newNom

\* The values of both lists that are new in the message, without repetitions.
Touched(newNom, newAcc) == AddNew(AddNew(<<>>, newNom, Values), newAcc, Values)

AdvanceAll(s, touched) ==
    LET upTo[i \in 0..Len(touched)] ==
          IF i = 0 THEN s ELSE MaybeAdvance(upTo[i-1], touched[i])
    IN upTo[Len(touched)]

(***************************************************************************)
(* "received" is only compared with TurnComes, so it stops there.          *)
(***************************************************************************)
CountMessage(s) ==
    [s EXCEPT !.received = IF @ < TurnComes(s.publicKey) THEN @ + 1 ELSE @]

HandleNomination(s, node, m, valid) ==
    LET old == Known(s, node)
        newNom == SubSeq(m.Nom, Len(old.Nom) + 1, Len(m.Nom))
        newAcc == SubSeq(m.Acc, Len(old.Acc) + 1, Len(m.Acc))
        counted == CountMessage(s)
        stored == [counted EXCEPT !.N[node] = m]
    IN IF IsStale(old, m) THEN counted
       ELSE AdvanceAll(Support(stored, newNom, valid), Touched(newNom, newAcc))

===============================================================================
