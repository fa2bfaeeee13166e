------------------------------ MODULE Nomination ------------------------------
(***************************************************************************)
(* The nomination of values for one slot, by every node of a network.      *)
(* As in Balloting, a step is one message processed by one node, and a     *)
(* message may be lost, late or repeated: a step may process any of the    *)
(* last Backlog messages of a peer.                                        *)
(*                                                                         *)
(* The value store is the environment.  valid[n] is what ValidateValue     *)
(* accepts at node n.  It grows when operations and chunks reach the node. *)
(* SuggestValue suggests only what the node makes of its own operations,   *)
(* not what it knows from a chunk of a peer.                               *)
(***************************************************************************)
EXTENDS NominationState

CONSTANTS
    Backlog,    \* bound: how many messages of a node can still arrive
    ValidFirst, \* the values that each node can validate from the start
    Own         \* the values that each node can make of operations it gets

ASSUME NetworkAssumption ==
    /\ Backlog \in Nat \ {0}
    /\ ValidFirst \in [Nodes -> SUBSET Values]
    /\ Own \in [Nodes -> SUBSET Values]

VARIABLES
    ns,         \* the NominationState of each node
    valid,      \* the values each node can validate
    sent        \* the last messages each node sent, oldest first

vars == <<ns, valid, sent>>

\* The results of SuggestValue in a store of n that validates the values V.
Suggestions(n, V) == IF V \cap Own[n] = {} THEN {Nil} ELSE V \cap Own[n]

-------------------------------------------------------------------------------
(***************************************************************************)
(* NewBlock asks for a value at once.  A node without any value sends      *)
(* blank messages.                                                         *)
(***************************************************************************)
Init ==
    /\ valid = ValidFirst
    /\ \E v \in [Nodes -> Values \cup {Nil}] :
         /\ \A n \in Nodes : v[n] \in Suggestions(n, valid[n])
         /\ ns = [n \in Nodes |-> MaybeNominateNewValue(NewNominationState(n), v[n])]
    /\ sent = [n \in Nodes |-> <<NominationMessage(ns[n])>>]

Latest(n) == sent[n][Len(sent[n])]

Remember(n, m) ==
    IF Latest(n) = m THEN UNCHANGED sent
    ELSE sent' = [sent EXCEPT ![n] =
                    Append(IF Len(@) < Backlog THEN @ ELSE Tail(@), m)]

Finish(n, s) ==
    /\ ns' = [ns EXCEPT ![n] = s]
    /\ Remember(n, NominationMessage(s))

\* Block.Handle of a NominationMessage, and OutgoingMessages.
Process(n, node, m) ==
    /\ \E v \in Suggestions(n, valid[n]) :
         Finish(n, MaybeNominateNewValue(
                     HandleNomination(ns[n], node, m, valid[n]), v))
    /\ UNCHANGED valid

\* A value becomes known to the store of n: Block.ValueStoreUpdated.
Learn(n, v) ==
    /\ v \notin valid[n]
    /\ valid' = [valid EXCEPT ![n] = @ \cup {v}]
    /\ \E w \in Suggestions(n, valid'[n]) : Finish(n, MaybeNominateNewValue(ns[n], w))

Next ==
    \E n \in Nodes :
        \/ \E node \in Nodes \ {n} : \E i \in 1..Len(sent[node]) :
             Process(n, node, sent[node][i])
        \/ \E v \in Values : Learn(n, v)

Spec == Init /\ [][Next]_vars

(***************************************************************************)
(* Fairness.  The latest message of a node, a blank one included, reaches  *)
(* every peer again and again: it is broadcast every RebroadcastInterval.  *)
(* So a message that says something new does not wait forever, and every   *)
(* node counts as many messages as it waits for.  This is weak fairness of *)
(* Process for the latest messages, written out.                           *)
(***************************************************************************)
Waiting(n, node) == ~IsStale(Known(ns[n], node), Latest(node))

Fairness ==
    \A n \in Nodes :
        /\ <>(ns[n].received >= TurnComes(n))
        /\ \A node \in Nodes \ {n} : []<>~Waiting(n, node)

FairSpec == Spec /\ Fairness

-------------------------------------------------------------------------------
(***************************************************************************)
(* Properties.                                                             *)
(***************************************************************************)
\* The fields of every state keep their types, and a message is only kept if it
\* says something (blank messages are stale).
TypeOK ==
    /\ ns \in [Nodes -> NominationStates]
    /\ \A n \in Nodes : ns[n].publicKey = n /\ NoMessage \notin {ns[n].N[k] : k \in Nodes}
    /\ valid \in [Nodes -> SUBSET Values]
    /\ sent \in [Nodes -> Seq(NominationMessages)]

NoDupes(list) == \A i, j \in 1..Len(list) : list[i] = list[j] => i = j

\* AssertNoDupes: no list gets a value twice, though the same value comes from
\* several peers, in both lists of a message, and from our own store.
ListsHaveNoDupes ==
    \A n \in Nodes : NoDupes(ns[n].X) /\ NoDupes(ns[n].Y) /\ NoDupes(ns[n].Z)

Members(list) == {list[i] : i \in 1..Len(list)}

(***************************************************************************)
(* A node may accept a value that its own store cannot validate, because a *)
(* blocking set has.  Still, behind every accepted value stands a quorum   *)
(* whose members all validated it and voted for it.                        *)
(***************************************************************************)
AcceptedWasValidated ==
    \A n \in Nodes : \A v \in Members(ns[n].Y) :
        LET voters == {k \in Nodes : v \in Members(ns[k].X) /\ v \in valid[k]}
        IN \E k \in voters : MeetsQuorum(k, voters)

\* Nomination is federated voting in which no two values contradict each other.
Federated ==
    INSTANCE FederatedVoting WITH
        Statements <- Values,
        Against <- [v \in Values |-> {}],
        voted <- [n \in Nodes |-> Members(ns[n].X)],
        accepted <- [n \in Nodes |-> Members(ns[n].Y)],
        confirmed <- [n \in Nodes |-> Members(ns[n].Z)],
        heard <- [n \in Nodes |-> [k \in Nodes |->
                    [voted |-> Members(Known(ns[n], k).Nom),
                     accepted |-> Members(Known(ns[n], k).Acc)]]]

\* The lists X, Y and Z of all nodes move only as federated voting allows: the
\* loop of MaybeAdvance over the touched values, in whatever order messages come,
\* accepts and confirms nothing that the votes do not justify.
IsFederatedVoting == Federated!Spec

Prefix(s, t) == Len(s) <= Len(t) /\ \A i \in 1..Len(s) : s[i] = t[i]

\* Comparing lengths is enough to tell old messages from new ones: what a node
\* has from a peer is never replaced by a message that says less.
KnowledgeGrows ==
    [][\A n, k \in Nodes :
         ns[n].N[k] # Nil =>
           /\ Prefix(ns[n].N[k].Nom, ns'[n].N[k].Nom)
           /\ Prefix(ns[n].N[k].Acc, ns'[n].N[k].Acc)]_vars

\* The values that a quorum votes for.
Backed ==
    {v \in Values : \E k \in Nodes : MeetsQuorum(k, {m \in Nodes : HasSlotValue(ns[m].X, v)})}

\* n has the vote of node for v.
HasVote(n, node, v) == HasSlotValue(Known(ns[n], node).Nom, v)

(***************************************************************************)
(* The nomination states settle on the same confirmed values, those that a *)
(* quorum votes for.  There need not be any: a vote that comes before its  *)
(* chunk is not looked at again, so two nodes can each miss the value of   *)
(* the other and back no common one when both chunks are there.  Only      *)
(* votes that came before their chunks can keep a quorum from backing what *)
(* a member votes for, and a node with something to suggest votes.         *)
(***************************************************************************)
NominationConverges ==
    /\ <>[]/\ \A n \in Nodes : Members(ns[n].Z) = Backed
           /\ \A n \in Nodes : ns[n].X = << >> => Suggestions(n, valid[n]) = {Nil}
           /\ \A Q \in (SUBSET Nodes) \ {{}}, v \in Values \ Backed :
                SelfSufficient(Q) /\ (\E n \in Q : HasSlotValue(ns[n].X, v)) =>
                   \E n \in Q, k \in Nodes : HasVote(n, k, v) /\ ~HasSlotValue(ns[n].X, v)
    /\ [][\A n, k \in Nodes : \A v \in valid[n] :
            ~HasVote(n, k, v) /\ HasVote(n, k, v)' => HasSlotValue(ns[n].X, v)']_vars

===============================================================================
