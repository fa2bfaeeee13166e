------------------------------- MODULE Balloting -------------------------------
(***************************************************************************)
(* The ballot protocol for one slot, run by every node of a network: what  *)
(* Block (consensus/block.go) and Chain (consensus/chain.go) do with the   *)
(* ballot messages of the slot.  A step is one message processed by one    *)
(* node: Server.unsafeProcessMessage calls Node.Handle and then            *)
(* Node.OutgoingMessages, in a single goroutine.                           *)
(*                                                                         *)
(* A node broadcasts its latest message again and again.  Between two      *)
(* receptions a peer may miss any number of messages, and any message may  *)
(* arrive late or twice, so a step may process any of the last Backlog     *)
(* messages of a peer.                                                     *)
(*                                                                         *)
(* The nomination state is the environment: PredictValue may give any      *)
(* value at any time.                                                      *)
(***************************************************************************)
EXTENDS BallotState

CONSTANTS
    MaxBallot,      \* bound: no step that needs a higher ballot number is taken
    Backlog,        \* bound: how many messages of a node can still arrive
    MaxRestarts     \* bound: how often nodes stop and start again

ASSUME BoundsAssumption ==
    MaxBallot \in Nat /\ Backlog \in Nat \ {0} /\ MaxRestarts \in Nat

VARIABLES
    bs,         \* the BallotState of each node
    external,   \* the ExternalizeMessage of each node, Nil before it has one
    sent,       \* the last messages each node sent, oldest first
    stuck,      \* the nodes inside a call of Handle that does not return
    restarts    \* how many restarts have happened

vars == <<bs, external, sent, stuck, restarts>>

Init ==
    /\ bs = [n \in Nodes |-> NewBallotState(n)]
    /\ external = [n \in Nodes |-> Nil]
    /\ sent = [n \in Nodes |-> <<>>]
    /\ stuck = {}
    /\ restarts = 0

Latest(n) == sent[n][Len(sent[n])]

\* Nodes still at work on the slot.
Running(n) == n \notin stuck /\ ~bs[n].fatal /\ external[n] = Nil

-------------------------------------------------------------------------------
Remember(n, m) ==
    IF sent[n] # <<>> /\ Latest(n) = m THEN UNCHANGED sent
    ELSE sent' = [sent EXCEPT ![n] =
                    Append(IF Len(@) < Backlog THEN @ ELSE Tail(@), m)]

(***************************************************************************)
(* The end of a step that leaves node n with the ballot state s.  A node   *)
(* that reaches the Externalize phase keeps its last message, which it     *)
(* sends from then on, and replaces the block.                             *)
(***************************************************************************)
Finish(n, s) ==
    /\ IF s.fatal \/ s.b = NoBallot THEN UNCHANGED sent ELSE Remember(n, Message(s))
    /\ IF s.phase = "Externalize" /\ ~s.fatal
       THEN /\ external' = [external EXCEPT ![n] = Message(s)]
            /\ bs' = [bs EXCEPT ![n] = NewBallotState(n)]
       ELSE bs' = [bs EXCEPT ![n] = s] /\ UNCHANGED external

\* The first value of the nomination state starts the first ballot.
StartBallot(s, cand) == IF s.b = NoBallot THEN GoToNextBallot(s, cand) ELSE s

Begin(n) ==
    /\ Running(n)
    /\ bs[n].b = NoBallot
    /\ \E cand \in Values : Finish(n, StartBallot(bs[n], cand))
    /\ UNCHANGED <<stuck, restarts>>

(***************************************************************************)
(* What PredictValue may give a node in the state s.  A node without a     *)
(* ballot has no nomination, or OutgoingMessages would have started one; a *)
(* node whose ballot did not come from its peers has a nomination.         *)
(***************************************************************************)
Candidates(s) ==
    CASE s.b = NoBallot -> {Nil}
      [] s.b # NoBallot /\ s.hn = 0 -> Values
      [] s.hn > 0 -> SlotValues

ProcessDuplicate(n, node) ==
    /\ Running(n)
    /\ node \in Heard(bs[n])
    /\ \E s \in {AssertValid(HandleDuplicate(bs[n], node, cand)) :
                    cand \in Candidates(bs[n])} :
         s.b.n <= MaxBallot /\ Finish(n, s)
    /\ UNCHANGED <<stuck, restarts>>

(***************************************************************************)
(* The states Handle and AssertValid can lead to.  Beyond ballot MaxBallot *)
(* no PrepareMessage can block, and two rounds tell whether anything else  *)
(* does: the loop that is still blocked then goes on forever.              *)
(***************************************************************************)
Outcomes(s, node, m) ==
    LET t == Receive(s, node, m)
        Outcome(cand) ==
          LET r == LeaveBlockedBallots(t, m, cand, MaxBallot + 2)
          IN [s |-> AssertValid(r), looping |-> BallotBlocked(r, cand)]
    IN IF Blocked(t)
       THEN {Outcome(cand) : cand \in Candidates(s)}
       ELSE {[s |-> AssertValid(t), looping |-> FALSE]}

ProcessNew(n, node, m) ==
    /\ Running(n)
    /\ ~IsDuplicate(bs[n], node, m)
    /\ \E o \in Outcomes(bs[n], node, m) :
         IF o.looping
         THEN stuck' = stuck \cup {n} /\ UNCHANGED <<bs, external, sent>>
         ELSE o.s.b.n <= MaxBallot /\ Finish(n, o.s) /\ UNCHANGED stuck
    /\ UNCHANGED restarts

(***************************************************************************)
(* NewNodeWithMint.  Only finalized blocks are in the database: a node     *)
(* that restarts within the slot, or with a block that is done and waits   *)
(* for its chunk, has forgotten its votes, and its peers have not.         *)
(***************************************************************************)
Restart(n) ==
    /\ restarts < MaxRestarts
    /\ bs' = [bs EXCEPT ![n] = NewBallotState(n)]
    /\ external' = [external EXCEPT ![n] = Nil]
    /\ stuck' = stuck \ {n}
    /\ restarts' = restarts + 1
    /\ UNCHANGED sent

Next ==
    \E n \in Nodes :
        \/ Begin(n)
        \/ Restart(n)
        \/ \E node \in Nodes \ {n} :
             \/ ProcessDuplicate(n, node)
             \/ \E i \in 1..Len(sent[node]) : ProcessNew(n, node, sent[node][i])

Spec == Init /\ [][Next]_vars

(***************************************************************************)
(* Fairness.  Every node gets a value from its nomination state, and the   *)
(* latest message of a node reaches every peer, again and again: it is     *)
(* broadcast every RebroadcastInterval.  That is weak fairness of          *)
(* ProcessNew for the latest message and of ProcessDuplicate, written out: *)
(* a message that would change something stops waiting when it is          *)
(* processed, and nothing leads back to the state before.                  *)
(***************************************************************************)
Waiting(n, node) ==
    Running(n) /\ sent[node] # <<>> /\ ~IsDuplicate(bs[n], node, Latest(node))

DuplicateWaiting(n, node) ==
    /\ Running(n)
    /\ node \in Heard(bs[n])
    /\ \E cand \in Candidates(bs[n]) :
         LET s == AssertValid(HandleDuplicate(bs[n], node, cand))
         IN s.b.n <= MaxBallot /\ s # bs[n]

Fairness ==
    \A n \in Nodes :
        /\ WF_vars(Begin(n))
        /\ \A node \in Nodes \ {n} :
             []<>~Waiting(n, node) /\ []<>~DuplicateWaiting(n, node)

FairSpec == Spec /\ Fairness

-------------------------------------------------------------------------------
(***************************************************************************)
(* Properties.                                                             *)
(***************************************************************************)

\* Every field of the state keeps the type of the Go field it stands for: in
\* particular no ballot ever carries the empty value.
TypeOK ==
    /\ bs \in [Nodes -> BallotStates]
    /\ external \in [Nodes -> ExternalizeMessages \cup {Nil}]
    /\ \A n \in Nodes : \A i \in 1..Len(sent[n]) : sent[n][i] \in Messages
    /\ stuck \subseteq Nodes
    /\ restarts \in 0..MaxRestarts

\* The purpose of the protocol: two blocks that externalize a value for the
\* slot externalize the same one (Block.external).
Agreement ==
    \A n, m \in Nodes :
        external[n] # Nil /\ external[m] # Nil => external[n].X = external[m].X

\* No call of Logger.Fatal in MaybeConfirmAsPrepared or AssertValid is reached.
AssertionsHold == \A n \in Nodes : ~bs[n].fatal

\* The loop of Handle ends: no message leaves a node bumping its ballot
\* number forever.
HandleReturns == stuck = {}

\* The values some node has accepted a commit of: it is past the Prepare phase.
AcceptedCommits ==
    {bs[n].b.x : n \in {k \in Nodes : bs[k].phase # "Prepare"}} \cup
    {external[n].X : n \in {k \in Nodes : external[k] # Nil}}

\* All the nodes that accepted a commit accepted it for one value, the one of
\* the comments "the value that we are accepting a commit for" of
\* ConfirmMessage and "we've accepted an abort for everything else" of
\* AcceptedAbort: agreement is decided before anything is externalized.
AcceptedCommitsAgree == \A v, w \in AcceptedCommits : v = w

\* The peers that node n knows to have externalized.
Externalized(n) ==
    {k \in Nodes : bs[n].M[k] # Nil /\ bs[n].M[k].type = "Externalize"}

\* How a node that is behind catches up: it externalizes within the call of
\* Handle that completes a quorum of peers that have, if they block it, whatever
\* it was voting for before.  Chain.Handle relies on it when it answers an old
\* message with no more than the ExternalizeMessage of the slot.
CatchesUp ==
    \A n \in Nodes : Running(n) =>
        ~(/\ BlockedBy(Slice[n], Externalized(n))
          /\ MeetsQuorum(n, Externalized(n) \cup {n}))

\* Compare orders the messages of a node as they were sent, so that a receiver
\* who keeps the newest by Compare keeps the last one it got.
MessagesIncrease ==
    [][\A n \in Nodes : sent[n] # <<>> /\ sent'[n] # sent[n] => Newer(Latest(n), Latest(n)')]_vars

\* When all ballots are for one value, because the nomination states agree on it,
\* every node externalizes.
Converges ==
    \A v \in Values :
        [](\A n \in Nodes : bs[n].b = NoBallot \/ bs[n].b.x = v) =>
            <>(\A n \in Nodes : external[n] # Nil)

===============================================================================
