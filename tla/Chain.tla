--------------------------------- MODULE Chain ---------------------------------
(***************************************************************************)
(* The blockchain that the nodes build slot by slot: Chain                 *)
(* (consensus/chain.go), Node (network/node.go), the chunk maps of         *)
(* OperationQueue (currency/operation_queue.go) and the blocks table       *)
(* (data/database.go).                                                     *)
(*                                                                         *)
(* A slot value is the hash of a chunk of operations, and a node needs the *)
(* chunk itself to finalize a slot.  Chunks travel apart from the votes on *)
(* them.                                                                   *)
(*                                                                         *)
(* The consensus on one slot is the subject of Nomination and Balloting,   *)
(* and is here a vote of a quorum (Vote): its members had the chunk when   *)
(* they first voted for the value (AcceptedWasValidated), and a node does  *)
(* not stand for the commit of two values (AcceptedCommitsAgree), unless   *)
(* it has started again within the slot and forgotten the first, which its *)
(* peers have not.  Nothing here says that a slot is decided on one value. *)
(* A quorum of ExternalizeMessages that blocks a node makes it externalize *)
(* (CatchesUp).                                                            *)
(*                                                                         *)
(* A message says what its sender holds or held, and nothing that it holds *)
(* for a slot is ever taken back, so a late or repeated message is one     *)
(* that is built from the sender's present state for an earlier slot.      *)
(***************************************************************************)
EXTENDS QuorumSlices, Sequences

CONSTANTS
    Values,         \* the values that may be proposed for a slot
    Nil,
    MaxSlot,        \* bound: slots after this one are not started
    MaxRestarts     \* bound: how many nodes start again within one slot

ASSUME ChainAssumption ==
    /\ Nil \notin Values
    /\ MaxSlot \in Nat
    /\ MaxRestarts \in Nat

VARIABLES
    history,        \* Chain.history and OperationQueue.oldChunks, by slot
    external,       \* Block.external of the current block, Nil before it is done
    heard,          \* the value of each peer's ExternalizeMessage in the current block
    chunks,         \* OperationQueue.chunks: the chunks known for the current slot
    db,             \* the blocks table of each node: the chunk of each slot in it
    failed,         \* the nodes that a panic or a Fatal has ended
    votes,          \* the quorum that voted for the commit of each value of a slot
    forgot          \* the nodes that have started again within each slot

vars == <<history, external, heard, chunks, db, failed, votes, forgot>>

\* Chain.current.slot, and Node.slot, and OperationQueue.slot.
Slot(n) == Len(history[n]) + 1

Running(n) == n \notin failed /\ Slot(n) <= MaxSlot

Init ==
    /\ history = [n \in Nodes |-> <<>>]
    /\ external = [n \in Nodes |-> Nil]
    /\ heard = [n \in Nodes |-> [k \in Nodes |-> Nil]]
    /\ chunks = [n \in Nodes |-> {}]
    /\ db = [n \in Nodes |-> <<>>]
    /\ failed = {}
    /\ votes = [s \in 1..MaxSlot |-> [v \in Values |-> {}]]
    /\ forgot = [s \in 1..MaxSlot |-> {}]

-------------------------------------------------------------------------------
(***************************************************************************)
(* The consensus on one slot.                                              *)
(***************************************************************************)

\* The smallest quorums.  Of a larger one, only some of the members need vote.
Quorums ==
    {Q \in SUBSET Nodes : /\ Q # {} /\ SelfSufficient(Q)
                          /\ \A R \in (SUBSET Q) \ {{}, Q} : ~SelfSufficient(R)}

Participants(s) == {k \in Nodes : Slot(k) >= s}

\* Variant: every value is valid.
ValidateValueAlways(n, v) == TRUE

ValidateValue(n, v) == v \in chunks[n]

Decided(s) == {v \in Values : votes[s][v] # {}}

\* Those who can have voted for v when it was nominated, and for its commit.
Nominators(s, v) ==
    forgot[s] \cup {k \in Nodes : Slot(k) = s /\ ValidateValue(k, v)}

Committers(s, v) ==
    forgot[s] \cup {k \in Nodes : /\ Slot(k) = s
                                  /\ external[k] \in {Nil, v}
                                  /\ \A w \in Values \ {v} : k \notin votes[s][w]}

\* A vote on slot s ends: the quorum Q has accepted the commit of v.
Vote(s, v, Q) ==
    /\ votes[s][v] = {}
    /\ \E P \in Quorums : P \subseteq Nominators(s, v)
    /\ Q \in Quorums /\ Q \subseteq Committers(s, v)
    /\ votes' = [votes EXCEPT ![s][v] = Q]
    /\ UNCHANGED <<history, external, heard, chunks, db, failed, forgot>>

\* The values of Block.external after a ballot message, when the block holds the
\* ExternalizeMessages h: those a quorum that blocks n has externalized, and
\* otherwise any that the vote has ended with, if n has had the news.
Saying(h, v) == {k \in Nodes : h[k] = v}

Forced(n, h) ==
    {v \in Values : /\ BlockedBy(Slice[n], Saying(h, v))
                    /\ MeetsQuorum(n, Saying(h, v) \cup {n})}

Externals(n, h) ==
    LET s == Slot(n)
    IN IF external[n] # Nil THEN {external[n]}
       ELSE IF Forced(n, h) # {} THEN Forced(n, h)
       ELSE {Nil} \cup {v \in Decided(s) : MeetsQuorum(n, Participants(s))}

(***************************************************************************)
(* The blocks table.  The slot is a unique key; ForBlocks goes through the *)
(* slots from 1 on and does not tolerate a gap.                            *)
(***************************************************************************)
InsertBlock(table, slot, chunk) ==
    [s \in DOMAIN table \cup {slot} |-> IF s \in DOMAIN table THEN table[s] ELSE chunk]

IsUniquenessError(table, slot) == slot \in DOMAIN table

MissingBlock(table) == \A last \in 0..MaxSlot : DOMAIN table # 1..last

(***************************************************************************)
(* Chain.Handle for a message of the current slot, and handleChainMessage  *)
(* after it.  A block that is done stays until the chunk of its value is   *)
(* known.  Then the chunk is applied, the block is saved and a new block   *)
(* is begun, with no chunk known.                                          *)
(***************************************************************************)
Begin(n, v) ==
    /\ history' = [history EXCEPT ![n] = Append(@, v)]
    /\ external' = [external EXCEPT ![n] = Nil]
    /\ heard' = [heard EXCEPT ![n] = [k \in Nodes |-> Nil]]
    /\ chunks' = [chunks EXCEPT ![n] = {}]

\* Variant: the block is not inserted in the database.
FinalizeUnsaved(n, v) == Begin(n, v) /\ UNCHANGED <<db, failed>>

Finalize(n, v) ==
    /\ Begin(n, v)
    /\ db' = [db EXCEPT ![n] = InsertBlock(@, Slot(n), v)]
    /\ failed' = IF IsUniquenessError(db[n], Slot(n)) THEN failed \cup {n} ELSE failed

Keep(n, v, h, known) ==
    /\ external' = [external EXCEPT ![n] = v]
    /\ heard' = [heard EXCEPT ![n] = h]
    /\ chunks' = [chunks EXCEPT ![n] = known]
    /\ UNCHANGED <<history, db, failed>>

Handle(n, h, known) ==
    /\ Running(n)
    /\ \E v \in Externals(n, h) :
         IF v \in known THEN Finalize(n, v) ELSE Keep(n, v, h, known)
    /\ UNCHANGED <<votes, forgot>>

-------------------------------------------------------------------------------
(***************************************************************************)
(* The messages a node handles.                                            *)
(***************************************************************************)

\* Operations arrive, and n suggests a chunk of them for the slot.
Suggest(n, v) ==
    /\ Running(n)
    /\ v \notin chunks[n]
    /\ chunks' = [chunks EXCEPT ![n] = @ \cup {v}]
    /\ UNCHANGED <<history, external, heard, db, failed, votes, forgot>>

\* The chunks that k shares, or has shared, for slot s.
Shared(k, s) ==
    IF Slot(k) = s THEN chunks[k] ELSE IF Slot(k) > s THEN {history[k][s]} ELSE {}

\* A TransactionMessage of k.  A chunk only validates against the accounts as
\* they are at the slot it was made for.
ReceiveChunks(n, k) ==
    /\ Running(n)
    /\ chunks' = [chunks EXCEPT ![n] = @ \cup Shared(k, Slot(n))]
    /\ UNCHANGED <<history, external, heard, db, failed, votes, forgot>>

\* A nomination, prepare or confirm message of k for the slot of n.
ReceiveBallot(n, k) ==
    /\ Slot(k) >= Slot(n)
    /\ Handle(n, heard[n], chunks[n])

\* What k has externalized slot s with.
ExternalizedBy(k, s) ==
    IF Slot(k) > s THEN history[k][s] ELSE IF Slot(k) = s THEN external[k] ELSE Nil

\* The block has one message of each peer, the first of those that Compare equal.
Hear(n, k, v) == [heard[n] EXCEPT ![k] = IF @ = Nil THEN v ELSE @]

ReceiveExternalize(n, k) ==
    LET v == ExternalizedBy(k, Slot(n))
    IN v # Nil /\ Handle(n, Hear(n, k, v), chunks[n])

\* Variant: k only holds a single past block.
ReceiveHistoryOfLast(n, k) ==
    LET v == history[k][Slot(n)]
    IN Slot(k) = Slot(n) + 1 /\ Handle(n, Hear(n, k, v), chunks[n] \cup {v})

\* k answers a message of n for an old slot with a HistoryMessage: n handles the
\* chunk and then the ExternalizeMessage.
ReceiveHistory(n, k) ==
    LET v == history[k][Slot(n)]
    IN Slot(k) > Slot(n) /\ Handle(n, Hear(n, k, v), chunks[n] \cup {v})

\* NewNodeWithMint: the chain is what the database has, all else is lost.
Restart(n) ==
    LET s == Slot(n)
    IN /\ s <= MaxSlot
       /\ Cardinality(forgot[s] \cup {n}) <= MaxRestarts
       /\ forgot' = [forgot EXCEPT ![s] = @ \cup {n}]
       /\ history' = [history EXCEPT ![n] = IF MissingBlock(db[n]) THEN <<>> ELSE db[n]]
       /\ external' = [external EXCEPT ![n] = Nil]
       /\ heard' = [heard EXCEPT ![n] = [k \in Nodes |-> Nil]]
       /\ chunks' = [chunks EXCEPT ![n] = {}]
       /\ failed' = IF MissingBlock(db[n]) THEN failed \cup {n} ELSE failed \ {n}
       /\ UNCHANGED <<db, votes>>

Done == \A n \in Nodes : Slot(n) > MaxSlot

Next ==
    \/ \E s \in 1..MaxSlot, v \in Values, Q \in Quorums : Vote(s, v, Q)
    \/ \E n \in Nodes :
         \/ \E v \in Values : Suggest(n, v)
         \/ \E k \in Nodes \ {n} :
              \/ ReceiveChunks(n, k)
              \/ ReceiveBallot(n, k)
              \/ ReceiveExternalize(n, k)
              \/ ReceiveHistory(n, k)
         \/ Restart(n)
    \/ Done /\ UNCHANGED vars

Spec == Init /\ [][Next]_vars

(***************************************************************************)
(* Fairness.  A node broadcasts its OutgoingMessages again and again, and  *)
(* each of them reaches every peer: the chunks of its current slot, the    *)
(* votes of a block that is not done, the ExternalizeMessage of a block    *)
(* that is, and the ExternalizeMessage of the previous slot, but nothing   *)
(* older.  A node whose block is not done is answered by the peers ahead   *)
(* of it.  Within a slot a node only learns, so each message is received   *)
(* if, as long as there is one that changes something, one is.             *)
(*                                                                         *)
(* Every slot gets a suggestion from somebody, and the vote on it ends     *)
(* when it can.  Nodes are not started again for ever.                     *)
(***************************************************************************)
StillSent(k, s) == Slot(k) <= s + 1

ReceiveSent(n, k) ==
    \/ Slot(k) = Slot(n) /\ (ReceiveChunks(n, k) \/ ReceiveBallot(n, k))
    \/ StillSent(k, Slot(n)) /\ ReceiveExternalize(n, k)
    \/ external[n] = Nil /\ ReceiveHistory(n, k)

Fairness ==
    /\ <>[][\A n \in Nodes : ~Restart(n)]_vars
    /\ \A s \in 1..MaxSlot :
         WF_vars(Decided(s) = {} /\ \E v \in Values, Q \in Quorums : Vote(s, v, Q))
    /\ \A n \in Nodes :
         /\ WF_vars(\E v \in Values : chunks[n] = {} /\ Suggest(n, v))
         /\ WF_vars(\E k \in Nodes \ {n} : ReceiveSent(n, k))

FairSpec == Spec /\ Fairness

-------------------------------------------------------------------------------
(***************************************************************************)
(* Properties.                                                             *)
(***************************************************************************)

\* The chain of a node consists of values, and it has chunks only for values: an
\* old chunk that a peer asks for is never missing.
TypeOK ==
    /\ history \in [Nodes -> Seq(Values)]
    /\ external \in [Nodes -> Values \cup {Nil}]
    /\ heard \in [Nodes -> [Nodes -> Values \cup {Nil}]]
    /\ chunks \in [Nodes -> SUBSET Values]
    /\ \A n \in Nodes : \A s \in DOMAIN db[n] : s \in 1..MaxSlot /\ db[n][s] \in Values
    /\ failed \subseteq Nodes
    /\ votes \in [1..MaxSlot -> [Values -> {{}} \cup Quorums]]
    /\ forgot \in [1..MaxSlot -> SUBSET Nodes]

\* The chain a node works on is the one in its database, through restarts and
\* catching up: InsertBlock never meets a slot twice, ForBlocks no gap, and
\* neither of them ends the node.
ChainIsSaved == failed = {} /\ \A n \in Nodes : history[n] = db[n]

\* The value a slot is decided on, if there is one.
Chosen == [s \in 1..MaxSlot |-> IF Decided(s) = {} THEN Nil ELSE CHOOSE v \in Decided(s) : TRUE]

(***************************************************************************)
(* The databases are the replicas of one log: each slot gets one value,    *)
(* and a block that is saved is that value's, stays, and is never another  *)
(* one, though nodes start again between a vote and the end of the slot.   *)
(* It depends on how far quorums overlap.                                  *)
(***************************************************************************)
Log == INSTANCE ReplicatedLog WITH Replicas <- Nodes, chosen <- Chosen, log <- db

ImplementsLog == Log!Spec

(***************************************************************************)
(* A decided value is not lost: while somebody still has to finalize the   *)
(* slot, a node has the chunk, in memory or saved.                         *)
(***************************************************************************)
ChunkAvailable ==
    \A s \in 1..MaxSlot : \A v \in Decided(s) : \E k \in Nodes : v \in Shared(k, s)

(***************************************************************************)
(* A block that is done waits for its chunk.  It sends nothing but its     *)
(* ExternalizeMessage, which nobody who is ahead answers, and it is only   *)
(* looked at again when a message for its slot arrives.  Every other node  *)
(* reaches the last slot, unless so many wait that there is no quorum      *)
(* without them.                                                           *)
(***************************************************************************)
Awake == {n \in Nodes : external[n] = Nil}

AdvancesOrWaits ==
    <>[](\A n \in Awake : Slot(n) > MaxSlot \/ ~MeetsQuorum(n, Awake))

===============================================================================
