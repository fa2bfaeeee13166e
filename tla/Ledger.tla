-------------------------------- MODULE Ledger --------------------------------
(***************************************************************************)
(* The operation queues of a network of nodes: operations come in, spread, *)
(* are put in chunks, voted on and applied.                                *)
(*                                                                         *)
(* The vote on a slot is the subject of Nomination and Balloting.  Here it *)
(* calls the methods of ValueStore (consensus/value_store.go) as those     *)
(* modules do: a node asks for a suggestion when it has nominated nothing, *)
(* nominates a value of a peer when it has the chunk, combines values that *)
(* it nominated, and finalizes what a quorum had the chunk of, which is    *)
(* the same value for all.                                                 *)
(***************************************************************************)
EXTENDS QuorumSlices, OperationQueue

CONSTANTS
    Funds,          \* the balances of the owners before the first slot
    MaxRestarts     \* bound: how often nodes stop and start again

ASSUME LedgerAssumption ==
    /\ IsFiniteSet(Owners)
    /\ Funds \in [Owners -> 0..BalanceRange-1]
    /\ MaxRestarts \in Nat

VARIABLES
    queue,          \* the OperationQueue of each node
    X,              \* NominationState.X: what each node nominates for its slot
    decided,        \* the chunks that the slots have been decided on
    restarts        \* how many restarts have happened

vars == <<queue, X, decided, restarts>>

\* An owner without funds has no account yet.
Genesis ==
    [o \in Owners |-> IF Funds[o] = 0 THEN Nil ELSE [Sequence |-> 0, Balance |-> Funds[o]]]

Init ==
    /\ queue = [n \in Nodes |-> NewOperationQueue(Genesis)]
    /\ X = [n \in Nodes |-> {}]
    /\ decided = <<>>
    /\ restarts = 0

Slot(n) == QueueSlot(queue[n])

-------------------------------------------------------------------------------
(***************************************************************************)
(* Messages.  A message that would change nothing is left out.             *)
(***************************************************************************)
Receive(n, m) ==
    /\ ~queue[n].failed
    /\ HandleTransactionMessage(queue[n], m) # queue[n]
    /\ queue' = [queue EXCEPT ![n] = HandleTransactionMessage(@, m)]
    /\ UNCHANGED <<X, decided, restarts>>

\* A client sends an operation, or an old message with it arrives late.
Submit(n, op) == Receive(n, [Operations |-> <<op>>, Chunks |-> {}])

\* The TransactionMessage of a peer.
ReceiveTransactions(n, k) ==
    /\ ~queue[k].failed
    /\ Receive(n, TransactionMessage(queue[k]))

\* The chunk of a HistoryMessage: a peer is ahead.
ReceiveHistory(n, k) ==
    /\ ~queue[k].failed
    /\ Slot(k) > Slot(n)
    /\ Receive(n, OldChunkMessage(queue[k], Slot(n)))

-------------------------------------------------------------------------------
(***************************************************************************)
(* The calls of the vote.                                                  *)
(***************************************************************************)

\* MaybeNominateNewValue, when it is the turn of n.
Suggest(n) ==
    /\ ~queue[n].failed
    /\ X[n] = {}
    /\ queue[n].set # {}
    /\ queue' = [queue EXCEPT ![n] = SuggestValue(@)]
    /\ X' = [X EXCEPT ![n] = {Suggestion(queue[n])} \cap queue'[n].chunks]
    /\ UNCHANGED <<decided, restarts>>

\* SupportNomination: a value of a peer is nominated when ValidateValue says so.
ReceiveNomination(n, k) ==
    /\ ~queue[n].failed
    /\ ~queue[k].failed
    /\ Slot(k) = Slot(n)
    /\ ~(X[k] \cap queue[n].chunks \subseteq X[n])
    /\ X' = [X EXCEPT ![n] = @ \cup (X[k] \cap queue[n].chunks)]
    /\ UNCHANGED <<queue, decided, restarts>>

\* PredictValue.
CombineValues(n, list) ==
    /\ ~queue[n].failed
    /\ Combine(queue[n], list) # queue[n]
    /\ queue' = [queue EXCEPT ![n] = Combine(@, list)]
    /\ UNCHANGED <<X, decided, restarts>>

Holders(s, v) == {k \in Nodes : Slot(k) = s /\ v \in queue[k].chunks}

\* The values that a vote on slot s can end with: Nomination and Balloting say
\* why a quorum has the chunk, Chain why all nodes end with the same one.
Decidable(s) ==
    IF s <= Len(decided) THEN {decided[s]}
    ELSE {v \in UNION {queue[k].chunks : k \in Nodes} :
            \E k \in Nodes : MeetsQuorum(k, Holders(s, v))}

\* Variant: the new block nominates what the old one did.
ExternalizeKeepingX(n, v) ==
    /\ ~queue[n].failed
    /\ v \in Decidable(Slot(n))
    /\ CanFinalize(queue[n], v)
    /\ queue' = [queue EXCEPT ![n] = Finalize(@, v)]
    /\ decided' = IF Slot(n) > Len(decided) THEN Append(decided, v) ELSE decided
    /\ UNCHANGED <<X, restarts>>

\* The block of the slot is done with value v, and the chunk of v is there.
Externalize(n, v) ==
    /\ ~queue[n].failed
    /\ v \in Decidable(Slot(n))
    /\ CanFinalize(queue[n], v)
    /\ queue' = [queue EXCEPT ![n] = Finalize(@, v)]
    /\ X' = [X EXCEPT ![n] = {}]
    /\ decided' = IF Slot(n) > Len(decided) THEN Append(decided, v) ELSE decided
    /\ UNCHANGED restarts

\* Variant: the chunks are read, and not applied.
ReplayedUnapplied(chunks) == [NewOperationQueue(Genesis) EXCEPT !.oldChunks = chunks]

\* The chunks of the database are finalized again, in order.
Replayed(chunks) ==
    LET upTo[i \in 0..Len(chunks)] ==
          IF i = 0 THEN NewOperationQueue(Genesis)
          ELSE FinalizeChunk(upTo[i-1], chunks[i])
    IN upTo[Len(chunks)]

\* NewNodeWithMint.
Restart(n) ==
    /\ restarts < MaxRestarts
    /\ restarts' = restarts + 1
    /\ queue' = [queue EXCEPT ![n] = Replayed(@.oldChunks)]
    /\ X' = [X EXCEPT ![n] = {}]
    /\ UNCHANGED decided

Next ==
    \E n \in Nodes :
        \/ \E op \in Operations : Submit(n, op)
        \/ \E k \in Nodes \ {n} :
             \/ ReceiveTransactions(n, k)
             \/ ReceiveHistory(n, k)
             \/ ReceiveNomination(n, k)
        \/ Suggest(n)
        \/ \E list \in (SUBSET X[n]) \ {{}} : CombineValues(n, list)
        \/ \E v \in queue[n].chunks : Externalize(n, v)
        \/ Restart(n)

Spec == Init /\ [][Next]_vars

(***************************************************************************)
(* Fairness.  The TransactionMessage of a node is broadcast again and      *)
(* again, so it does not wait for ever that it would change a peer: weak   *)
(* fairness of ReceiveTransactions, written out.  Nothing else is certain: *)
(* clients need not send, and a vote need not end.                         *)
(***************************************************************************)
MessageWaits(n, k) ==
    /\ ~queue[n].failed /\ ~queue[k].failed
    /\ HandleTransactionMessage(queue[n], TransactionMessage(queue[k])) # queue[n]

Fairness == \A n, k \in Nodes : n # k => []<>~MessageWaits(n, k)

FairSpec == Spec /\ Fairness

-------------------------------------------------------------------------------
(***************************************************************************)
(* Properties.                                                             *)
(***************************************************************************)
Money == SumFunction(Funds)

IsChunk(c) ==
    /\ c.Operations \in Seq(Operations)
    /\ DOMAIN c.State \subseteq Owners
    /\ \A o \in DOMAIN c.State : c.State[o] \in Accounts

\* A queue has operations, chunks of them, and accounts whose balances are never
\* more than all the money: the subtraction in Process does not wrap.
TypeOK ==
    /\ \A n \in Nodes :
         /\ queue[n].set \subseteq Operations
         /\ \A c \in queue[n].chunks \cup Range(queue[n].oldChunks) : IsChunk(c)
         /\ queue[n].accounts \in
              [Owners -> [Sequence : 0..SequenceRange-1, Balance : 0..Money] \cup {Nil}]
         /\ X[n] \subseteq queue[n].chunks
    /\ \A c \in Range(decided) : IsChunk(c)
    /\ restarts \in 0..MaxRestarts

\* No node panics "We could not validate a finalized chunk." or in NewChunk: what
\* any node proposes, combines or learns for a slot, each of them can finalize.
NeverFails == \A n \in Nodes : ~queue[n].failed

\* Nodes at the same slot have the same accounts, however they got there: by the
\* vote, by catching up or by a restart from their database.
LedgersAgree ==
    \A n, m \in Nodes : Slot(n) = Slot(m) => queue[n].accounts = queue[m].accounts

\* The operations of the pool are valid one by one for the accounts of the slot:
\* Finalize leaves none behind that is applied already or has lost its funds.
PoolValid == \A n \in Nodes : \A op \in queue[n].set : Validate(queue[n].accounts, op)

\* The operations that node n has applied, oldest first.
Applied(n) ==
    LET chunks == queue[n].oldChunks
        upTo[s \in 0..Len(chunks)] ==
          IF s = 0 THEN <<>> ELSE upTo[s-1] \o chunks[s].Operations
    IN upTo[Len(chunks)]

Balance(n, o) == IF queue[n].accounts[o] = Nil THEN 0 ELSE queue[n].accounts[o].Balance

Sequence(n, o) == IF queue[n].accounts[o] = Nil THEN 0 ELSE queue[n].accounts[o].Sequence

\* "The sequence id of the last transaction authorized by this account"
\* (account.go): what an owner has signed is applied in the order of its sequence
\* numbers, without gaps, so no message, retry or restart applies it twice.
SequenceIsLast ==
    \A n \in Nodes, o \in Owners :
        LET signed == {i \in 1..Len(Applied(n)) : Applied(n)[i].Signer = o}
        IN /\ Sequence(n, o) = Cardinality(signed)
           /\ \A i \in signed : Applied(n)[i].Sequence = Cardinality({j \in signed : j <= i})

Fees(n) == SumFunction([i \in 1..Len(Applied(n)) |-> Applied(n)[i].Fee])

\* The money that is not in an account has been paid as a fee: transfers neither
\* make nor lose any, though two accounts are written one after the other.
MoneyAccounted ==
    \A n \in Nodes : SumFunction([o \in Owners |-> Balance(n, o)]) + Fees(n) = Money

\* While a node stays at a slot and runs, an operation leaves its pool only for
\* better ones: all that stay, and QueueLimit of them, come before it.
OnlyWorstEvicted ==
    [][\A n \in Nodes : restarts' = restarts /\ Slot(n)' = Slot(n) =>
         \A gone \in queue[n].set \ queue'[n].set :
             /\ Cardinality(queue'[n].set) = QueueLimit
             /\ \A op \in queue'[n].set : HighestFeeFirst(op, gone)]_vars

\* The pool of n has no room for op.
FullOfBetter(n, op) ==
    /\ Cardinality(queue[n].set) = QueueLimit
    /\ \A other \in queue[n].set : HighestFeeFirst(other, op)

(***************************************************************************)
(* What a node shares reaches its peers: of two nodes that stay at the     *)
(* same slot each gets the chunks of the other, so that it can finalize    *)
(* what the other can, and the operations, but for those that its pool has *)
(* no room for.  A message adds only one operation, the first that can be  *)
(* added, so this takes several messages.                                  *)
(***************************************************************************)
PoolsSpread ==
    \A n, k \in Nodes : []<>
        \/ Slot(n) # Slot(k) \/ queue[n].failed \/ queue[k].failed
        \/ /\ queue[k].chunks \subseteq queue[n].chunks
           /\ \A op \in queue[k].set \ queue[n].set : FullOfBetter(n, op)

-------------------------------------------------------------------------------
(***************************************************************************)
(* What the proofs suppose of the operations, where it matters; nothing in *)
(* the code sees to it.  The last one is a condition on states: the clients *)
(* of a run decide whether it holds.                                       *)
(***************************************************************************)
\* Nobody sends to themselves.
ToOthers == \A op \in Operations : op.Signer # op.To

\* Nobody signs as many operations as there are sequence numbers.
Counted == \A op \in Operations : op.Sequence # 0

\* What an operation costs is a uint64.
CostsFit == \A op \in Operations : op.Amount + op.Fee < BalanceRange

\* So is all the money.
MoneyFits == Money < BalanceRange

\* Every operation moves some money.
CostSomething == \A op \in Operations : op.Amount + op.Fee > 0

\* The operations that a queue has pooled or has in chunks of its slot.
AtHand(q) == q.set \cup UNION {Range(c.Operations) : c \in q.chunks}

\* Neither two of one owner with the same sequence number, nor more than a chunk
\* may have.
OrderlyQueue(q) ==
    /\ \A a, b \in AtHand(q) : a.Signer = b.Signer /\ a.Sequence = b.Sequence => a = b
    /\ IsFiniteSet(AtHand(q)) /\ Cardinality(AtHand(q)) <= MaxChunkSize

Orderly == \A n \in Nodes : OrderlyQueue(queue[n])

===============================================================================
