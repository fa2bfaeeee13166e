---------------------------- MODULE OperationQueue ----------------------------
(***************************************************************************)
(* The pool of pending operations and the chunks made from them            *)
(* (currency/operation_queue.go): a record, and one operator per method    *)
(* that gives the record after the call.                                   *)
(*                                                                         *)
(* The key of a chunk is its hash.  Different chunks have different hashes *)
(* here, so a chunk stands for its own key, and a message whose keys are   *)
(* not the hashes of its chunks, which is ignored, does not occur.         *)
(*                                                                         *)
(* The panics of NewChunk and Finalize leave the queue "failed": the       *)
(* process ends.                                                           *)
(***************************************************************************)
EXTENDS AccountMap, FiniteSetsExt

CONSTANTS
    Signature,      \* the signatures, as numbers: they order equal fees
    QueueLimit

ASSUME QueueAssumption ==
    /\ Signature \in [Operations -> Nat]
    /\ \A op1, op2 \in Operations : Signature[op1] = Signature[op2] => op1 = op2
    /\ QueueLimit \in Nat \ {0}

\* The order of the pool: better operations come first.
HighestFeeFirst(op1, op2) ==
    \/ op1.Fee > op2.Fee
    \/ op1.Fee = op2.Fee /\ Signature[op1] < Signature[op2]

Sorted(ops) ==
    CHOOSE s \in [1..Cardinality(ops) -> ops] :
        \A i, j \in DOMAIN s : i < j => HighestFeeFirst(s[i], s[j])

NewOperationQueue(accounts) ==
    [set |-> {}, chunks |-> {}, accounts |-> accounts, oldChunks |-> <<>>, failed |-> FALSE]

\* OperationQueue.slot.
QueueSlot(q) == Len(q.oldChunks) + 1

-------------------------------------------------------------------------------
(***************************************************************************)
(* Operations.                                                             *)
(***************************************************************************)
\* Variant: the best operation makes room for the new one.
EvictedFirst(ops) == {CHOOSE op \in ops : \A other \in ops \ {op} : HighestFeeFirst(op, other)}

\* The worst operation of a pool that is over the limit.
Evicted(ops) == {CHOOSE op \in ops : \A other \in ops \ {op} : HighestFeeFirst(other, op)}

AddedTo(ops, op) ==
    LET all == ops \cup {op}
    IN IF Cardinality(all) > QueueLimit THEN all \ Evicted(all) ELSE all

\* Add changes the pool: it returns whether the operation is new and stays.
Addable(q, op) ==
    /\ Validate(q.accounts, op)
    /\ op \notin q.set
    /\ op \in AddedTo(q.set, op)

Add(q, op) == [q EXCEPT !.set = AddedTo(@, op)]

\* Variant: only the first operation of a message is tried.
AddOperationsFirst(q, ops) ==
    IF ops # <<>> /\ Addable(q, ops[1]) THEN Add(q, ops[1]) ELSE q

\* "updated || q.Add(op)" adds nothing more once one operation was added.
AddOperations(q, ops) ==
    LET new == {i \in 1..Len(ops) : Addable(q, ops[i])}
    IN IF new = {} THEN q ELSE Add(q, ops[Min(new)])

LearnChunks(q, chunks) ==
    [q EXCEPT !.chunks = @ \cup {c \in chunks : ValidateChunk(q.accounts, c)}]

HandleTransactionMessage(q, m) ==
    LearnChunks(AddOperations(q, m.Operations), m.Chunks)

TransactionMessage(q) == [Operations |-> Sorted(q.set), Chunks |-> q.chunks]

OldChunkMessage(q, slot) == [Operations |-> <<>>, Chunks |-> {q.oldChunks[slot]}]

Revalidate(q) == [q EXCEPT !.set = {op \in @ : Validate(q.accounts, op)}]

-------------------------------------------------------------------------------
(***************************************************************************)
(* Chunks.  NewChunk looks at operations until MaxChunkSize of them could  *)
(* be processed, and states the accounts of all it looked at.  The chunk   *)
(* has every operation of the list.                                        *)
(***************************************************************************)
Mentioned(ops) == UNION {{op.Signer, op.To} : op \in ops}

ChunkOf(accounts, ops) ==
    LET validator[i \in 0..Len(ops)] ==
          IF i = 0 THEN [accounts |-> accounts, validOps |-> 0]
          ELSE LET before == validator[i-1]
               IN IF before.validOps < MaxChunkSize /\ Validate(before.accounts, ops[i])
                  THEN [accounts |-> Process(before.accounts, ops[i]),
                        validOps |-> before.validOps + 1]
                  ELSE before
        seen == {ops[i] : i \in {j \in 1..Len(ops) : validator[j-1].validOps < MaxChunkSize}}
    IN [Operations |-> ops,
        State |-> [o \in Mentioned(seen) |-> validator[Len(ops)].accounts[o]]]

\* Hash reads every account of the State, and one that does not exist is a nil
\* pointer.
Hashable(chunk) == \A o \in DOMAIN chunk.State : chunk.State[o] # Nil

NewChunk(q, ops) ==
    LET chunk == ChunkOf(q.accounts, ops)
    IN IF Hashable(chunk)
       THEN [q EXCEPT !.chunks = @ \cup {chunk}]
       ELSE [q EXCEPT !.failed = TRUE]

SuggestValue(q) == NewChunk(q, Sorted(q.set))

\* The chunk that SuggestValue names when it succeeds.
Suggestion(q) == ChunkOf(q.accounts, Sorted(q.set))

\* The chunks of the list are known.
Combine(q, list) == NewChunk(q, Sorted(UNION {Range(chunk.Operations) : chunk \in list}))

CanFinalize(q, chunk) == chunk \in q.chunks

\* Variant: the pool is not looked at again.
FinalizeUnchecked(q, chunk) ==
    LET after == ProcessChunk(q.accounts, chunk)
    IN IF after = Nil THEN [q EXCEPT !.failed = TRUE]
       ELSE [q EXCEPT !.accounts = after, !.chunks = {}, !.oldChunks = Append(@, chunk)]

\* Variant: the chunks of the old slot stay.
FinalizeKeeping(q, chunk) ==
    LET after == ProcessChunk(q.accounts, chunk)
    IN IF after = Nil THEN [q EXCEPT !.failed = TRUE]
       ELSE Revalidate([q EXCEPT !.accounts = after, !.oldChunks = Append(@, chunk)])

Finalize(q, chunk) ==
    LET after == ProcessChunk(q.accounts, chunk)
    IN IF after = Nil THEN [q EXCEPT !.failed = TRUE]
       ELSE Revalidate([q EXCEPT !.accounts = after, !.chunks = {},
                                 !.oldChunks = Append(@, chunk)])

FinalizeChunk(q, chunk) == Finalize([q EXCEPT !.chunks = @ \cup {chunk}], chunk)

===============================================================================
