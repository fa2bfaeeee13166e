------------------------------ MODULE AccountMap ------------------------------
(***************************************************************************)
(* The accounts of the ledger (currency/account_map.go, account.go,        *)
(* send_operation.go, ledger_chunk.go): a function from owners to          *)
(* accounts, and one operator per method.                                  *)
(*                                                                         *)
(* Balances are uint64 and sequence numbers uint32, so the arithmetic is   *)
(* modulo BalanceRange and SequenceRange.  Signatures are verified when    *)
(* an operation is decoded, before it comes here.                          *)
(***************************************************************************)
EXTENDS Integers, Sequences

CONSTANTS
    Owners,         \* the public keys
    Operations,     \* the operations that their owners have signed
    Nil,            \* no account
    BalanceRange,   \* 2^64
    SequenceRange,  \* 2^32
    MaxChunkSize

Accounts == [Sequence : 0..SequenceRange-1, Balance : 0..BalanceRange-1]

SendOperations ==
    [Signer : Owners, Sequence : 0..SequenceRange-1, To : Owners,
     Amount : 0..BalanceRange-1, Fee : 0..BalanceRange-1]

ASSUME AccountAssumption ==
    /\ Nil \notin Accounts /\ Nil \notin [Owners -> Accounts \cup {Nil}]
    /\ BalanceRange \in Nat \ {0}
    /\ SequenceRange \in Nat \ {0}
    /\ MaxChunkSize \in Nat
    /\ Operations \subseteq SendOperations

-------------------------------------------------------------------------------
Cost(t) == (t.Amount + t.Fee) % BalanceRange

Validate(m, t) ==
    /\ m[t.Signer] # Nil
    /\ (m[t.Signer].Sequence + 1) % SequenceRange = t.Sequence
    /\ Cost(t) <= m[t.Signer].Balance

NewAccount == [Sequence |-> 0, Balance |-> 0]

\* Variant: the target gets the sequence number of the signer.
ProcessBothSequences(m, t) ==
    LET source == m[t.Signer]
        target == IF m[t.To] = Nil THEN NewAccount ELSE m[t.To]
    IN [m EXCEPT
          ![t.To] = [Sequence |-> t.Sequence,
                     Balance |-> (target.Balance + t.Amount) % BalanceRange],
          ![t.Signer] = [Sequence |-> t.Sequence,
                         Balance |-> (source.Balance - t.Amount - t.Fee) % BalanceRange]]

\* Variant: the target gets the fee as well.
ProcessWithFee(m, t) ==
    LET source == m[t.Signer]
        target == IF m[t.To] = Nil THEN NewAccount ELSE m[t.To]
    IN [m EXCEPT
          ![t.Signer] = [Sequence |-> t.Sequence,
                         Balance |-> (source.Balance - t.Amount) % BalanceRange],
          ![t.To] = [Sequence |-> target.Sequence,
                     Balance |-> (target.Balance + t.Amount + t.Fee) % BalanceRange]]

\* Both accounts are read before either is set, and the target is set last.
Process(m, t) ==
    LET source == m[t.Signer]
        target == IF m[t.To] = Nil THEN NewAccount ELSE m[t.To]
    IN [m EXCEPT
          ![t.Signer] = [Sequence |-> t.Sequence,
                         Balance |-> (source.Balance - t.Amount - t.Fee) % BalanceRange],
          ![t.To] = [Sequence |-> target.Sequence,
                     Balance |-> (target.Balance + t.Amount) % BalanceRange]]

(***************************************************************************)
(* Chunks.  ProcessChunk is Nil when it returns false: an operation cannot *)
(* be processed after the ones before it, or the accounts afterwards are   *)
(* not the ones that the chunk states.  ValidateChunk tries it on a copy.  *)
(***************************************************************************)
ProcessOperations(m, ops) ==
    LET upTo[i \in 0..Len(ops)] ==
          IF i = 0 THEN m
          ELSE IF upTo[i-1] # Nil /\ Validate(upTo[i-1], ops[i])
               THEN Process(upTo[i-1], ops[i])
               ELSE Nil
    IN upTo[Len(ops)]

ProcessChunk(m, chunk) ==
    LET after == ProcessOperations(m, chunk.Operations)
    IN IF /\ Len(chunk.Operations) <= MaxChunkSize
          /\ after # Nil
          /\ \A owner \in DOMAIN chunk.State : after[owner] = chunk.State[owner]
       THEN after ELSE Nil

ValidateChunk(m, chunk) == ProcessChunk(m, chunk) # Nil

===============================================================================
