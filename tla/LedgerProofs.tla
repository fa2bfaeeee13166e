----------------------------- MODULE LedgerProofs -----------------------------
(***************************************************************************)
(* The ledger, for any network, any operations and any limits.             *)
(*                                                                         *)
(* First what one operation does to the accounts, where it is a transfer   *)
(* to somebody else whose amounts do not wrap.  Then the pools and the     *)
(* ledgers of all nodes, whatever the operations are.  LedgerChunkProofs   *)
(* goes on with what is in the chunks.                                     *)
(***************************************************************************)
EXTENDS Ledger, FiniteSetTheorems, WellFoundedInduction, TLAPS

\* Zenon is tried first: few steps need the theories of the SMT solver.
USE Zenon, SMT

-------------------------------------------------------------------------------
(***************************************************************************)
(* Accounts.                                                               *)
(***************************************************************************)
BalanceOf(m, o) == IF m[o] = Nil THEN 0 ELSE m[o].Balance

\* A transfer to another owner: neither its cost nor what the target then has wraps.
Transfer(m, t) ==
    /\ t.Signer # t.To
    /\ t.Amount + t.Fee < BalanceRange
    /\ BalanceOf(m, t.To) + t.Amount < BalanceRange

\* The arithmetic of uint64 and uint32 is the usual one within the range.
LEMMA WithinRange ==
    ASSUME NEW range \in Nat \ {0}, NEW x \in 0..range-1
    PROVE  x % range = x
OBVIOUS

\* The cost of a transfer is what it says.
LEMMA TransferCost ==
    ASSUME NEW m, NEW t \in Operations, Transfer(m, t)
    PROVE  Cost(t) = t.Amount + t.Fee
<1>1. t.Amount \in 0..BalanceRange-1 /\ t.Fee \in 0..BalanceRange-1 /\ BalanceRange \in Nat \ {0}
  BY AccountAssumption DEF SendOperations
<1>2. t.Amount + t.Fee \in 0..BalanceRange-1
  BY <1>1 DEF Transfer
<1> QED BY <1>1, <1>2, WithinRange DEF Cost

\* The accounts that Process reads and writes.
LEMMA ProcessedAccounts ==
    ASSUME NEW m \in [Owners -> Accounts \cup {Nil}], NEW t \in Operations,
           Validate(m, t), Transfer(m, t)
    PROVE  /\ Process(m, t)[t.Signer] = [Sequence |-> t.Sequence,
                                         Balance |-> m[t.Signer].Balance - t.Amount - t.Fee]
           /\ Process(m, t)[t.To] = [Sequence |-> IF m[t.To] = Nil THEN 0 ELSE m[t.To].Sequence,
                                     Balance |-> BalanceOf(m, t.To) + t.Amount]
           /\ \A o \in Owners \ {t.Signer, t.To} : Process(m, t)[o] = m[o]
<1>1. /\ t.Signer \in Owners /\ t.To \in Owners
      /\ t.Amount \in 0..BalanceRange-1 /\ t.Fee \in 0..BalanceRange-1 /\ BalanceRange \in Nat \ {0}
  BY AccountAssumption DEF SendOperations
<1>2. m[t.Signer] \in Accounts /\ m[t.To] \in Accounts \cup {Nil}
  BY <1>1 DEF Validate
<1>3. Cost(t) = t.Amount + t.Fee
  BY TransferCost
<1>4. m[t.Signer].Balance - t.Amount - t.Fee \in 0..BalanceRange-1
  BY <1>1, <1>2, <1>3, SMT DEF Validate, Accounts
<1>5. BalanceOf(m, t.To) + t.Amount \in 0..BalanceRange-1
  BY <1>1, <1>2, SMT DEF Transfer, BalanceOf, Accounts
<1>6. (m[t.Signer].Balance - t.Amount - t.Fee) % BalanceRange = m[t.Signer].Balance - t.Amount - t.Fee
  BY <1>1, <1>4, WithinRange
<1>7. (BalanceOf(m, t.To) + t.Amount) % BalanceRange = BalanceOf(m, t.To) + t.Amount
  BY <1>1, <1>5, WithinRange
<1> DEFINE target == IF m[t.To] = Nil THEN NewAccount ELSE m[t.To]
<1>8. target.Balance = BalanceOf(m, t.To) /\ target.Sequence = IF m[t.To] = Nil THEN 0 ELSE m[t.To].Sequence
  BY DEF BalanceOf, NewAccount
<1> HIDE DEF target
<1>9. Process(m, t) =
        [m EXCEPT ![t.Signer] = [Sequence |-> t.Sequence,
                                 Balance |-> m[t.Signer].Balance - t.Amount - t.Fee],
                  ![t.To] = [Sequence |-> target.Sequence, Balance |-> target.Balance + t.Amount]]
  BY <1>6, <1>7, <1>8 DEF Process, target
<1> QED BY <1>1, <1>8, <1>9 DEF Transfer

(***************************************************************************)
(* A transfer that Validate lets through takes from the signer what the    *)
(* target gets and the fee, leaves everybody else alone, and neither the   *)
(* subtraction nor the addition of Process wraps.                          *)
(***************************************************************************)
THEOREM TransferConserves ==
    ASSUME NEW m \in [Owners -> Accounts \cup {Nil}], NEW t \in Operations,
           Validate(m, t), Transfer(m, t)
    PROVE  LET after == Process(m, t)
           IN /\ after \in [Owners -> Accounts \cup {Nil}]
              /\ BalanceOf(after, t.Signer) + BalanceOf(after, t.To) + t.Fee
                   = BalanceOf(m, t.Signer) + BalanceOf(m, t.To)
              /\ \A o \in Owners \ {t.Signer, t.To} : after[o] = m[o]
<1> DEFINE after == Process(m, t)
<1>1. /\ t.Signer \in Owners /\ t.To \in Owners /\ t.Sequence \in 0..SequenceRange-1
      /\ t.Amount \in 0..BalanceRange-1 /\ t.Fee \in 0..BalanceRange-1
      /\ BalanceRange \in Nat \ {0} /\ SequenceRange \in Nat \ {0}
  BY AccountAssumption DEF SendOperations
<1>2. m[t.Signer] \in Accounts /\ m[t.To] \in Accounts \cup {Nil}
  BY <1>1 DEF Validate
<1>3. Cost(t) = t.Amount + t.Fee
  BY TransferCost
<1>4. after[t.Signer] = [Sequence |-> t.Sequence, Balance |-> m[t.Signer].Balance - t.Amount - t.Fee]
  BY ProcessedAccounts
<1>5. after[t.To] = [Sequence |-> IF m[t.To] = Nil THEN 0 ELSE m[t.To].Sequence,
                     Balance |-> BalanceOf(m, t.To) + t.Amount]
  BY ProcessedAccounts
<1>6. \A o \in Owners \ {t.Signer, t.To} : after[o] = m[o]
  BY ProcessedAccounts
<1>7. after[t.Signer] \in Accounts
  BY <1>1, <1>2, <1>3, <1>4, SMT DEF Validate, Accounts
<1>8. after[t.To] \in Accounts
  BY <1>1, <1>2, <1>5, SMT DEF Transfer, BalanceOf, Accounts
<1>9. after \in [Owners -> Accounts \cup {Nil}]
  <2>1. DOMAIN after = Owners /\ after = [o \in Owners |-> after[o]]
    BY DEF Process
  <2> QED BY <1>6, <1>7, <1>8, <2>1
<1>10. BalanceOf(after, t.Signer) = m[t.Signer].Balance - t.Amount - t.Fee
  BY <1>4, <1>7, AccountAssumption, SMT DEF BalanceOf
<1>11. BalanceOf(after, t.To) = BalanceOf(m, t.To) + t.Amount
  BY <1>5, <1>8, AccountAssumption, SMT DEF BalanceOf
<1>12. BalanceOf(m, t.Signer) = m[t.Signer].Balance /\ m[t.Signer].Balance \in Nat
  BY <1>2, AccountAssumption, SMT DEF BalanceOf, Accounts
<1>13. BalanceOf(m, t.To) \in Nat
  BY <1>2, SMT DEF BalanceOf, Accounts
<1>14. BalanceOf(after, t.Signer) + BalanceOf(after, t.To) + t.Fee
         = BalanceOf(m, t.Signer) + BalanceOf(m, t.To)
  BY <1>1, <1>10, <1>11, <1>12, <1>13, SMT
<1> QED BY <1>6, <1>9, <1>14

(***************************************************************************)
(* Validate does not let an operation through a second time, nor another   *)
(* one of the same signer with its sequence number, right after it: a      *)
(* chunk never holds both, though sequence numbers wrap at their range.    *)
(***************************************************************************)
THEOREM AppliedOnce ==
    ASSUME NEW m \in [Owners -> Accounts \cup {Nil}], NEW t \in Operations, NEW u \in Operations,
           Validate(m, t), Transfer(m, t), SequenceRange > 1,
           u.Signer = t.Signer, u.Sequence = t.Sequence
    PROVE  ~Validate(Process(m, t), u)
<1>1. t.Sequence \in 0..SequenceRange-1 /\ SequenceRange \in Nat
  BY AccountAssumption DEF SendOperations
<1>2. Process(m, t)[t.Signer].Sequence = t.Sequence
  <2>1. Process(m, t)[t.Signer] = [Sequence |-> t.Sequence,
                                   Balance |-> m[t.Signer].Balance - t.Amount - t.Fee]
    BY ProcessedAccounts
  <2> QED BY <2>1, SMT
<1>3. (t.Sequence + 1) % SequenceRange # t.Sequence
  <2>1. CASE t.Sequence = SequenceRange - 1
    <3>1. (t.Sequence + 1) % SequenceRange = 0
      BY <1>1, <2>1
    <3> QED BY <1>1, <2>1, <3>1
  <2>2. CASE t.Sequence < SequenceRange - 1
    <3>1. (t.Sequence + 1) % SequenceRange = t.Sequence + 1
      BY <1>1, <2>2, WithinRange, SMT
    <3> QED BY <1>1, <3>1
  <2> QED BY <1>1, <2>1, <2>2
<1> QED BY <1>2, <1>3 DEF Validate

(***************************************************************************)
(* An operation that Validate lets through is still let through after a    *)
(* transfer of somebody else.  So operations of the pool, each valid by    *)
(* itself, can only get in each other's way in a chunk when they spend the *)
(* same account.                                                           *)
(***************************************************************************)
THEOREM TransfersIndependent ==
    ASSUME NEW m \in [Owners -> Accounts \cup {Nil}], NEW t \in Operations, NEW u \in Operations,
           Validate(m, t), Validate(m, u), Transfer(m, u), u.Signer # t.Signer
    PROVE  Validate(Process(m, u), t)
<1>1. t.Signer \in Owners /\ u.Signer \in Owners /\ u.To \in Owners
      /\ u.Amount \in Nat /\ t.Amount \in Nat /\ t.Fee \in Nat /\ BalanceRange \in Nat \ {0}
  BY AccountAssumption, SMT DEF SendOperations
<1>2. m[t.Signer] \in Accounts
  BY <1>1 DEF Validate
<1>3. CASE t.Signer # u.To
  BY <1>1, <1>3, ProcessedAccounts, ZenonT(60) DEF Validate
<1>4. CASE t.Signer = u.To
  <2>1. Process(m, u)[t.Signer] = [Sequence |-> m[t.Signer].Sequence, Balance |-> m[t.Signer].Balance + u.Amount]
    <3>1. Process(m, u)[u.To] = [Sequence |-> IF m[u.To] = Nil THEN 0 ELSE m[u.To].Sequence,
                                 Balance |-> BalanceOf(m, u.To) + u.Amount]
      BY ProcessedAccounts
    <3> QED BY <1>4, <3>1 DEF Validate, BalanceOf
  <2>2. Process(m, u)[t.Signer] # Nil
    <3>1. m[t.Signer].Balance + u.Amount \in 0..BalanceRange-1
      BY <1>1, <1>2, <1>4, SMT DEF Transfer, BalanceOf, Accounts, Validate
    <3> QED BY <1>2, <2>1, <3>1, AccountAssumption, SMT DEF Accounts
  <2>3. Cost(t) \in Nat /\ m[t.Signer].Balance \in Nat
    BY <1>1, <1>2, SMT DEF Cost, Accounts
  <2> QED BY <1>1, <2>1, <2>2, <2>3, SMT DEF Validate
<1> QED BY <1>3, <1>4

-------------------------------------------------------------------------------
(***************************************************************************)
(* The order of the pool.                                                  *)
(***************************************************************************)

\* Induction: a set of numbers with 0 and with the successor of each of its
\* numbers has them all.
LEMMA Induction ==
    ASSUME NEW S, 0 \in S, \A n \in Nat : n \in S => n + 1 \in S
    PROVE  Nat \subseteq S
<1> SUFFICES ASSUME Nat \ S # {} PROVE FALSE
  OBVIOUS
<1>1. PICK n \in Nat \ S : \A m \in Nat \ S : ~(<<m, n>> \in OpToRel(<, Nat))
  BY NatLessThanWellFounded, WFMin
<1>2. \A m \in Nat \ S : ~(m < n)
  BY <1>1 DEF OpToRel
<1>3. n # 0 /\ n - 1 \in Nat /\ n - 1 < n /\ (n - 1) + 1 = n
  OBVIOUS
<1> QED
  BY <1>2, <1>3

\* A set of numbers has a least one.
LEMMA LeastIndex ==
    ASSUME NEW S \in SUBSET Nat, S # {}
    PROVE  Min(S) \in S
<1>1. PICK n \in S : \A m \in S : ~(<<m, n>> \in OpToRel(<, Nat))
  BY NatLessThanWellFounded, WFMin
<1>2. \A m \in S : ~(m < n)
  <2> SUFFICES ASSUME NEW m \in S, m < n PROVE FALSE
    OBVIOUS
  <2>1. m \in Nat /\ n \in Nat
    OBVIOUS
  <2>2. <<m, n>> \in OpToRel(<, Nat)
    BY <2>1 DEF OpToRel
  <2> QED
    BY <1>1, <2>2
<1>3. \A m \in S : n <= m
  BY <1>2
<1> QED
  BY <1>3 DEF Min

\* Fees, and signatures where fees are equal, order the operations totally.
LEMMA OperationsOrdered ==
    ASSUME NEW a \in Operations, NEW b \in Operations, NEW c \in Operations
    PROVE  /\ a # b => HighestFeeFirst(a, b) \/ HighestFeeFirst(b, a)
           /\ HighestFeeFirst(a, b) /\ HighestFeeFirst(b, c) => HighestFeeFirst(a, c)
           /\ ~HighestFeeFirst(a, a)
<1>1. a.Fee \in Int /\ b.Fee \in Int /\ c.Fee \in Int
  BY AccountAssumption, SMT DEF SendOperations
<1>2. /\ Signature[a] \in Int /\ Signature[b] \in Int /\ Signature[c] \in Int
      /\ Signature[a] = Signature[b] => a = b
  BY QueueAssumption, SMT
<1> QED
  BY <1>1, <1>2 DEF HighestFeeFirst

\* The worst operation of a pool comes after all others.
IsWorst(w, ops) == w \in ops /\ \A other \in ops \ {w} : HighestFeeFirst(other, w)

\* Some operation of a pool is the worst.
LEMMA WorstExists ==
    ASSUME NEW ops \in SUBSET Operations, IsFiniteSet(ops), ops # {}
    PROVE  \E w : IsWorst(w, ops)
<1> DEFINE S == {n \in Nat : \A T \in SUBSET Operations :
                   IsFiniteSet(T) /\ Cardinality(T) = n + 1 => \E w : IsWorst(w, T)}
<1>1. ASSUME NEW T \in SUBSET Operations, IsFiniteSet(T), NEW n \in Nat,
             Cardinality(T) = n + 1
      PROVE  \E x \in T : /\ IsFiniteSet(T \ {x}) /\ Cardinality(T \ {x}) = n
                          /\ T \ {x} \in SUBSET Operations
  <2>1. T # {}
    BY <1>1, FS_EmptySet, SMT
  <2>2. PICK x : x \in T
    BY <2>1
  <2>3. IsFiniteSet(T \ {x}) /\ Cardinality(T \ {x}) = Cardinality(T) - 1
    BY <1>1, <2>2, FS_RemoveElement
  <2> QED
    BY <1>1, <2>2, <2>3, SMT
<1>2. 0 \in S
  <2> SUFFICES ASSUME NEW T \in SUBSET Operations, IsFiniteSet(T), Cardinality(T) = 0 + 1
               PROVE  \E w : IsWorst(w, T)
    OBVIOUS
  <2>1. PICK x \in T : IsFiniteSet(T \ {x}) /\ Cardinality(T \ {x}) = 0
    BY <1>1
  <2>2. T \ {x} = {}
    BY <2>1, FS_EmptySet
  <2> QED
    BY <2>2 DEF IsWorst
<1>3. \A n \in Nat : n \in S => n + 1 \in S
  <2> SUFFICES ASSUME NEW n \in Nat, n \in S, NEW T \in SUBSET Operations, IsFiniteSet(T),
                      Cardinality(T) = (n + 1) + 1
               PROVE  \E w : IsWorst(w, T)
    BY SMT
  <2>1. PICK x \in T : /\ IsFiniteSet(T \ {x}) /\ Cardinality(T \ {x}) = n + 1
                       /\ T \ {x} \in SUBSET Operations
    BY <1>1, SMT
  <2>2. PICK w : IsWorst(w, T \ {x})
    BY <2>1
  <2>3. CASE HighestFeeFirst(x, w)
    BY <2>2, <2>3 DEF IsWorst
  <2>4. CASE HighestFeeFirst(w, x)
    BY <2>2, <2>4, OperationsOrdered, SMT DEF IsWorst
  <2> QED
    BY <2>2, <2>3, <2>4, OperationsOrdered DEF IsWorst
<1>4. Nat \subseteq S
  <2> HIDE DEF S
  <2> QED
    BY <1>2, <1>3, Induction
<1>5. Cardinality(ops) \in Nat /\ Cardinality(ops) # 0
  BY FS_CardinalityType, FS_EmptySet
<1>6. Cardinality(ops) - 1 \in Nat /\ (Cardinality(ops) - 1) + 1 = Cardinality(ops)
  BY <1>5
<1> QED
  BY <1>4, <1>6

\* What Evicted removes is the worst operation.
LEMMA EvictedIsWorst ==
    ASSUME NEW ops \in SUBSET Operations, IsFiniteSet(ops), ops # {}
    PROVE  \E w : IsWorst(w, ops) /\ Evicted(ops) = {w}
<1>1. PICK x : IsWorst(x, ops)
  BY WorstExists
<1>2. PICK w : w = CHOOSE op \in ops : \A other \in ops \ {op} : HighestFeeFirst(other, op)
  OBVIOUS
<1>3. IsWorst(w, ops)
  BY <1>1, <1>2 DEF IsWorst
<1> QED
  BY <1>2, <1>3 DEF Evicted

\* Add keeps the pool within its limit; what leaves it is worse than all that stay.
LEMMA AddedToPool ==
    ASSUME NEW ops \in SUBSET Operations, IsFiniteSet(ops), Cardinality(ops) <= QueueLimit,
           NEW op \in Operations, NEW all, all = AddedTo(ops, op)
    PROVE  /\ all \subseteq ops \cup {op}
           /\ IsFiniteSet(all) /\ Cardinality(all) <= QueueLimit
           /\ \A gone \in ops \ all :
                /\ Cardinality(all) = QueueLimit
                /\ \A stays \in all : HighestFeeFirst(stays, gone)
<1> DEFINE both == ops \cup {op}
<1>1. both \in SUBSET Operations /\ both # {}
  OBVIOUS
<1>2. /\ IsFiniteSet(both) /\ Cardinality(both) \in Nat
      /\ Cardinality(both) <= Cardinality(ops) + 1 /\ Cardinality(ops) \in Nat
  <2>1. IsFiniteSet(both)
        /\ (Cardinality(both) = Cardinality(ops) \/ Cardinality(both) = Cardinality(ops) + 1)
    BY FS_AddElement
  <2>2. Cardinality(both) \in Nat /\ Cardinality(ops) \in Nat
    BY <2>1, FS_CardinalityType
  <2> HIDE DEF both
  <2> QED
    BY <2>1, <2>2
<1>3. QueueLimit \in Nat \ {0}
  BY QueueAssumption
<1>4. all = IF Cardinality(both) > QueueLimit THEN both \ Evicted(both) ELSE both
  BY DEF AddedTo
<1> HIDE DEF both
<1>5. CASE Cardinality(both) <= QueueLimit
  <2>1. all = both
    BY <1>2, <1>3, <1>4, <1>5, SMT
  <2> QED
    BY <1>2, <1>5, <2>1 DEF both
<1>6. CASE Cardinality(both) > QueueLimit
  <2>1. PICK w : IsWorst(w, both) /\ Evicted(both) = {w}
    BY <1>1, <1>2, EvictedIsWorst
  <2>2. all = both \ {w} /\ w \in both
    BY <1>4, <1>6, <2>1 DEF IsWorst
  <2>3. IsFiniteSet(all) /\ Cardinality(all) = Cardinality(both) - 1
    BY <1>2, <2>2, FS_RemoveElement
  <2>4. Cardinality(all) = QueueLimit
    BY <1>2, <1>3, <1>6, <2>3
  <2>5. \A gone \in ops \ all : gone = w
    BY <2>2 DEF both
  <2>6. \A stays \in all : HighestFeeFirst(stays, w)
    BY <2>1, <2>2 DEF IsWorst
  <2> QED
    BY <1>3, <2>2, <2>3, <2>4, <2>5, <2>6, SMT DEF both
<1> QED
  BY <1>2, <1>3, <1>5, <1>6, SMT

\* A pool has an order: the list that Sorted chooses has its operations, each once.
LEMMA SortedIsList ==
    ASSUME NEW ops \in SUBSET Operations, IsFiniteSet(ops)
    PROVE  /\ Sorted(ops) \in Seq(Operations)
           /\ \A i \in 1..Len(Sorted(ops)) : Sorted(ops)[i] \in ops
           /\ \A i, j \in 1..Len(Sorted(ops)) : Sorted(ops)[i] = Sorted(ops)[j] => i = j
<1> DEFINE InOrder(s) == \A i, j \in DOMAIN s : i < j => HighestFeeFirst(s[i], s[j])
           S == {n \in Nat : \A T \in SUBSET Operations :
                   IsFiniteSet(T) /\ Cardinality(T) = n => \E s \in [1..n -> T] : InOrder(s)}
<1>1. 0 \in S
  <2>1. \A T : <<>> \in [1..0 -> T] /\ InOrder(<<>>)
    OBVIOUS
  <2> HIDE DEF InOrder
  <2> QED
    BY <2>1
<1>2. \A n \in Nat : n \in S => n + 1 \in S
  <2> SUFFICES ASSUME NEW n \in Nat, n \in S, NEW T \in SUBSET Operations, IsFiniteSet(T),
                      Cardinality(T) = n + 1
               PROVE  \E s \in [1..(n+1) -> T] : InOrder(s)
    BY SMT
  <2>1. T # {}
    BY FS_EmptySet, SMT
  <2>2. PICK w : IsWorst(w, T)
    BY <2>1, WorstExists
  <2>3. w \in T /\ \A other \in T \ {w} : HighestFeeFirst(other, w)
    BY <2>2 DEF IsWorst
  <2>4. IsFiniteSet(T \ {w}) /\ Cardinality(T \ {w}) = (n + 1) - 1
    BY <2>3, FS_RemoveElement
  <2>5. PICK s \in [1..n -> T \ {w}] : InOrder(s)
    <3>1. T \ {w} \in SUBSET Operations /\ (n + 1) - 1 = n
      OBVIOUS
    <3> HIDE DEF InOrder
    <3> QED
      BY <2>4, <3>1
  <2>6. PICK r : r = [i \in 1..(n+1) |-> IF i = n + 1 THEN w ELSE s[i]]
    BY ZenonT(60)
  <2>7. /\ r \in [1..(n+1) -> T] /\ r[n+1] = w
        /\ \A i \in 1..n : r[i] = s[i] /\ r[i] \in T \ {w}
    BY <2>3, <2>6, SMT
  <2>8. InOrder(r)
    <3> SUFFICES ASSUME NEW i \in 1..(n+1), NEW j \in 1..(n+1), i < j
                 PROVE  HighestFeeFirst(r[i], r[j])
      BY <2>7
    <3>1. i \in 1..n
      BY SMT
    <3>2. CASE j = n + 1
      BY <2>3, <2>7, <3>1, <3>2
    <3>3. CASE j \in 1..n
      BY <2>5, <2>7, <3>1, <3>3
    <3> QED
      BY <3>2, <3>3, SMT
  <2> HIDE DEF InOrder
  <2> QED
    BY <2>7, <2>8
<1>3. Cardinality(ops) \in S
  <2>1. Cardinality(ops) \in Nat
    BY FS_CardinalityType
  <2> HIDE DEF S
  <2> QED
    BY <1>1, <1>2, <2>1, Induction
<1>4. \E s \in [1..Cardinality(ops) -> ops] : InOrder(s)
  <2> HIDE DEF InOrder
  <2> QED
    BY <1>3
<1>5. PICK s : s = Sorted(ops)
  OBVIOUS
<1>6. s \in [1..Cardinality(ops) -> ops] /\ InOrder(s)
  BY <1>4, <1>5 DEF Sorted
<1>7. Cardinality(ops) \in Nat
  BY FS_CardinalityType
<1>8. s \in Seq(Operations) /\ Len(s) = Cardinality(ops) /\ \A i \in 1..Len(s) : s[i] \in ops
  BY <1>6, <1>7, SMT
<1>9. ASSUME NEW i \in 1..Len(s), NEW j \in 1..Len(s), s[i] = s[j] PROVE i = j
  <2>1. ~HighestFeeFirst(s[i], s[j]) /\ ~HighestFeeFirst(s[j], s[i])
    BY <1>8, <1>9, OperationsOrdered
  <2>2. ~(i < j) /\ ~(j < i)
    BY <1>6, <1>8, <2>1
  <2> QED
    BY <1>7, <1>8, <2>2
<1> QED
  BY <1>5, <1>8, <1>9

-------------------------------------------------------------------------------
(***************************************************************************)
(* Sums.  SumFunctionOnSet takes the members of a set in the order in      *)
(* which CHOOSE finds them; for a finite set the order does not matter.    *)
(***************************************************************************)

\* The member of a set that the sum takes next.
First(s) == CHOOSE x \in s : TRUE

\* g sums up f over the sets of D, one member at a time.
Sums(g, f, D) ==
    g = [s \in D |-> IF s = {} THEN 0 ELSE f[First(s)] + g[s \ {First(s)}]]

\* g sums up f over S and all its subsets.
SumsUp(g, f, S) == Sums(g, f, SUBSET S)

\* SumFunctionOnSet takes such a function.
LEMMA SumIsIteration ==
    ASSUME NEW f, NEW S, NEW g, SumsUp(g, f, S)
    PROVE  \E h : SumsUp(h, f, S) /\ SumFunctionOnSet(f, S) = h[S]
<1> DEFINE h == CHOOSE u : u = [s \in SUBSET S |-> IF s = {} THEN 0
                                ELSE f[CHOOSE x \in s : TRUE] + u[s \ {CHOOSE x \in s : TRUE}]]
<1>1. SumsUp(h, f, S)
  BY DEF SumsUp, Sums, First
<1>2. SumFunctionOnSet(f, S) = h[S]
  BY DEF SumFunctionOnSet, FoldFunctionOnSet, MapThenFoldSet
<1> HIDE DEF h
<1> QED
  BY <1>1, <1>2

\* A set without its first member is smaller.
LEMMA FirstRemoved ==
    ASSUME NEW s, IsFiniteSet(s), s # {}
    PROVE  /\ First(s) \in s /\ IsFiniteSet(s \ {First(s)})
           /\ Cardinality(s) \in Nat \ {0} /\ Cardinality(s \ {First(s)}) = Cardinality(s) - 1
<1>1. First(s) \in s
  BY DEF First
<1>2. IsFiniteSet(s \ {First(s)}) /\ Cardinality(s \ {First(s)}) = Cardinality(s) - 1
  BY <1>1, FS_RemoveElement
<1>3. Cardinality(s) \in Nat /\ Cardinality(s) # 0
  BY FS_CardinalityType, FS_EmptySet
<1> QED
  BY <1>1, <1>2, <1>3

\* A finite set can be summed up.
LEMMA SumsExist ==
    ASSUME NEW f, NEW S, IsFiniteSet(S)
    PROVE  \E g : SumsUp(g, f, S)
<1> DEFINE Small(n) == {s \in SUBSET S : Cardinality(s) <= n}
           N == {n \in Nat : \E g : Sums(g, f, Small(n))}
<1>1. \A s \in SUBSET S : IsFiniteSet(s) /\ Cardinality(s) \in Nat
  BY FS_Subset, FS_CardinalityType
<1>2. 0 \in N
  <2>1. \A s \in Small(0) : s = {}
    BY <1>1, FS_EmptySet, SMT
  <2>2. PICK g : g = [s \in Small(0) |-> 0]
    OBVIOUS
  <2>3. Sums(g, f, Small(0))
    <3>1. [s \in Small(0) |-> IF s = {} THEN 0 ELSE f[First(s)] + g[s \ {First(s)}]] = g
      BY <2>1, <2>2
    <3> QED
      BY <3>1 DEF Sums
  <2> HIDE DEF Small
  <2> QED
    BY <2>3
<1>3. \A n \in Nat : n \in N => n + 1 \in N
  <2> SUFFICES ASSUME NEW n \in Nat, NEW g, Sums(g, f, Small(n))
               PROVE  \E h : Sums(h, f, Small(n + 1))
    <3> HIDE DEF Small
    <3> QED
      OBVIOUS
  <2>1. PICK h : h = [s \in Small(n + 1) |-> IF s = {} THEN 0 ELSE f[First(s)] + g[s \ {First(s)}]]
    OBVIOUS
  <2>2. \A s \in Small(n) : s \in Small(n + 1)
    BY <1>1
  <2>3. \A s \in Small(n + 1) : s # {} => s \ {First(s)} \in Small(n)
    <3> SUFFICES ASSUME NEW s \in Small(n + 1), s # {} PROVE s \ {First(s)} \in Small(n)
      OBVIOUS
    <3>1. s \in SUBSET S /\ Cardinality(s) <= n + 1 /\ IsFiniteSet(s)
      BY <1>1
    <3>2. Cardinality(s) \in Nat /\ Cardinality(s \ {First(s)}) = Cardinality(s) - 1
      BY <3>1, FirstRemoved
    <3> QED
      BY <3>1, <3>2
  <2> HIDE DEF Small
  <2>4. \A s \in Small(n) : h[s] = g[s]
    BY <2>1, <2>2 DEF Sums
  <2>5. h = [s \in Small(n + 1) |-> IF s = {} THEN 0 ELSE f[First(s)] + h[s \ {First(s)}]]
    BY <2>1, <2>3, <2>4
  <2> QED
    BY <2>5 DEF Sums
<1>4. Cardinality(S) \in N
  <2>1. Cardinality(S) \in Nat
    BY FS_CardinalityType
  <2> HIDE DEF N
  <2> QED
    BY <1>2, <1>3, <2>1, Induction
<1>5. Small(Cardinality(S)) = SUBSET S
  BY FS_Subset
<1> QED
  BY <1>4, <1>5 DEF SumsUp

\* The sum over t is a number, and any member may come first.
AnyFirst(g, f, t) == g[t] \in Nat /\ \A x \in t : g[t] = f[x] + g[t \ {x}]

\* In which order g sums up numbers is all the same.
LEMMA SumsOrder ==
    ASSUME NEW S, IsFiniteSet(S), NEW f, \A x \in S : f[x] \in Nat,
           NEW g, SumsUp(g, f, S), NEW s \in SUBSET S
    PROVE  AnyFirst(g, f, s)
<1> DEFINE N == {n \in Nat : \A t \in SUBSET S : Cardinality(t) <= n => AnyFirst(g, f, t)}
<1>1. \A t \in SUBSET S : IsFiniteSet(t) /\ Cardinality(t) \in Nat
  BY FS_Subset, FS_CardinalityType
<1>2. /\ g[{}] = 0
      /\ \A t \in SUBSET S : t # {} => g[t] = f[First(t)] + g[t \ {First(t)}]
  BY DEF SumsUp, Sums
<1>3. 0 \in N
  <2> SUFFICES ASSUME NEW t \in SUBSET S, Cardinality(t) <= 0 PROVE AnyFirst(g, f, t)
    OBVIOUS
  <2>1. t = {}
    BY <1>1, FS_EmptySet, SMT
  <2> QED
    BY <1>2, <2>1, SMT DEF AnyFirst
<1>4. \A n \in Nat : n \in N => n + 1 \in N
  <2> SUFFICES ASSUME NEW n \in Nat, n \in N, NEW t \in SUBSET S, Cardinality(t) <= n + 1
               PROVE  AnyFirst(g, f, t)
    BY SMT
  <2>0. CASE t = {}
    BY <1>2, <2>0, SMT DEF AnyFirst
  <2> SUFFICES ASSUME t # {} PROVE AnyFirst(g, f, t)
    BY <2>0
  <2>1. IsFiniteSet(t) /\ Cardinality(t) \in Nat
    BY <1>1
  <2>2. ASSUME NEW x \in t
        PROVE  /\ t \ {x} \in SUBSET S /\ AnyFirst(g, f, t \ {x}) /\ f[x] \in Nat
               /\ g[t \ {x}] \in Nat
    <3>1. IsFiniteSet(t \ {x}) /\ Cardinality(t \ {x}) = Cardinality(t) - 1
      BY <2>1, FS_RemoveElement
    <3>2. t \ {x} \in SUBSET S /\ Cardinality(t \ {x}) <= n
      BY <2>1, <3>1
    <3> QED
      BY <3>2 DEF AnyFirst
  <2>3. PICK a : a = First(t)
    OBVIOUS
  <2>4. a \in t /\ g[t] = f[a] + g[t \ {a}]
    BY <1>2, <2>1, <2>3, FirstRemoved
  <2>5. ASSUME NEW x \in t, x # a PROVE g[t] = f[x] + g[t \ {x}]
    <3>1. PICK r : r = (t \ {a}) \ {x} /\ r = (t \ {x}) \ {a}
      OBVIOUS
    <3>2. g[t \ {a}] = f[x] + g[r] /\ g[t \ {x}] = f[a] + g[r]
      <4>1. AnyFirst(g, f, t \ {a}) /\ AnyFirst(g, f, t \ {x}) /\ x \in t \ {a} /\ a \in t \ {x}
        BY <2>2, <2>4, <2>5
      <4> QED
        BY <3>1, <4>1 DEF AnyFirst
    <3>3. g[r] \in Nat
      <4>1. IsFiniteSet(r) /\ Cardinality(r) <= n /\ r \in SUBSET S
        <5>1. Cardinality(t \ {a}) = Cardinality(t) - 1
          BY <2>1, <2>4, FS_RemoveElement
        <5>2. IsFiniteSet(t \ {a}) /\ r \in SUBSET (t \ {a})
          BY <2>1, <3>1, FS_Subset
        <5>3. IsFiniteSet(r) /\ Cardinality(r) <= Cardinality(t \ {a}) /\ Cardinality(r) \in Nat
          BY <5>2, FS_Subset, FS_CardinalityType
        <5> QED
          BY <2>1, <5>1, <5>2, <5>3, SMT
      <4> QED
        BY <4>1 DEF AnyFirst
    <3> QED
      BY <2>2, <2>4, <3>2, <3>3, SMT
  <2>6. g[t] \in Nat
    <3>1. f[a] \in Nat /\ g[t \ {a}] \in Nat
      BY <2>2, <2>4
    <3> QED
      BY <2>4, <3>1, SMT
  <2> QED
    BY <2>4, <2>5, <2>6 DEF AnyFirst
<1>5. Cardinality(s) \in N
  <2>1. Cardinality(s) \in Nat
    BY <1>1
  <2> HIDE DEF N
  <2> QED
    BY <1>3, <1>4, <2>1, Induction
<1> QED
  BY <1>1, <1>5

\* The functions f and e are the same on s.
SameOn(f, e, s) == \A x \in s : f[x] = e[x]

\* So far as both go, two such functions are the same where f is.
LEMMA SumsSame ==
    ASSUME NEW S, IsFiniteSet(S), NEW T, S \in SUBSET T, NEW f, NEW e, SameOn(f, e, S),
           NEW g, SumsUp(g, f, S), NEW h, SumsUp(h, e, T)
    PROVE  g[S] = h[S]
<1> DEFINE N == {n \in Nat : \A t \in SUBSET S : Cardinality(t) = n => g[t] = h[t]}
<1>1. \A t \in SUBSET S : IsFiniteSet(t) /\ Cardinality(t) \in Nat
  BY FS_Subset, FS_CardinalityType
<1>2. /\ g[{}] = 0 /\ h[{}] = 0
      /\ \A t \in SUBSET S : t # {} => g[t] = f[First(t)] + g[t \ {First(t)}]
      /\ \A t \in SUBSET T : t # {} => h[t] = e[First(t)] + h[t \ {First(t)}]
  BY DEF SumsUp, Sums
<1>3. 0 \in N
  <2> SUFFICES ASSUME NEW t \in SUBSET S, Cardinality(t) = 0 PROVE g[t] = h[t]
    OBVIOUS
  <2> QED
    BY <1>1, <1>2, FS_EmptySet
<1>4. \A n \in Nat : n \in N => n + 1 \in N
  <2> SUFFICES ASSUME NEW n \in Nat, n \in N, NEW t \in SUBSET S, Cardinality(t) = n + 1
               PROVE  g[t] = h[t]
    BY SMT
  <2>1. IsFiniteSet(t) /\ t # {}
    BY <1>1, FS_EmptySet, SMT
  <2>2. PICK a, r : a = First(t) /\ r = t \ {a}
    OBVIOUS
  <2>3. a \in t /\ Cardinality(r) = (n + 1) - 1
    BY <2>1, <2>2, FirstRemoved
  <2>4. g[r] = h[r] /\ f[a] = e[a]
    BY <2>2, <2>3, SMT DEF SameOn
  <2>5. g[t] = f[a] + g[r] /\ h[t] = e[a] + h[r]
    BY <1>2, <2>1, <2>2
  <2> QED
    BY <2>4, <2>5
<1>5. Cardinality(S) \in N
  <2>1. Cardinality(S) \in Nat
    BY FS_CardinalityType
  <2> HIDE DEF N
  <2> QED
    BY <1>3, <1>4, <2>1, Induction
<1> QED
  BY <1>5

\* The sum over a finite set is a number, and it is what one member has and the sum
\* over the others.
LEMMA SumRemove ==
    ASSUME NEW S, IsFiniteSet(S), NEW f, \A x \in S : f[x] \in Nat
    PROVE  /\ SumFunctionOnSet(f, S) \in Nat
           /\ \A x \in S : SumFunctionOnSet(f, S) = f[x] + SumFunctionOnSet(f, S \ {x})
<1>1. PICK g : SumsUp(g, f, S) /\ SumFunctionOnSet(f, S) = g[S]
  BY SumsExist, SumIsIteration
<1>2. AnyFirst(g, f, S)
  BY <1>1, SumsOrder
<1>3. ASSUME NEW x \in S PROVE SumFunctionOnSet(f, S \ {x}) = g[S \ {x}]
  <2>1. PICK r : r = S \ {x} /\ IsFiniteSet(r)
    BY FS_Subset
  <2>2. PICK h : SumsUp(h, f, r) /\ SumFunctionOnSet(f, r) = h[r]
    BY <2>1, SumsExist, SumIsIteration
  <2>3. r \in SUBSET S /\ SameOn(f, f, r)
    BY <2>1 DEF SameOn
  <2>4. h[r] = g[r]
    BY <1>1, <2>1, <2>2, <2>3, SumsSame, SMT
  <2> QED
    BY <2>1, <2>2, <2>4
<1> QED
  BY <1>1, <1>2, <1>3 DEF AnyFirst

\* The sum is the same for functions that are.
LEMMA SumSame ==
    ASSUME NEW S, IsFiniteSet(S), NEW f, NEW e, \A x \in S : f[x] = e[x]
    PROVE  SumFunctionOnSet(f, S) = SumFunctionOnSet(e, S)
<1>1. PICK g : SumsUp(g, f, S) /\ SumFunctionOnSet(f, S) = g[S]
  BY SumsExist, SumIsIteration
<1>2. PICK h : SumsUp(h, e, S) /\ SumFunctionOnSet(e, S) = h[S]
  BY SumsExist, SumIsIteration
<1>3. S \in SUBSET S /\ SameOn(f, e, S)
  BY DEF SameOn
<1>4. g[S] = h[S]
  BY <1>1, <1>2, <1>3, SumsSame, SMT
<1> QED
  BY <1>1, <1>2, <1>4

\* What two of the summands have is at most the sum.
LEMMA SumOfTwo ==
    ASSUME NEW S, IsFiniteSet(S), NEW f, \A x \in S : f[x] \in Nat, NEW x \in S, NEW y \in S, x # y
    PROVE  /\ SumFunctionOnSet(f, (S \ {x}) \ {y}) \in Nat
           /\ SumFunctionOnSet(f, S) = f[x] + f[y] + SumFunctionOnSet(f, (S \ {x}) \ {y})
<1>1. PICK r : r = S \ {x} /\ IsFiniteSet(r)
  BY FS_Subset
<1>2. PICK q : q = r \ {y} /\ IsFiniteSet(q)
  BY <1>1, FS_Subset
<1>3. SumFunctionOnSet(f, S) = f[x] + SumFunctionOnSet(f, r)
  BY <1>1, SumRemove
<1>4. SumFunctionOnSet(f, r) = f[y] + SumFunctionOnSet(f, q)
  BY <1>1, <1>2, SumRemove
<1>5. SumFunctionOnSet(f, q) \in Nat
  BY <1>1, <1>2, SumRemove
<1> QED
  BY <1>1, <1>2, <1>3, <1>4, <1>5, SMT

\* The sum after two of the summands have changed.
LEMMA SumMoved ==
    ASSUME NEW S, IsFiniteSet(S), NEW f, \A z \in S : f[z] \in Nat,
           NEW e, \A z \in S : e[z] \in Nat, NEW x \in S, NEW y \in S, x # y,
           \A z \in S \ {x, y} : f[z] = e[z], NEW fee \in Nat, f[x] + f[y] = e[x] + e[y] + fee
    PROVE  SumFunctionOnSet(f, S) = SumFunctionOnSet(e, S) + fee
<1>1. PICK q : q = (S \ {x}) \ {y} /\ IsFiniteSet(q)
  BY FS_Subset
<1>2. SumFunctionOnSet(f, q) = SumFunctionOnSet(e, q)
  BY <1>1, SumSame
<1>3. /\ SumFunctionOnSet(f, q) \in Nat
      /\ SumFunctionOnSet(f, S) = f[x] + f[y] + SumFunctionOnSet(f, q)
      /\ SumFunctionOnSet(e, S) = e[x] + e[y] + SumFunctionOnSet(e, q)
  BY <1>1, SumOfTwo, SMT
<1> QED
  BY <1>2, <1>3
-------------------------------------------------------------------------------
(***************************************************************************)
(* The queue of one node.                                                  *)
(***************************************************************************)

\* A sequence, of whatever.
IsSequence(s) == \E S : s \in Seq(S)

\* f has the accounts after each of the chunks, from genesis on: all of them could
\* be processed.
History(f, chunks) ==
    /\ f[0] = Genesis
    /\ \A i \in 1..Len(chunks) : f[i] = ProcessChunk(f[i-1], chunks[i]) /\ f[i] # Nil

\* The pool is within its limit and valid, and the accounts are what the chunks made
\* of the first ones.
GoodQueue(q) ==
    /\ q = [set |-> q.set, chunks |-> q.chunks, accounts |-> q.accounts,
            oldChunks |-> q.oldChunks, failed |-> q.failed]
    /\ q.set \in SUBSET Operations /\ IsFiniteSet(q.set)
    /\ Cardinality(q.set) <= QueueLimit
    /\ \A op \in q.set : Validate(q.accounts, op)
    /\ IsSequence(q.oldChunks)
    /\ \E f : History(f, q.oldChunks) /\ q.accounts = f[Len(q.oldChunks)]

\* A queue is good at first.
LEMMA NewQueueGood == GoodQueue(NewOperationQueue(Genesis))
<1>1. PICK q : q = NewOperationQueue(Genesis)
  OBVIOUS
<1>2. /\ q = [set |-> q.set, chunks |-> q.chunks, accounts |-> q.accounts,
              oldChunks |-> q.oldChunks, failed |-> q.failed]
      /\ q.set = {} /\ q.oldChunks = <<>> /\ q.accounts = Genesis
  BY <1>1 DEF NewOperationQueue
<1>3. IsFiniteSet(q.set) /\ Cardinality(q.set) = 0 /\ QueueLimit \in Nat
  BY <1>2, FS_EmptySet, QueueAssumption
<1>4. IsSequence(q.oldChunks) /\ Len(q.oldChunks) = 0
  <2>1. <<>> \in Seq({})
    OBVIOUS
  <2> QED
    BY <1>2, <2>1 DEF IsSequence
<1>5. PICK f : f = [i \in {0} |-> Genesis]
  OBVIOUS
<1>6. History(f, q.oldChunks) /\ q.accounts = f[Len(q.oldChunks)]
  BY <1>2, <1>4, <1>5, SMT DEF History
<1> QED
  BY <1>1, <1>2, <1>3, <1>4, <1>6 DEF GoodQueue

\* Two queues with the same old chunks have the same accounts.
LEMMA HistoryDecides ==
    ASSUME NEW f, NEW g, NEW c, NEW d, NEW k \in Nat, k <= Len(c), k <= Len(d),
           Len(c) \in Nat, Len(d) \in Nat,
           History(f, c), History(g, d), \A i \in 1..k : c[i] = d[i]
    PROVE  f[k] = g[k]
<1> DEFINE S == {i \in Nat : i <= k => f[i] = g[i]}
<1>1. 0 \in S
  BY DEF History
<1>2. \A i \in Nat : i \in S => i + 1 \in S
  <2> SUFFICES ASSUME NEW i \in Nat, i \in S, i + 1 <= k PROVE f[i+1] = g[i+1]
    OBVIOUS
  <2>1. /\ i + 1 \in 1..k /\ i + 1 \in 1..Len(c) /\ i + 1 \in 1..Len(d)
        /\ (i + 1) - 1 = i /\ f[i] = g[i]
    OBVIOUS
  <2>2. f[i+1] = ProcessChunk(f[i], c[i+1]) /\ g[i+1] = ProcessChunk(g[i], d[i+1])
    BY <2>1 DEF History
  <2> QED
    BY <2>1, <2>2
<1>3. k \in S
  <2> HIDE DEF S
  <2> QED
    BY <1>1, <1>2, Induction
<1> QED
  BY <1>3

\* From q to r, nothing happens to pool, accounts and old chunks.
OnlyChunks(q, r) ==
    r = [set |-> q.set, chunks |-> r.chunks, accounts |-> q.accounts,
         oldChunks |-> q.oldChunks, failed |-> r.failed]

\* Only the chunks and a failure may change for a queue to stay good.
LEMMA ChunksGood ==
    ASSUME NEW q, GoodQueue(q), NEW r, OnlyChunks(q, r)
    PROVE  /\ GoodQueue(r)
           /\ r.set = q.set /\ r.accounts = q.accounts /\ r.oldChunks = q.oldChunks
<1>1. r.set = q.set /\ r.accounts = q.accounts /\ r.oldChunks = q.oldChunks
  BY DEF OnlyChunks
<1> QED
  BY <1>1 DEF GoodQueue, OnlyChunks

\* NewChunk does no more than that.
LEMMA NewChunkGood ==
    ASSUME NEW q, GoodQueue(q), NEW ops, NEW r, r = NewChunk(q, ops)
    PROVE  /\ GoodQueue(r)
           /\ r.set = q.set /\ r.accounts = q.accounts /\ r.oldChunks = q.oldChunks
<1>1. q = [set |-> q.set, chunks |-> q.chunks, accounts |-> q.accounts,
            oldChunks |-> q.oldChunks, failed |-> q.failed]
  BY DEF GoodQueue
<1> DEFINE chunk == ChunkOf(q.accounts, ops)
<1>2. r = IF Hashable(chunk) THEN [q EXCEPT !.chunks = @ \cup {chunk}]
          ELSE [q EXCEPT !.failed = TRUE]
  BY DEF NewChunk
<1> HIDE DEF chunk
<1>3. OnlyChunks(q, r)
  BY <1>1, <1>2 DEF OnlyChunks
<1> QED
  BY <1>3, ChunksGood

\* From the pool before to the pool ops, an operation left only for better ones.
KeepsBest(before, ops) ==
    \A gone \in before \ ops :
        /\ Cardinality(ops) = QueueLimit
        /\ \A op \in ops : HighestFeeFirst(op, gone)

\* Add keeps the pool valid and within its limit.
LEMMA AddGood ==
    ASSUME NEW q, GoodQueue(q), NEW ops \in Seq(Operations), NEW r, r = AddOperations(q, ops)
    PROVE  /\ GoodQueue(r) /\ KeepsBest(q.set, r.set)
           /\ r.accounts = q.accounts /\ r.oldChunks = q.oldChunks
<1> DEFINE new == {i \in 1..Len(ops) : Addable(q, ops[i])}
<1>1. r = IF new = {} THEN q ELSE Add(q, ops[Min(new)])
  BY DEF AddOperations
<1>2. CASE new = {}
  BY <1>1, <1>2 DEF KeepsBest
<1>3. CASE new # {}
  <2>0. new \in SUBSET Nat
    BY SMT
  <2>1. Min(new) \in new
    <3> HIDE DEF new
    <3> QED
      BY <1>3, <2>0, LeastIndex
  <2>2. PICK op \in Operations : op = ops[Min(new)] /\ Validate(q.accounts, op)
    <3>1. PICK i \in new : i = Min(new)
      BY <2>1
    <3>2. ops[i] \in Operations /\ Validate(q.accounts, ops[i])
      BY DEF Addable
    <3> QED
      BY <3>1, <3>2
  <2> HIDE DEF new
  <2>3. PICK all : all = AddedTo(q.set, op)
    OBVIOUS
  <2>4. r = [set |-> all, chunks |-> q.chunks, accounts |-> q.accounts,
             oldChunks |-> q.oldChunks, failed |-> q.failed]
    BY <1>1, <1>3, <2>2, <2>3 DEF GoodQueue, Add
  <2>5. /\ all \subseteq q.set \cup {op}
        /\ IsFiniteSet(all) /\ Cardinality(all) <= QueueLimit
        /\ KeepsBest(q.set, all)
    BY <2>3, AddedToPool, SMT DEF GoodQueue, KeepsBest
  <2>6. /\ r = [set |-> r.set, chunks |-> r.chunks, accounts |-> r.accounts,
                oldChunks |-> r.oldChunks, failed |-> r.failed]
        /\ r.set = all /\ r.accounts = q.accounts /\ r.oldChunks = q.oldChunks
    BY <2>4
  <2>7. \A o \in all : o \in Operations /\ Validate(q.accounts, o)
    BY <2>2, <2>5 DEF GoodQueue
  <2> QED
    BY <2>5, <2>6, <2>7 DEF GoodQueue
<1> QED
  BY <1>2, <1>3

\* So does a TransactionMessage.
LEMMA HandleGood ==
    ASSUME NEW q, GoodQueue(q), NEW m, m.Operations \in Seq(Operations),
           NEW r, r = HandleTransactionMessage(q, m)
    PROVE  /\ GoodQueue(r) /\ KeepsBest(q.set, r.set)
           /\ r.accounts = q.accounts /\ r.oldChunks = q.oldChunks
<1>1. PICK p : p = AddOperations(q, m.Operations)
  OBVIOUS
<1>2. /\ GoodQueue(p) /\ KeepsBest(q.set, p.set)
      /\ p.accounts = q.accounts /\ p.oldChunks = q.oldChunks
  BY <1>1, AddGood
<1>3. p = [set |-> p.set, chunks |-> p.chunks, accounts |-> p.accounts,
           oldChunks |-> p.oldChunks, failed |-> p.failed]
  BY <1>2 DEF GoodQueue
<1>4. PICK chunks : chunks = p.chunks \cup {c \in m.Chunks : ValidateChunk(p.accounts, c)}
  OBVIOUS
<1>5. r = [p EXCEPT !.chunks = chunks]
  BY <1>1, <1>3, <1>4 DEF HandleTransactionMessage, LearnChunks
<1>6. OnlyChunks(p, r)
  BY <1>3, <1>5 DEF OnlyChunks
<1>7. /\ GoodQueue(r)
      /\ r.set = p.set /\ r.accounts = p.accounts /\ r.oldChunks = p.oldChunks
  BY <1>2, <1>6, ChunksGood
<1> QED
  BY <1>2, <1>7

\* t is the sequence s with one more element.
Longer(s, c, t) ==
    /\ IsSequence(t) /\ Len(s) \in Nat /\ Len(t) = Len(s) + 1
    /\ t[Len(s) + 1] = c /\ \A i \in 1..Len(s) : t[i] = s[i]

\* That is what Append does.
LEMMA LongerSequence ==
    ASSUME NEW s, IsSequence(s), NEW c PROVE Longer(s, c, Append(s, c))
<1>1. PICK S : s \in Seq(S)
  BY DEF IsSequence
<1>2. PICK T : T = S \cup {c}
  OBVIOUS
<1>3. s \in Seq(T) /\ c \in T
  BY <1>1, <1>2
<1>4. Append(s, c) \in Seq(T)
  BY <1>3
<1> QED
  BY <1>3, <1>4 DEF IsSequence, Longer

\* Finalize fails, or it puts one chunk on the others, and the pool is valid again.
LEMMA FinalizeGood ==
    ASSUME NEW q, GoodQueue(q), NEW chunk, NEW r, r = Finalize(q, chunk)
    PROVE  /\ GoodQueue(r)
           /\ \/ r.set = q.set /\ r.accounts = q.accounts /\ r.oldChunks = q.oldChunks
              \/ r.oldChunks = Append(q.oldChunks, chunk)
<1>1. q = [set |-> q.set, chunks |-> q.chunks, accounts |-> q.accounts,
            oldChunks |-> q.oldChunks, failed |-> q.failed]
  BY DEF GoodQueue
<1>2. PICK after : after = ProcessChunk(q.accounts, chunk)
  OBVIOUS
<1>3. CASE after = Nil
  <2>1. r = [q EXCEPT !.failed = TRUE]
    BY <1>2, <1>3 DEF Finalize
  <2>2. OnlyChunks(q, r)
    BY <1>1, <2>1 DEF OnlyChunks
  <2> QED
    BY <2>2, ChunksGood
<1>4. CASE after # Nil
  <2>1. PICK old : old = Append(q.oldChunks, chunk)
    OBVIOUS
  <2>2. PICK pool : pool = {op \in q.set : Validate(after, op)}
    OBVIOUS
  <2>3. r = Revalidate([q EXCEPT !.accounts = after, !.chunks = {}, !.oldChunks = old])
    BY <1>1, <1>2, <1>4, <2>1 DEF Finalize
  <2>4. r = [set |-> pool, chunks |-> {}, accounts |-> after, oldChunks |-> old,
             failed |-> q.failed]
    BY <1>1, <2>2, <2>3, ZenonT(60) DEF Revalidate
  <2>5. /\ r = [set |-> r.set, chunks |-> r.chunks, accounts |-> r.accounts,
                oldChunks |-> r.oldChunks, failed |-> r.failed]
        /\ r.set = pool /\ r.accounts = after /\ r.oldChunks = old
    BY <2>4
  <2>6. pool \in SUBSET Operations /\ IsFiniteSet(pool) /\ Cardinality(pool) <= QueueLimit
    <3>1. pool \in SUBSET q.set
      BY <2>2
    <3>2. IsFiniteSet(pool) /\ Cardinality(pool) <= Cardinality(q.set)
      BY <3>1, FS_Subset DEF GoodQueue
    <3>3. Cardinality(pool) \in Nat /\ Cardinality(q.set) \in Nat /\ QueueLimit \in Nat
      BY <3>2, FS_CardinalityType, QueueAssumption DEF GoodQueue
    <3> QED
      BY <3>1, <3>2, <3>3, SMT DEF GoodQueue
  <2>7. /\ IsSequence(old) /\ Len(q.oldChunks) \in Nat /\ Len(old) = Len(q.oldChunks) + 1
        /\ old[Len(q.oldChunks) + 1] = chunk
        /\ \A i \in 1..Len(q.oldChunks) : old[i] = q.oldChunks[i]
    <3>1. IsSequence(q.oldChunks)
      BY DEF GoodQueue
    <3>2. Longer(q.oldChunks, chunk, old)
      BY <2>1, <3>1, LongerSequence
    <3> QED
      BY <3>2 DEF Longer
  <2>8. \E f : History(f, old) /\ after = f[Len(old)]
    <3>1. PICK f : History(f, q.oldChunks) /\ q.accounts = f[Len(q.oldChunks)]
      BY DEF GoodQueue
    <3>2. PICK g : g = [i \in 0..Len(old) |-> IF i = Len(old) THEN after ELSE f[i]]
      OBVIOUS
    <3>3. g[Len(old)] = after /\ \A i \in 0..Len(q.oldChunks) : g[i] = f[i]
      BY <2>7, <3>2, SMT
    <3>4. g[0] = Genesis
      BY <2>7, <3>1, <3>3, SMT DEF History
    <3>5. ASSUME NEW i \in 1..Len(old)
          PROVE  g[i] = ProcessChunk(g[i-1], old[i]) /\ g[i] # Nil
      <4>1. CASE i = Len(old)
        <5>1. i - 1 = Len(q.oldChunks) /\ i - 1 \in 0..Len(q.oldChunks)
          BY <2>7, <4>1
        <5>2. g[i-1] = q.accounts /\ old[i] = chunk /\ g[i] = after
          BY <2>7, <3>1, <3>3, <4>1, <5>1
        <5> QED
          BY <1>2, <1>4, <5>2
      <4>2. CASE i # Len(old)
        <5>1. i \in 1..Len(q.oldChunks) /\ i \in 0..Len(q.oldChunks) /\ i - 1 \in 0..Len(q.oldChunks)
          BY <2>7, <4>2
        <5> QED
          BY <2>7, <3>1, <3>3, <5>1 DEF History
      <4> QED
        BY <4>1, <4>2
    <3> QED
      BY <3>3, <3>4, <3>5 DEF History
  <2>9. \A op \in pool : Validate(after, op)
    BY <2>2
  <2>10. GoodQueue(r)
    BY <2>5, <2>6, <2>7, <2>8, <2>9 DEF GoodQueue
  <2> QED
    BY <2>1, <2>5, <2>10
<1> QED
  BY <1>3, <1>4

\* The queue of a node that has just replayed the chunks of s.
Fresh(accounts, s) ==
    [set |-> {}, chunks |-> {}, accounts |-> accounts, oldChunks |-> s, failed |-> FALSE]

\* FinalizeChunk on a fresh queue gives a fresh queue.
LEMMA FinalizeFresh ==
    ASSUME NEW accounts, NEW s, NEW chunk, NEW after,
           after = ProcessChunk(accounts, chunk), after # Nil
    PROVE  FinalizeChunk(Fresh(accounts, s), chunk) = Fresh(after, Append(s, chunk))
<1>1. PICK t : t = Append(s, chunk)
  OBVIOUS
<1>2. PICK none, no : none = {} /\ no = FALSE
  OBVIOUS
<1>3. PICK q : q = [Fresh(accounts, s) EXCEPT !.chunks = @ \cup {chunk}]
  OBVIOUS
<1>4. q = [set |-> none, chunks |-> {chunk}, accounts |-> accounts, oldChunks |-> s,
           failed |-> no]
  BY <1>2, <1>3 DEF Fresh
<1>5. FinalizeChunk(Fresh(accounts, s), chunk) = Finalize(q, chunk)
  BY <1>3 DEF FinalizeChunk
<1>6. PICK r : r = [q EXCEPT !.accounts = after, !.chunks = none, !.oldChunks = t]
  OBVIOUS
<1>7. r = [set |-> none, chunks |-> none, accounts |-> after, oldChunks |-> t,
           failed |-> no]
  BY <1>4, <1>6
<1>8. Finalize(q, chunk) = Revalidate(r)
  <2>1. q.accounts = accounts /\ q.oldChunks = s
    BY <1>4
  <2> QED
    BY <1>1, <1>2, <1>6, <2>1 DEF Finalize
<1>9. Revalidate(r) = r
  <2>1. {op \in r.set : Validate(r.accounts, op)} = none
    BY <1>2, <1>7
  <2>2. PICK u : u = [r EXCEPT !.set = none]
    OBVIOUS
  <2>3. u = [set |-> none, chunks |-> none, accounts |-> after, oldChunks |-> t,
             failed |-> no]
    BY <1>7, <2>2
  <2> QED
    BY <1>7, <2>1, <2>2, <2>3 DEF Revalidate
<1>10. Fresh(after, t) = r
  BY <1>2, <1>7 DEF Fresh
<1> QED
  BY <1>1, <1>5, <1>8, <1>9, <1>10

\* The first elements of a sequence, and one more.
LEMMA FirstOnes ==
    ASSUME NEW c, IsSequence(c), NEW i \in 1..Len(c)
    PROVE  Append([j \in 1..i-1 |-> c[j]], c[i]) = [j \in 1..i |-> c[j]]
<1>1. PICK S : c \in Seq(S)
  BY DEF IsSequence
<1>2. PICK s : s = [j \in 1..i-1 |-> c[j]]
  OBVIOUS
<1>3. i \in Nat /\ i - 1 \in Nat /\ Len(c) \in Nat /\ \A j \in 1..Len(c) : c[j] \in S
  BY <1>1
<1>4. s \in Seq(S) /\ Len(s) = i - 1
  BY <1>2, <1>3
<1>5. PICK t : t = Append(s, c[i])
  OBVIOUS
<1>6. t \in Seq(S) /\ Len(t) = i /\ \A j \in 1..i : t[j] = c[j]
  BY <1>2, <1>3, <1>4, <1>5
<1>7. t = [j \in 1..i |-> t[j]]
  BY <1>6
<1> QED
  BY <1>2, <1>5, <1>6, <1>7

\* A restart brings the accounts of the node back.
LEMMA ReplayedGood ==
    ASSUME NEW q, GoodQueue(q)
    PROVE  Replayed(q.oldChunks) = Fresh(q.accounts, q.oldChunks)
<1>1. PICK c : c = q.oldChunks
  OBVIOUS
<1>2. IsSequence(c)
  BY <1>1 DEF GoodQueue
<1>3. PICK f : History(f, c) /\ q.accounts = f[Len(c)]
  BY <1>1 DEF GoodQueue
<1>4. PICK S : c \in Seq(S)
  BY <1>2 DEF IsSequence
<1>5. Len(c) \in Nat
  BY <1>4
<1> DEFINE first(i) == [j \in 1..i |-> c[j]]
           Body(u, i) == IF i = 0 THEN NewOperationQueue(Genesis)
                         ELSE FinalizeChunk(u[i-1], c[i])
           w == [i \in 0..Len(c) |-> Fresh(f[i], first(i))]
           g == CHOOSE u : u = [i \in 0..Len(c) |-> IF i = 0 THEN NewOperationQueue(Genesis)
                                                    ELSE FinalizeChunk(u[i-1], c[i])]
<1>6. ASSUME NEW i \in 1..Len(c)
      PROVE  FinalizeChunk(Fresh(f[i-1], first(i-1)), c[i]) = Fresh(f[i], first(i))
  <2>1. f[i] = ProcessChunk(f[i-1], c[i]) /\ f[i] # Nil
    BY <1>3 DEF History
  <2>2. Append(first(i-1), c[i]) = first(i)
    BY <1>2, FirstOnes
  <2>3. PICK s : s = first(i-1)
    OBVIOUS
  <2>4. FinalizeChunk(Fresh(f[i-1], s), c[i]) = Fresh(f[i], Append(s, c[i]))
    BY <2>1, FinalizeFresh, SMT
  <2> QED
    BY <2>2, <2>3, <2>4
<1>7. NewOperationQueue(Genesis) = Fresh(f[0], first(0))
  <2>1. f[0] = Genesis
    BY <1>3 DEF History
  <2>2. first(0) = <<>>
    OBVIOUS
  <2> QED
    BY <2>1, <2>2 DEF Fresh, NewOperationQueue
<1> HIDE DEF first
<1>8. w = [i \in 0..Len(c) |-> Body(w, i)]
  <2> SUFFICES ASSUME NEW i \in 0..Len(c) PROVE Fresh(f[i], first(i)) = Body(w, i)
    OBVIOUS
  <2>1. CASE i = 0
    BY <1>7, <2>1
  <2>2. CASE i # 0
    <3>1. i \in 1..Len(c) /\ i - 1 \in 0..Len(c)
      BY <1>5, <2>2
    <3>2. w[i-1] = Fresh(f[i-1], first(i-1))
      BY <3>1
    <3> QED
      BY <1>6, <2>2, <3>1, <3>2
  <2> QED
    BY <2>1, <2>2
<1> HIDE DEF w
<1>9. g = [i \in 0..Len(c) |-> Body(g, i)]
  BY <1>8
<1> HIDE DEF g
<1> DEFINE T == {i \in Nat : i <= Len(c) => g[i] = Fresh(f[i], first(i))}
<1>10. 0 \in T
  BY <1>5, <1>7, <1>9
<1>11. \A i \in Nat : i \in T => i + 1 \in T
  <2> SUFFICES ASSUME NEW i \in Nat, i \in T, i + 1 <= Len(c)
               PROVE  g[i+1] = Fresh(f[i+1], first(i+1))
    OBVIOUS
  <2>1. /\ i + 1 \in 1..Len(c) /\ i + 1 \in 0..Len(c) /\ i + 1 # 0 /\ (i + 1) - 1 = i
        /\ g[i] = Fresh(f[i], first(i))
    BY <1>5
  <2>2. g[i+1] = FinalizeChunk(g[i], c[i+1])
    BY <1>9, <2>1
  <2> QED
    BY <1>6, <2>1, <2>2
<1>12. Len(c) \in T
  <2> HIDE DEF T
  <2> QED
    BY <1>5, <1>10, <1>11, Induction
<1>13. first(Len(c)) = c
  BY <1>4 DEF first
<1>14. Replayed(c) = g[Len(c)]
  BY DEF Replayed, g
<1> QED
  BY <1>1, <1>3, <1>5, <1>12, <1>13, <1>14

(***************************************************************************)
(* The inductive invariant of the ledger: every queue is good, and the     *)
(* chunks that a node has finalized are the first ones that were decided.  *)
(***************************************************************************)
Follows(q, d) ==
    /\ Len(q.oldChunks) <= Len(d)
    /\ \A i \in 1..Len(q.oldChunks) : q.oldChunks[i] = d[i]

LedgerInv ==
    /\ queue = [n \in Nodes |-> queue[n]]
    /\ IsSequence(decided)
    /\ restarts \in Nat
    /\ \A n \in Nodes : GoodQueue(queue[n]) /\ Follows(queue[n], decided)

\* While a node stays at a slot and runs, it keeps its best operations.
EvictsWorst ==
    \A n \in Nodes :
        \/ KeepsBest(queue[n].set, queue'[n].set)
        \/ restarts' # restarts
        \/ Slot(n)' # Slot(n)

\* A sequence has a length.
LEMMA LengthIsNat == ASSUME NEW s, IsSequence(s) PROVE Len(s) \in Nat
BY DEF IsSequence

\* More may be decided at any time.
LEMMA FollowsLonger ==
    ASSUME NEW q, GoodQueue(q), NEW d, IsSequence(d), Follows(q, d), NEW v
    PROVE  Follows(q, Append(d, v))
<1>1. PICK s : s = q.oldChunks
  OBVIOUS
<1>2. Longer(d, v, Append(d, v))
  BY LongerSequence
<1>3. Len(s) \in Nat /\ Len(d) \in Nat
  BY <1>1, LengthIsNat DEF GoodQueue
<1>4. PICK e : e = Append(d, v)
  OBVIOUS
<1>5. Len(e) = Len(d) + 1 /\ \A i \in 1..Len(d) : e[i] = d[i]
  BY <1>2, <1>4 DEF Longer
<1>6. Len(s) <= Len(d) /\ \A i \in 1..Len(s) : s[i] = d[i]
  BY <1>1 DEF Follows
<1>7. Len(s) <= Len(e) /\ \A i \in 1..Len(s) : s[i] = e[i]
  BY <1>3, <1>5, <1>6
<1> QED
  BY <1>1, <1>4, <1>7 DEF Follows

\* A step that changes one queue.
LEMMA OneQueue ==
    ASSUME LedgerInv, NEW n \in Nodes, NEW r, GoodQueue(r),
           queue' = [queue EXCEPT ![n] = r], restarts' \in Nat,
           IsSequence(decided'), Follows(r, decided'),
           decided' = decided \/ \E v : decided' = Append(decided, v)
    PROVE  /\ LedgerInv' /\ queue'[n] = r
           /\ \A k \in Nodes \ {n} : queue'[k] = queue[k]
<1>1. PICK d : d = decided'
  OBVIOUS
<1>2. /\ queue' = [k \in Nodes |-> queue'[k]] /\ queue'[n] = r
      /\ \A k \in Nodes \ {n} : queue'[k] = queue[k]
  BY DEF LedgerInv
<1>3. ASSUME NEW k \in Nodes PROVE GoodQueue(queue'[k]) /\ Follows(queue'[k], d)
  <2>1. CASE k = n
    BY <1>1, <1>2, <2>1
  <2>2. CASE k # n
    <3>1. GoodQueue(queue[k]) /\ Follows(queue[k], decided) /\ IsSequence(decided)
      BY DEF LedgerInv
    <3>2. Follows(queue[k], d)
      BY <1>1, <3>1, FollowsLonger
    <3> QED
      BY <1>2, <2>2, <3>1, <3>2
  <2> QED
    BY <2>1, <2>2
<1>4. LedgerInv'
  BY <1>1, <1>2, <1>3 DEF LedgerInv
<1> QED
  BY <1>2, <1>4

\* A step that changes one queue, which stays at its slot.
LEMMA SameSlot ==
    ASSUME LedgerInv, NEW n \in Nodes, NEW r, GoodQueue(r),
           queue' = [queue EXCEPT ![n] = r], decided' = decided, restarts' \in Nat,
           r.oldChunks = queue[n].oldChunks,
           restarts' # restarts \/ KeepsBest(queue[n].set, r.set)
    PROVE  LedgerInv' /\ EvictsWorst
<1>1. IsSequence(decided) /\ Follows(queue[n], decided)
  BY DEF LedgerInv
<1>2. IsSequence(decided') /\ Follows(r, decided')
  BY <1>1 DEF Follows
<1>3. /\ LedgerInv' /\ queue'[n] = r
      /\ \A k \in Nodes \ {n} : queue'[k] = queue[k]
  BY <1>2, OneQueue
<1>4. \A k \in Nodes \ {n} : KeepsBest(queue[k].set, queue'[k].set)
  BY <1>3 DEF KeepsBest
<1> QED
  BY <1>3, <1>4 DEF EvictsWorst

\* A step that leaves the queues alone.
LEMMA SameQueues ==
    ASSUME LedgerInv, UNCHANGED <<queue, decided, restarts>> PROVE LedgerInv' /\ EvictsWorst
<1>1. LedgerInv'
  BY DEF LedgerInv
<1> QED
  BY <1>1 DEF EvictsWorst, KeepsBest

\* Receive, for the messages of the ledger.
LEMMA ReceiveInv ==
    ASSUME LedgerInv, NEW n \in Nodes, NEW m, m.Operations \in Seq(Operations), Receive(n, m)
    PROVE  LedgerInv' /\ EvictsWorst
<1>1. PICK r : r = HandleTransactionMessage(queue[n], m)
  OBVIOUS
<1>2. queue' = [queue EXCEPT ![n] = r] /\ decided' = decided /\ restarts' \in Nat
  BY <1>1 DEF Receive, LedgerInv
<1>3. GoodQueue(queue[n])
  BY DEF LedgerInv
<1>4. GoodQueue(r) /\ KeepsBest(queue[n].set, r.set) /\ r.oldChunks = queue[n].oldChunks
  BY <1>1, <1>3, HandleGood
<1> QED
  BY <1>2, <1>4, SameSlot

\* An operation arrives.
LEMMA SubmitInv ==
    ASSUME LedgerInv, NEW n \in Nodes, NEW op \in Operations, Submit(n, op)
    PROVE  LedgerInv' /\ EvictsWorst
<1>1. PICK m : m = [Operations |-> <<op>>, Chunks |-> {}]
  OBVIOUS
<1>2. m.Operations \in Seq(Operations) /\ Receive(n, m)
  BY <1>1 DEF Submit
<1> QED
  BY <1>2, ReceiveInv

\* The pool of a peer, or one of its old chunks arrives.
LEMMA PeersInv ==
    ASSUME LedgerInv, NEW n \in Nodes, NEW k \in Nodes,
           ReceiveTransactions(n, k) \/ ReceiveHistory(n, k)
    PROVE  LedgerInv' /\ EvictsWorst
<1>1. CASE ReceiveTransactions(n, k)
  <2>1. PICK m : m = TransactionMessage(queue[k])
    OBVIOUS
  <2>2. Receive(n, m) /\ m.Operations = Sorted(queue[k].set)
    BY <1>1, <2>1 DEF ReceiveTransactions, TransactionMessage
  <2>3. queue[k].set \in SUBSET Operations /\ IsFiniteSet(queue[k].set)
    BY DEF LedgerInv, GoodQueue
  <2>4. m.Operations \in Seq(Operations)
    BY <2>2, <2>3, SortedIsList
  <2> QED
    BY <2>2, <2>4, ReceiveInv
<1>2. CASE ReceiveHistory(n, k)
  <2>1. PICK m : m = OldChunkMessage(queue[k], Slot(n))
    OBVIOUS
  <2>2. m.Operations \in Seq(Operations) /\ Receive(n, m)
    BY <1>2, <2>1 DEF ReceiveHistory, OldChunkMessage
  <2> QED
    BY <2>2, ReceiveInv
<1> QED
  BY <1>1, <1>2

\* A chunk is suggested, or values are combined.
LEMMA NewChunkInv ==
    ASSUME LedgerInv, NEW n \in Nodes, NEW list, Suggest(n) \/ CombineValues(n, list)
    PROVE  LedgerInv' /\ EvictsWorst
<1>1. PICK ops : /\ queue' = [queue EXCEPT ![n] = NewChunk(queue[n], ops)]
                 /\ decided' = decided /\ restarts' = restarts
  BY DEF Suggest, CombineValues, SuggestValue, Combine
<1>2. PICK r : r = NewChunk(queue[n], ops)
  OBVIOUS
<1>3. GoodQueue(queue[n]) /\ restarts' \in Nat
  BY <1>1 DEF LedgerInv
<1>4. GoodQueue(r) /\ r.set = queue[n].set /\ r.oldChunks = queue[n].oldChunks
  BY <1>2, <1>3, NewChunkGood
<1>5. KeepsBest(queue[n].set, r.set)
  BY <1>4 DEF KeepsBest
<1> QED
  BY <1>1, <1>2, <1>3, <1>4, <1>5, SameSlot

\* A value is finalized: it is decided already, or now.
LEMMA ExternalizeInv ==
    ASSUME LedgerInv, NEW n \in Nodes, NEW v, Externalize(n, v)
    PROVE  LedgerInv' /\ EvictsWorst
<1>1. PICK q, r : q = queue[n] /\ r = Finalize(q, v)
  OBVIOUS
<1>2. queue' = [queue EXCEPT ![n] = r] /\ restarts' \in Nat
  BY <1>1 DEF Externalize, LedgerInv
<1>3. GoodQueue(q) /\ Follows(q, decided) /\ IsSequence(decided)
  BY <1>1 DEF LedgerInv
<1>4. PICK s, d : s = q.oldChunks /\ d = decided'
  OBVIOUS
<1>5. IsSequence(s) /\ Len(s) \in Nat /\ Len(decided) \in Nat
  BY <1>3, <1>4, LengthIsNat DEF GoodQueue
<1>6. Len(s) <= Len(decided) /\ \A i \in 1..Len(s) : s[i] = decided[i]
  BY <1>3, <1>4 DEF Follows
<1>7. Slot(n) = Len(s) + 1
  BY <1>1, <1>4 DEF Slot, QueueSlot
<1>8. /\ IsSequence(d)
      /\ Follows(q, d)
      /\ Len(s) + 1 <= Len(d) /\ d[Len(s) + 1] = v
      /\ d = decided \/ \E w : d = Append(decided, w)
  <2>1. CASE Len(s) + 1 <= Len(decided)
    <3>1. v = decided[Len(s) + 1] /\ d = decided
      BY <1>4, <1>5, <1>7, <2>1 DEF Externalize, Decidable
    <3> QED
      BY <1>3, <2>1, <3>1
  <2>2. CASE ~(Len(s) + 1 <= Len(decided))
    <3>1. Len(s) = Len(decided) /\ d = Append(decided, v)
      BY <1>4, <1>5, <1>6, <1>7, <2>2 DEF Externalize
    <3>2. Longer(decided, v, d) /\ Follows(q, d)
      BY <1>3, <3>1, LongerSequence, FollowsLonger
    <3>3. IsSequence(d) /\ Len(d) = Len(decided) + 1 /\ d[Len(decided) + 1] = v
      BY <3>2 DEF Longer
    <3> QED
      BY <1>5, <3>1, <3>2, <3>3
  <2> QED
    BY <2>1, <2>2
<1>9. /\ GoodQueue(r)
      /\ \/ r.set = q.set /\ r.accounts = q.accounts /\ r.oldChunks = s
         \/ r.oldChunks = Append(s, v)
  BY <1>1, <1>3, <1>4, FinalizeGood
<1>10. CASE r.set = q.set /\ r.oldChunks = s
  <2>1. Follows(r, d) /\ KeepsBest(q.set, r.set)
    BY <1>4, <1>8, <1>10 DEF Follows, KeepsBest
  <2>2. /\ LedgerInv' /\ queue'[n] = r
        /\ \A k \in Nodes \ {n} : queue'[k] = queue[k]
    BY <1>2, <1>4, <1>8, <1>9, <2>1, OneQueue
  <2>3. \A k \in Nodes \ {n} : KeepsBest(queue[k].set, queue'[k].set)
    BY <2>2 DEF KeepsBest
  <2> QED
    BY <1>1, <2>1, <2>2, <2>3 DEF EvictsWorst
<1>11. CASE r.oldChunks = Append(s, v)
  <2>1. PICK t : t = r.oldChunks
    OBVIOUS
  <2>2. Len(t) = Len(s) + 1 /\ t[Len(s) + 1] = v /\ \A i \in 1..Len(s) : t[i] = s[i]
    <3>1. Longer(s, v, t)
      BY <1>5, <1>11, <2>1, LongerSequence
    <3> QED
      BY <3>1 DEF Longer
  <2>3. \A i \in 1..Len(s) : s[i] = d[i]
    BY <1>4, <1>8 DEF Follows
  <2>4. Len(t) <= Len(d) /\ \A i \in 1..Len(t) : t[i] = d[i]
    BY <1>5, <1>8, <2>2, <2>3
  <2>5. Follows(r, d)
    BY <2>1, <2>4 DEF Follows
  <2>6. /\ LedgerInv' /\ queue'[n] = r
        /\ \A k \in Nodes \ {n} : queue'[k] = queue[k]
    BY <1>2, <1>4, <1>8, <1>9, <2>5, OneQueue
  <2>7. \A k \in Nodes \ {n} : KeepsBest(queue[k].set, queue'[k].set)
    BY <2>6 DEF KeepsBest
  <2>8. Slot(n)' # Slot(n)
    BY <1>5, <1>7, <2>1, <2>2, <2>6 DEF Slot, QueueSlot
  <2> QED
    BY <2>6, <2>7, <2>8 DEF EvictsWorst
<1> QED
  BY <1>9, <1>10, <1>11

\* A node starts again with what its database has.
LEMMA RestartInv ==
    ASSUME LedgerInv, NEW n \in Nodes, Restart(n)
    PROVE  LedgerInv' /\ EvictsWorst
<1>1. PICK q, r : q = queue[n] /\ r = Fresh(q.accounts, q.oldChunks)
  OBVIOUS
<1>2. GoodQueue(q)
  BY <1>1 DEF LedgerInv
<1>3. queue' = [queue EXCEPT ![n] = r] /\ decided' = decided
  BY <1>1, <1>2, ReplayedGood DEF Restart
<1>4. restarts' # restarts /\ restarts' \in Nat
  BY DEF Restart, LedgerInv
<1>5. /\ r = [set |-> r.set, chunks |-> r.chunks, accounts |-> r.accounts,
              oldChunks |-> r.oldChunks, failed |-> r.failed]
      /\ r.set = {} /\ r.accounts = q.accounts /\ r.oldChunks = q.oldChunks
  BY <1>1 DEF Fresh
<1>6. IsFiniteSet(r.set) /\ Cardinality(r.set) <= QueueLimit
  BY <1>5, FS_EmptySet, QueueAssumption, SMT
<1>7. GoodQueue(r)
  BY <1>2, <1>5, <1>6 DEF GoodQueue
<1> QED
  BY <1>1, <1>3, <1>4, <1>5, <1>7, SameSlot

\* The invariant holds at first.
LEMMA LedgerInit == Init => LedgerInv
<1> SUFFICES ASSUME Init PROVE LedgerInv
  OBVIOUS
<1>1. PICK q : q = NewOperationQueue(Genesis)
  OBVIOUS
<1>2. queue = [n \in Nodes |-> q] /\ decided = <<>>
  BY <1>1 DEF Init
<1>3. GoodQueue(q)
  BY <1>1, NewQueueGood
<1>4. <<>> \in Seq({}) /\ Len(<<>>) = 0
  OBVIOUS
<1>5. q.oldChunks = <<>>
  BY <1>1 DEF NewOperationQueue
<1>6. IsSequence(decided) /\ Follows(q, decided) /\ restarts \in Nat
  BY <1>2, <1>4, <1>5 DEF IsSequence, Follows, Init
<1> QED
  BY <1>2, <1>3, <1>6 DEF LedgerInv

\* Every step keeps it, and evicts the worst operations only.
LEMMA LedgerStep == LedgerInv /\ [Next]_vars => LedgerInv' /\ EvictsWorst
<1> SUFFICES ASSUME LedgerInv, [Next]_vars PROVE LedgerInv' /\ EvictsWorst
  OBVIOUS
<1>1. CASE UNCHANGED vars
  BY <1>1, SameQueues DEF vars
<1>2. CASE Next
  <2>1. PICK n \in Nodes :
          \/ \E op \in Operations : Submit(n, op)
          \/ \E k \in Nodes \ {n} :
               \/ ReceiveTransactions(n, k)
               \/ ReceiveHistory(n, k)
               \/ ReceiveNomination(n, k)
          \/ Suggest(n)
          \/ \E list \in (SUBSET X[n]) \ {{}} : CombineValues(n, list)
          \/ \E v \in queue[n].chunks : Externalize(n, v)
          \/ Restart(n)
    BY <1>2 DEF Next
  <2>2. CASE \E op \in Operations : Submit(n, op)
    BY <2>2, SubmitInv
  <2>3. CASE \E k \in Nodes \ {n} : ReceiveTransactions(n, k) \/ ReceiveHistory(n, k)
    BY <2>3, PeersInv
  <2>4. CASE \E k \in Nodes \ {n} : ReceiveNomination(n, k)
    BY <2>4, SameQueues DEF ReceiveNomination
  <2>5. CASE Suggest(n) \/ \E list \in (SUBSET X[n]) \ {{}} : CombineValues(n, list)
    BY <2>5, NewChunkInv
  <2>6. CASE \E v \in queue[n].chunks : Externalize(n, v)
    BY <2>6, ExternalizeInv
  <2>7. CASE Restart(n)
    BY <2>7, RestartInv
  <2> QED
    BY <2>1, <2>2, <2>3, <2>4, <2>5, <2>6, <2>7, SMTT(30)
<1> QED
  BY <1>1, <1>2

\* Every queue is good at all times.
LEMMA LedgerInvariance == Spec => []LedgerInv
<1>1. LedgerInv /\ [Next]_vars => LedgerInv'
  BY LedgerStep
<1> QED
  BY <1>1, LedgerInit, PTL DEF Spec

\* Nodes at the same slot have the same accounts, for all nodes, quorum slices,
\* operations and limits: both have finalized the chunks decided on the slots
\* before, each by Finalize or by a replay after a restart, and ProcessChunk is a
\* function of the accounts.
THEOREM SameSlotSameAccounts == Spec => []LedgersAgree
<1>1. LedgerInv => LedgersAgree
  <2> SUFFICES ASSUME LedgerInv, NEW n \in Nodes, NEW m \in Nodes, Slot(n) = Slot(m)
               PROVE  queue[n].accounts = queue[m].accounts
    BY DEF LedgersAgree
  <2>1. PICK c, d : c = queue[n].oldChunks /\ d = queue[m].oldChunks
    OBVIOUS
  <2>2. Len(c) \in Nat /\ Len(d) \in Nat
    BY <2>1, LengthIsNat DEF LedgerInv, GoodQueue
  <2>3. Len(c) = Len(d)
    BY <2>1, <2>2 DEF Slot, QueueSlot
  <2>4. \A i \in 1..Len(c) : c[i] = d[i]
    BY <2>1, <2>3 DEF LedgerInv, Follows
  <2>5. PICK f : History(f, c) /\ queue[n].accounts = f[Len(c)]
    BY <2>1 DEF LedgerInv, GoodQueue
  <2>6. PICK g : History(g, d) /\ queue[m].accounts = g[Len(d)]
    BY <2>1 DEF LedgerInv, GoodQueue
  <2>7. PICK k \in Nat : k = Len(c)
    BY <2>2
  <2>8. k <= Len(c) /\ k <= Len(d) /\ \A i \in 1..k : c[i] = d[i]
    BY <2>2, <2>3, <2>4, <2>7
  <2>9. f[k] = g[k]
    BY <2>2, <2>5, <2>6, <2>8, HistoryDecides
  <2> QED
    BY <2>3, <2>5, <2>6, <2>7, <2>9
<1> QED
  BY <1>1, LedgerInvariance, PTL

\* The operations of a pool are valid for the accounts of the slot, for all nodes,
\* operations and limits: Add looks at them when they come and Revalidate after
\* every chunk.
THEOREM PoolStaysValid == Spec => []PoolValid
<1>1. LedgerInv => PoolValid
  BY DEF LedgerInv, GoodQueue, PoolValid
<1> QED
  BY <1>1, LedgerInvariance, PTL

\* A pool that is full loses its worst operation and no other, and is never over its
\* limit, for every order of fees and signatures.
THEOREM BestOperationsKept == Spec => OnlyWorstEvicted
<1>1. EvictsWorst =>
        \A n \in Nodes : restarts' = restarts /\ Slot(n)' = Slot(n) =>
          \A gone \in queue[n].set \ queue'[n].set :
             /\ Cardinality(queue'[n].set) = QueueLimit
             /\ \A op \in queue'[n].set : HighestFeeFirst(op, gone)
  BY DEF EvictsWorst, KeepsBest
<1>2. LedgerInv /\ [Next]_vars =>
        [\A n \in Nodes : restarts' = restarts /\ Slot(n)' = Slot(n) =>
          \A gone \in queue[n].set \ queue'[n].set :
             /\ Cardinality(queue'[n].set) = QueueLimit
             /\ \A op \in queue'[n].set : HighestFeeFirst(op, gone)]_vars
  BY <1>1, LedgerStep
<1> QED
  BY <1>2, LedgerInvariance, PTL DEF Spec, OnlyWorstEvicted

===============================================================================
