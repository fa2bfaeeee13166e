--------------------------- MODULE LedgerChunkProofs ---------------------------
(***************************************************************************)
(* What is in the chunks of a ledger, for any network and any limits.      *)
(*                                                                         *)
(* First what a list of operations does to the accounts, and that nodes    *)
(* make, send and finalize chunks of operations only (TypeInv), whatever   *)
(* the operations are.                                                     *)
(*                                                                         *)
(* Then, with what Ledger says of the operations as hypotheses: sequence   *)
(* numbers and money, where the accounts of a node go with the operations  *)
(* that it has applied, and the panics, to which no chunk leads because    *)
(* each of them could be processed somewhere (SaneInv).                    *)
(***************************************************************************)
EXTENDS LedgerProofs

\* Zenon is tried first: few steps need the theories of the SMT solver.
USE Zenon, SMT

-------------------------------------------------------------------------------
(***************************************************************************)
(* What a list of operations does to the accounts.                         *)
(***************************************************************************)
Maps == [Owners -> Accounts \cup {Nil}]

SequenceOf(m, o) == IF m[o] = Nil THEN 0 ELSE m[o].Sequence

\* What an operation is made of.
LEMMA OperationTyped ==
    ASSUME NEW t \in Operations
    PROVE  /\ t.Signer \in Owners /\ t.To \in Owners /\ t.Sequence \in 0..SequenceRange-1
           /\ t.Amount \in Nat /\ t.Fee \in Nat
           /\ BalanceRange \in Nat \ {0} /\ SequenceRange \in Nat \ {0}
BY AccountAssumption, SMT DEF SendOperations

\* After an operation that is valid, whatever it is, the accounts are accounts, and the
\* signer and the target have one.
LEMMA ProcessTyped ==
    ASSUME NEW m \in Maps, NEW t \in Operations, Validate(m, t)
    PROVE  /\ Process(m, t) \in Maps
           /\ Process(m, t)[t.Signer] \in Accounts /\ Process(m, t)[t.To] \in Accounts
           /\ \A o \in Owners \ {t.Signer, t.To} : Process(m, t)[o] = m[o]
           /\ t.Signer # t.To => /\ Process(m, t)[t.Signer].Sequence = t.Sequence
                                 /\ Process(m, t)[t.To].Sequence = SequenceOf(m, t.To)
<1>1. /\ t.Signer \in Owners /\ t.To \in Owners /\ t.Sequence \in 0..SequenceRange-1
      /\ t.Amount \in Nat /\ t.Fee \in Nat
      /\ BalanceRange \in Nat \ {0} /\ SequenceRange \in Nat \ {0}
  BY OperationTyped
<1> DEFINE target == IF m[t.To] = Nil THEN NewAccount ELSE m[t.To]
           paid == [Sequence |-> t.Sequence, Balance |-> (m[t.Signer].Balance - t.Amount - t.Fee) % BalanceRange]
           got == [Sequence |-> target.Sequence, Balance |-> (target.Balance + t.Amount) % BalanceRange]
<1>2. m[t.Signer] \in Accounts /\ m[t.To] \in Accounts \cup {Nil}
  BY <1>1 DEF Validate, Maps
<1>3. target \in Accounts /\ target.Sequence = SequenceOf(m, t.To)
  BY <1>1, <1>2, SMT DEF NewAccount, Accounts, SequenceOf
<1>4. paid \in Accounts
  <2>1. m[t.Signer].Balance - t.Amount - t.Fee \in Int
    BY <1>1, <1>2, SMT DEF Accounts
  <2>2. (m[t.Signer].Balance - t.Amount - t.Fee) % BalanceRange \in 0..BalanceRange-1
    BY <1>1, <2>1
  <2> QED
    BY <1>1, <2>2 DEF Accounts
<1>5. got \in Accounts /\ got.Sequence = target.Sequence
  <2> HIDE DEF target
  <2>1. target.Balance + t.Amount \in Int /\ target.Sequence \in 0..SequenceRange-1
    BY <1>1, <1>3 DEF Accounts
  <2>2. (target.Balance + t.Amount) % BalanceRange \in 0..BalanceRange-1
    BY <1>1, <2>1
  <2> QED
    BY <2>1, <2>2 DEF Accounts
<1>6. Process(m, t) = [m EXCEPT ![t.Signer] = paid, ![t.To] = got]
  BY DEF Process
<1>7. paid.Sequence = t.Sequence
  OBVIOUS
<1> HIDE DEF target, paid, got
<1> QED
  BY <1>1, <1>3, <1>4, <1>5, <1>6, <1>7 DEF Maps

\* step takes the members of A to the next ones, N times.
IsStep(step, N, A) == step \in [(1..N) \X A -> A]

\* u starts with a and goes on step by step.
GoesOn(u, a, step, N, A) ==
    u \in [0..N -> A] /\ u[0] = a /\ \A i \in 1..N : u[i] = step[<<i, u[i-1]>>]

\* A function on 0..N can be defined step by step.
LEMMA Recursion ==
    ASSUME NEW A, NEW a \in A, NEW N \in Nat, NEW step, IsStep(step, N, A)
    PROVE  \E u : GoesOn(u, a, step, N, A)
<1> DEFINE Upto(n, u) == u \in [0..n -> A] /\ u[0] = a /\ \A i \in 1..n : u[i] = step[<<i, u[i-1]>>]
           S == {n \in Nat : n <= N => \E u : Upto(n, u)}
<1>1. 0 \in S
  <2>1. PICK u : u = [i \in {0} |-> a]
    OBVIOUS
  <2>2. Upto(0, u)
    BY <2>1
  <2> HIDE DEF Upto
  <2> QED
    BY <2>2
<1>2. \A n \in Nat : n \in S => n + 1 \in S
  <2> SUFFICES ASSUME NEW n \in Nat, NEW u, Upto(n, u), n + 1 <= N
               PROVE  \E w : Upto(n + 1, w)
    <3> HIDE DEF Upto
    <3> QED
      OBVIOUS
  <2>1. PICK w : w = [i \in 0..n+1 |-> IF i = n + 1 THEN step[<<n + 1, u[n]>>] ELSE u[i]]
    OBVIOUS
  <2>2. w[n+1] = step[<<n + 1, u[n]>>] /\ \A i \in 0..n : w[i] = u[i] /\ u[i] \in A
    BY <2>1, SMT
  <2>3. step[<<n + 1, u[n]>>] \in A
    BY <2>2, SMT DEF IsStep
  <2>4. w \in [0..n+1 -> A]
    BY <2>1, <2>2, <2>3, SMT
  <2>5. \A i \in 1..n+1 : w[i] = step[<<i, w[i-1]>>]
    <3> SUFFICES ASSUME NEW i \in 1..n+1 PROVE w[i] = step[<<i, w[i-1]>>]
      OBVIOUS
    <3>1. i - 1 \in 0..n /\ w[i-1] = u[i-1]
      BY <2>2, SMT
    <3>2. CASE i = n + 1
      <4>1. i - 1 = n
        BY <3>2
      <4> QED
        BY <2>2, <3>1, <3>2, <4>1
    <3>3. CASE i # n + 1
      <4>1. i \in 1..n /\ i \in 0..n
        BY <3>3, SMT
      <4> QED
        BY <2>2, <3>1, <4>1
    <3> QED
      BY <3>2, <3>3
  <2>6. w[0] = a
    BY <2>2, SMT
  <2>7. Upto(n + 1, w)
    BY <2>4, <2>5, <2>6
  <2> HIDE DEF Upto
  <2> QED
    BY <2>7
<1>3. N \in S
  <2> HIDE DEF S
  <2> QED
    BY <1>1, <1>2, Induction
<1> QED
  BY <1>3 DEF GoesOn

\* u has what ProcessOperations has after each of the operations, Nil after the first
\* that is not valid.
Tries(u, m, ops) ==
    /\ u \in [0..Len(ops) -> Maps \cup {Nil}]
    /\ u[0] = m
    /\ \A i \in 1..Len(ops) :
         u[i] = IF u[i-1] # Nil /\ Validate(u[i-1], ops[i]) THEN Process(u[i-1], ops[i]) ELSE Nil

\* ProcessOperations tries one operation after the other.
LEMMA OperationsTried ==
    ASSUME NEW m \in Maps, NEW ops \in Seq(Operations)
    PROVE  \E u : Tries(u, m, ops) /\ ProcessOperations(m, ops) = u[Len(ops)]
<1> DEFINE N == Len(ops)
           A == Maps \cup {Nil}
           After(x, i) == IF x # Nil /\ Validate(x, ops[i]) THEN Process(x, ops[i]) ELSE Nil
           step == [p \in (1..N) \X A |-> After(p[2], p[1])]
           Body(u, i) == IF i = 0 THEN m ELSE After(u[i-1], i)
           g == CHOOSE u : u = [i \in 0..N |-> IF i = 0 THEN m
                                ELSE IF u[i-1] # Nil /\ Validate(u[i-1], ops[i])
                                     THEN Process(u[i-1], ops[i]) ELSE Nil]
<1>1. N \in Nat /\ \A i \in 1..N : ops[i] \in Operations
  OBVIOUS
<1>2. \A i \in 1..N, x \in A : After(x, i) \in A
  <2> SUFFICES ASSUME NEW i \in 1..N, NEW x \in A, x # Nil, Validate(x, ops[i])
               PROVE  Process(x, ops[i]) \in Maps
    BY DEF A
  <2> QED
    BY <1>1, ProcessTyped
<1> HIDE DEF A, After, N
<1>3. IsStep(step, N, A) /\ \A i \in 1..N, x \in A : step[<<i, x>>] = After(x, i)
  BY <1>2 DEF IsStep
<1>4. m \in A
  BY DEF A
<1> HIDE DEF step
<1>5. PICK u \in [0..N -> A] : u[0] = m /\ \A i \in 1..N : u[i] = step[<<i, u[i-1]>>]
  <2>1. PICK v : GoesOn(v, m, step, N, A)
    BY <1>1, <1>3, <1>4, Recursion
  <2> QED
    BY <2>1 DEF GoesOn
<1>6. ASSUME NEW i \in 0..N PROVE u[i] = Body(u, i)
  <2>1. CASE i = 0
    BY <1>5, <2>1
  <2>2. CASE i # 0
    <3>1. i \in 1..N /\ i - 1 \in 0..N
      BY <1>1, <2>2, SMT
    <3>2. u[i-1] \in A
      BY <3>1
    <3> QED
      BY <1>3, <1>5, <2>2, <3>1, <3>2
  <2> QED
    BY <2>1, <2>2
<1>7. u = [i \in 0..N |-> Body(u, i)]
  BY <1>5, <1>6
<1>8. g = [i \in 0..N |-> Body(g, i)]
  BY <1>7 DEF After
<1> HIDE DEF g
<1> DEFINE S == {i \in Nat : i <= N => g[i] \in A}
<1>9. \A i \in 0..N : g[i] = Body(g, i)
  BY <1>8
<1>10. 0 \in S
  BY <1>1, <1>4, <1>9, SMT
<1>11. \A i \in Nat : i \in S => i + 1 \in S
  <2> SUFFICES ASSUME NEW i \in Nat, i \in S, i + 1 <= N PROVE g[i+1] \in A
    BY SMT
  <2>1. i + 1 \in 1..N /\ i + 1 \in 0..N /\ i + 1 # 0 /\ (i + 1) - 1 = i /\ g[i] \in A
    BY <1>1
  <2>2. g[i+1] = After(g[i], i + 1)
    BY <1>9, <2>1
  <2> QED
    BY <1>2, <2>1, <2>2
<1>12. Nat \subseteq S
  <2> HIDE DEF S
  <2> QED
    BY <1>10, <1>11, Induction
<1>13. g \in [0..N -> A]
  <2>1. \A i \in 0..N : g[i] \in A
    BY <1>1, <1>12
  <2>2. g = [i \in 0..N |-> g[i]]
    BY <1>8, <1>9
  <2> QED
    BY <2>1, <2>2
<1>14. Tries(g, m, ops)
  <2>1. \A i \in 1..N : g[i] = After(g[i-1], i)
    <3> SUFFICES ASSUME NEW i \in 1..N PROVE g[i] = After(g[i-1], i)
      OBVIOUS
    <3>1. i \in 0..N /\ i # 0
      BY <1>1
    <3> QED
      BY <1>9, <3>1
  <2>2. g[0] = m
    BY <1>1, <1>9, SMT
  <2> QED
    BY <1>13, <2>1, <2>2 DEF Tries, After, A, N
<1>15. ProcessOperations(m, ops) = g[N]
  BY DEF ProcessOperations, g, N
<1> QED
  BY <1>14, <1>15 DEF N

\* u has the accounts after each of the operations, which are all valid in their turn.
Runs(u, m, ops) ==
    /\ u \in [0..Len(ops) -> Maps]
    /\ u[0] = m
    /\ \A i \in 1..Len(ops) : Validate(u[i-1], ops[i]) /\ u[i] = Process(u[i-1], ops[i])

\* Operations that do not fail are valid one after the other.
LEMMA OperationsRun ==
    ASSUME NEW m \in Maps, NEW ops \in Seq(Operations), ProcessOperations(m, ops) # Nil
    PROVE  \E u : Runs(u, m, ops) /\ ProcessOperations(m, ops) = u[Len(ops)]
<1>1. PICK u : Tries(u, m, ops) /\ ProcessOperations(m, ops) = u[Len(ops)]
  BY OperationsTried
<1>2. PICK N \in Nat : N = Len(ops)
  OBVIOUS
<1>3. /\ u \in [0..N -> Maps \cup {Nil}] /\ u[0] = m
      /\ \A i \in 1..N :
           u[i] = IF u[i-1] # Nil /\ Validate(u[i-1], ops[i]) THEN Process(u[i-1], ops[i]) ELSE Nil
  BY <1>1, <1>2 DEF Tries
<1> DEFINE S == {k \in Nat : k <= N => u[N-k] # Nil}
<1>4. 0 \in S
  BY <1>1, <1>2
<1>5. \A k \in Nat : k \in S => k + 1 \in S
  <2> SUFFICES ASSUME NEW k \in Nat, k \in S, k + 1 <= N PROVE u[N-(k+1)] # Nil
    OBVIOUS
  <2>1. N - k \in 1..N /\ u[N-k] # Nil /\ (N - k) - 1 = N - (k + 1)
    OBVIOUS
  <2>2. u[(N-k) - 1] # Nil
    BY <1>3, <2>1
  <2> QED
    BY <2>1, <2>2
<1>6. Nat \subseteq S
  <2> HIDE DEF S
  <2> QED
    BY <1>4, <1>5, Induction
<1>7. \A i \in 0..N : u[i] # Nil
  <2> SUFFICES ASSUME NEW i \in 0..N PROVE u[i] # Nil
    OBVIOUS
  <2>1. N - i \in Nat /\ N - i <= N /\ N - (N - i) = i
    OBVIOUS
  <2>2. N - i \in S
    BY <1>6, <2>1
  <2> QED
    BY <2>1, <2>2
<1>8. u \in [0..N -> Maps]
  BY <1>3, <1>7
<1>9. \A i \in 1..N : Validate(u[i-1], ops[i]) /\ u[i] = Process(u[i-1], ops[i])
  <2> SUFFICES ASSUME NEW i \in 1..N PROVE Validate(u[i-1], ops[i]) /\ u[i] = Process(u[i-1], ops[i])
    OBVIOUS
  <2>1. u[i] # Nil
    BY <1>7
  <2> QED
    BY <1>3, <2>1
<1> QED
  BY <1>1, <1>2, <1>3, <1>8, <1>9 DEF Runs

\* The first elements of a sequence.
LEMMA FirstTyped ==
    ASSUME NEW T, NEW s \in Seq(T), NEW k \in Nat, k <= Len(s)
    PROVE  [j \in 1..k |-> s[j]] \in Seq(T)
<1>1. \A j \in 1..k : s[j] \in T
  OBVIOUS
<1> QED
  BY <1>1

\* Append to a concatenation goes to its end.
ToTheEnd(s, r, x) == Append(s \o r, x) = s \o Append(r, x)

\* So it does.
LEMMA AppendLast ==
    ASSUME NEW s, IsSequence(s), NEW r, IsSequence(r), NEW x
    PROVE  ToTheEnd(s, r, x)
<1>0. PICK T : s \in Seq(T) /\ r \in Seq(T) /\ x \in T
  <2>1. PICK S, R : s \in Seq(S) /\ r \in Seq(R)
    BY DEF IsSequence
  <2>2. PICK T : T = S \cup R \cup {x}
    OBVIOUS
  <2>3. s \in Seq(T) /\ r \in Seq(T)
    BY <2>1, <2>2
  <2> QED
    BY <2>2, <2>3
<1>1. PICK a, b : a = Append(s \o r, x) /\ b = s \o Append(r, x)
  OBVIOUS
<1>2. PICK w : w = Append(r, x)
  OBVIOUS
<1>3. w \in Seq(T) /\ Len(w) = Len(r) + 1 /\ w[Len(r) + 1] = x /\ \A i \in 1..Len(r) : w[i] = r[i]
  BY <1>0, <1>2
<1>4. PICK q : q = s \o r
  OBVIOUS
<1>5. q \in Seq(T) /\ Len(q) = Len(s) + Len(r)
  BY <1>0, <1>4
<1>6. a \in Seq(T) /\ Len(a) = Len(q) + 1 /\ a[Len(q) + 1] = x /\ \A i \in 1..Len(q) : a[i] = q[i]
  BY <1>0, <1>1, <1>4, <1>5
<1>7. b \in Seq(T) /\ Len(b) = Len(s) + Len(w)
  BY <1>0, <1>1, <1>2, <1>3
<1>8. ASSUME NEW i \in 1..Len(a) PROVE a[i] = b[i]
  <2>1. CASE i \in 1..Len(s)
    <3>1. b[i] = s[i] /\ q[i] = s[i] /\ i \in 1..Len(q)
      BY <1>0, <1>1, <1>2, <1>3, <1>4, <1>5, <2>1
    <3> QED
      BY <1>0, <1>6, <3>1
  <2>2. CASE i \in Len(s)+1..Len(q)
    <3>1. b[i] = w[i - Len(s)] /\ q[i] = r[i - Len(s)] /\ i \in 1..Len(q)
      BY <1>0, <1>1, <1>2, <1>3, <1>4, <1>5, <2>2
    <3>2. i - Len(s) \in 1..Len(r)
      BY <1>0, <1>5, <2>2
    <3> QED
      BY <1>0, <1>3, <1>6, <3>1, <3>2
  <2>3. CASE i = Len(q) + 1
    <3>1. i - Len(s) = Len(r) + 1
      BY <1>0, <1>5, <2>3
    <3>2. b[i] = w[i - Len(s)]
      BY <1>0, <1>1, <1>2, <1>3, <1>5, <2>3
    <3> QED
      BY <1>0, <1>3, <1>6, <2>3, <3>1, <3>2
  <2> QED
    BY <1>0, <1>5, <1>6, <2>1, <2>2, <2>3
<1>9. Len(a) = Len(b)
  BY <1>0, <1>3, <1>5, <1>6, <1>7
<1>10. a = b
  BY <1>0, <1>6, <1>7, <1>8, <1>9
<1> QED
  BY <1>1, <1>10 DEF ToTheEnd

\* Accounts, and the operations that made them.
Pairs == Maps \X Seq(Operations)

\* G has what is left of its pairs after one more valid operation.
Closed(G) ==
    \A p \in G, t \in Operations :
        Validate(p[1], t) => <<Process(p[1], t), Append(p[2], t)>> \in G

\* Then it has what is left after a list of them.
LEMMA ListKeeps ==
    ASSUME NEW G \in SUBSET Pairs, Closed(G), NEW m, NEW s, <<m, s>> \in G,
           NEW ops \in Seq(Operations), ProcessOperations(m, ops) # Nil
    PROVE  <<ProcessOperations(m, ops), s \o ops>> \in G
<1>1. m \in Maps /\ s \in Seq(Operations)
  BY DEF Pairs
<1>2. PICK u : Runs(u, m, ops) /\ ProcessOperations(m, ops) = u[Len(ops)]
  BY <1>1, OperationsRun
<1>3. PICK N \in Nat : N = Len(ops)
  OBVIOUS
<1>4. /\ u[0] = m
      /\ \A i \in 1..N : Validate(u[i-1], ops[i]) /\ u[i] = Process(u[i-1], ops[i])
  BY <1>2, <1>3 DEF Runs
<1> DEFINE first(i) == [j \in 1..i |-> ops[j]]
           S == {i \in Nat : i <= N => <<u[i], s \o first(i)>> \in G}
<1>5. 0 \in S
  <2>1. first(0) = <<>>
    OBVIOUS
  <2>2. s \o <<>> = s
    BY <1>1
  <2> QED
    BY <1>4, <2>1, <2>2
<1> HIDE DEF first
<1>6. \A i \in Nat : i \in S => i + 1 \in S
  <2> SUFFICES ASSUME NEW i \in Nat, i + 1 <= N, <<u[i], s \o first(i)>> \in G
               PROVE  <<u[i+1], s \o first(i+1)>> \in G
    OBVIOUS
  <2>1. i + 1 \in 1..N /\ (i + 1) - 1 = i /\ ops[i+1] \in Operations
    BY <1>3
  <2>2. Validate(u[i], ops[i+1]) /\ u[i+1] = Process(u[i], ops[i+1])
    BY <1>4, <2>1
  <2>3. PICK r : r = s \o first(i)
    OBVIOUS
  <2>4. <<u[i+1], Append(r, ops[i+1])>> \in G
    <3>1. PICK p \in G : p = <<u[i], r>>
      BY <2>3
    <3>2. p[1] = u[i] /\ p[2] = r
      BY <3>1
    <3>3. <<Process(p[1], ops[i+1]), Append(p[2], ops[i+1])>> \in G
      BY <2>1, <2>2, <3>2 DEF Closed
    <3> QED
      BY <2>2, <3>2, <3>3
  <2>5. Append(r, ops[i+1]) = s \o first(i+1)
    <3>1. IsSequence(ops)
      BY DEF IsSequence
    <3>2. Append(first(i), ops[i+1]) = first(i+1)
      <4>1. \A k \in 1..Len(ops) : Append([j \in 1..k-1 |-> ops[j]], ops[k]) = [j \in 1..k |-> ops[j]]
        BY <3>1, FirstOnes
      <4> QED
        BY <1>3, <2>1, <4>1 DEF first
    <3>3. PICK a : a = first(i)
      OBVIOUS
    <3>4. a \in Seq(Operations)
      <4>1. i <= Len(ops)
        BY <1>3
      <4> QED
        BY <3>3, <4>1, FirstTyped DEF first
    <3>5. IsSequence(s) /\ IsSequence(a)
      BY <1>1, <3>4 DEF IsSequence
    <3>6. Append(s \o a, ops[i+1]) = s \o Append(a, ops[i+1])
      <4>1. PICK x \in Operations : x = ops[i+1]
        BY <2>1
      <4>2. ToTheEnd(s, a, x)
        BY <3>5, AppendLast
      <4> QED
        BY <4>1, <4>2 DEF ToTheEnd
    <3> QED
      BY <2>3, <3>2, <3>3, <3>6
  <2> QED
    BY <2>4, <2>5
<1>7. N \in S
  <2> HIDE DEF S
  <2> QED
    BY <1>5, <1>6, Induction
<1>8. first(N) = ops
  BY <1>3 DEF first
<1>9. <<u[N], s \o first(N)>> \in G
  BY <1>7
<1> QED
  BY <1>2, <1>3, <1>8, <1>9

\* The finalized chunks of a queue are chunks.
OldTyped(q) == \A i \in 1..Len(q.oldChunks) : IsChunk(q.oldChunks[i])

\* v has the operations of the chunks up to each of them.
Collects(v, c) ==
    /\ v \in [0..Len(c) -> Seq(Operations)]
    /\ v[0] = <<>>
    /\ \A i \in 1..Len(c) : v[i] = v[i-1] \o c[i].Operations

\* So does Applied.
LEMMA AppliedCollects ==
    ASSUME NEW n, IsSequence(queue[n].oldChunks), OldTyped(queue[n])
    PROVE  \E v : Collects(v, queue[n].oldChunks) /\ Applied(n) = v[Len(queue[n].oldChunks)]
<1>1. PICK c : c = queue[n].oldChunks
  OBVIOUS
<1> DEFINE A == Seq(Operations)
           N == Len(c)
           More(x, i) == x \o c[i].Operations
           step == [p \in (1..N) \X A |-> More(p[2], p[1])]
           Body(u, i) == IF i = 0 THEN <<>> ELSE More(u[i-1], i)
           g == CHOOSE u : u = [i \in 0..N |-> IF i = 0 THEN <<>> ELSE u[i-1] \o c[i].Operations]
<1>2. N \in Nat
  BY <1>1, LengthIsNat
<1>3. \A i \in 1..N, x \in A : More(x, i) \in A
  BY <1>1 DEF OldTyped, IsChunk
<1>4. <<>> \in A
  OBVIOUS
<1> HIDE DEF A, More, N
<1>5. IsStep(step, N, A) /\ \A i \in 1..N, x \in A : step[<<i, x>>] = More(x, i)
  BY <1>3 DEF IsStep
<1> HIDE DEF step
<1>6. PICK u \in [0..N -> A] : u[0] = <<>> /\ \A i \in 1..N : u[i] = step[<<i, u[i-1]>>]
  <2>1. PICK v : GoesOn(v, <<>>, step, N, A)
    BY <1>2, <1>4, <1>5, Recursion
  <2> QED
    BY <2>1 DEF GoesOn
<1>7. ASSUME NEW i \in 0..N PROVE u[i] = Body(u, i)
  <2>1. CASE i = 0
    BY <1>6, <2>1
  <2>2. CASE i # 0
    <3>1. i \in 1..N /\ i - 1 \in 0..N
      BY <1>2, <2>2, SMT
    <3>2. u[i-1] \in A
      BY <3>1
    <3> QED
      BY <1>5, <1>6, <2>2, <3>1, <3>2
  <2> QED
    BY <2>1, <2>2
<1>8. u = [i \in 0..N |-> Body(u, i)]
  BY <1>6, <1>7
<1>9. g = [i \in 0..N |-> Body(g, i)]
  BY <1>8 DEF More
<1> HIDE DEF g
<1> DEFINE S == {i \in Nat : i <= N => g[i] \in A}
<1>10. \A i \in 0..N : g[i] = Body(g, i)
  BY <1>9
<1>11. 0 \in S
  BY <1>2, <1>4, <1>10, SMT
<1>12. \A i \in Nat : i \in S => i + 1 \in S
  <2> SUFFICES ASSUME NEW i \in Nat, i \in S, i + 1 <= N PROVE g[i+1] \in A
    BY SMT
  <2>1. i + 1 \in 1..N /\ i + 1 \in 0..N /\ i + 1 # 0 /\ (i + 1) - 1 = i /\ g[i] \in A
    BY <1>2
  <2>2. g[i+1] = More(g[i], i + 1)
    BY <1>10, <2>1
  <2> QED
    BY <1>3, <2>1, <2>2
<1>13. Nat \subseteq S
  <2> HIDE DEF S
  <2> QED
    BY <1>11, <1>12, Induction
<1>14. g \in [0..N -> A]
  <2>1. \A i \in 0..N : g[i] \in A
    BY <1>2, <1>13
  <2>2. g = [i \in 0..N |-> g[i]]
    BY <1>9, <1>10
  <2> QED
    BY <2>1, <2>2
<1>15. Collects(g, c)
  <2>1. \A i \in 1..N : g[i] = More(g[i-1], i)
    <3> SUFFICES ASSUME NEW i \in 1..N PROVE g[i] = More(g[i-1], i)
      OBVIOUS
    <3>1. i \in 0..N /\ i # 0
      BY <1>2
    <3> QED
      BY <1>10, <3>1
  <2>2. g[0] = <<>>
    <3>1. 0 \in 0..N
      BY <1>2
    <3> QED
      BY <1>10, <3>1
  <2> QED
    BY <1>14, <2>1, <2>2 DEF Collects, More, A, N
<1>16. Applied(n) = g[N]
  BY <1>1 DEF Applied, g, N
<1> QED
  BY <1>1, <1>15, <1>16 DEF N

\* A chunk that can be processed.
LEMMA ChunkProcessed ==
    ASSUME NEW m, NEW c, ProcessChunk(m, c) # Nil
    PROVE  /\ ProcessChunk(m, c) = ProcessOperations(m, c.Operations)
           /\ \A o \in DOMAIN c.State : ProcessChunk(m, c)[o] = c.State[o]
BY DEF ProcessChunk

\* The accounts of a node and the operations that it has applied are in every set that
\* is closed and has the first accounts.
LEMMA AccountsIn ==
    ASSUME NEW G \in SUBSET Pairs, Closed(G), <<Genesis, <<>>>> \in G,
           NEW n, GoodQueue(queue[n]), OldTyped(queue[n])
    PROVE  <<queue[n].accounts, Applied(n)>> \in G
<1>1. PICK c : c = queue[n].oldChunks
  OBVIOUS
<1>2. IsSequence(c) /\ Len(c) \in Nat
  BY <1>1, LengthIsNat DEF GoodQueue
<1>3. PICK N \in Nat : N = Len(c)
  BY <1>2
<1>4. PICK v : Collects(v, c) /\ Applied(n) = v[N]
  BY <1>1, <1>2, <1>3, AppliedCollects
<1>5. PICK f : History(f, c) /\ queue[n].accounts = f[N]
  BY <1>1, <1>3 DEF GoodQueue
<1>6. v[0] = <<>> /\ \A i \in 1..N : v[i] = v[i-1] \o c[i].Operations
  BY <1>3, <1>4 DEF Collects
<1>7. f[0] = Genesis /\ \A i \in 1..N : f[i] = ProcessChunk(f[i-1], c[i]) /\ f[i] # Nil
  BY <1>3, <1>5 DEF History
<1> DEFINE S == {i \in Nat : i <= N => <<f[i], v[i]>> \in G}
<1>8. 0 \in S
  BY <1>6, <1>7
<1>9. \A i \in Nat : i \in S => i + 1 \in S
  <2> SUFFICES ASSUME NEW i \in Nat, i + 1 <= N, <<f[i], v[i]>> \in G
               PROVE  <<f[i+1], v[i+1]>> \in G
    OBVIOUS
  <2>1. i + 1 \in 1..N /\ (i + 1) - 1 = i
    OBVIOUS
  <2>2. PICK ops : ops = c[i+1].Operations /\ ops \in Seq(Operations)
    BY <1>1, <1>3, <2>1 DEF OldTyped, IsChunk
  <2>3. f[i+1] = ProcessChunk(f[i], c[i+1]) /\ f[i+1] # Nil /\ v[i+1] = v[i] \o ops
    BY <1>6, <1>7, <2>1, <2>2
  <2>4. f[i+1] = ProcessOperations(f[i], ops)
    BY <2>2, <2>3, ChunkProcessed
  <2>5. <<ProcessOperations(f[i], ops), v[i] \o ops>> \in G
    BY <2>2, <2>3, <2>4, ListKeeps
  <2> QED
    BY <2>3, <2>4, <2>5
<1>10. N \in S
  <2> HIDE DEF S
  <2> QED
    BY <1>8, <1>9, Induction
<1> QED
  BY <1>4, <1>5, <1>10

\* The first accounts.
LEMMA GenesisTyped == Genesis \in Maps /\ <<Genesis, <<>>>> \in Pairs
<1>1. SequenceRange \in Nat \ {0} /\ \A o \in Owners : Funds[o] \in 0..BalanceRange-1
  BY AccountAssumption, LedgerAssumption
<1>2. \A o \in Owners : [Sequence |-> 0, Balance |-> Funds[o]] \in Accounts
  BY <1>1 DEF Accounts
<1>3. Genesis \in Maps
  BY <1>2 DEF Genesis, Maps
<1>4. <<>> \in Seq(Operations)
  OBVIOUS
<1> QED
  BY <1>3, <1>4 DEF Pairs

\* So a queue has accounts.
LEMMA AccountsTyped ==
    ASSUME NEW n, GoodQueue(queue[n]), OldTyped(queue[n])
    PROVE  queue[n].accounts \in Maps /\ Applied(n) \in Seq(Operations)
<1>1. PICK G : G = Pairs
  OBVIOUS
<1>2. Closed(G)
  <2> SUFFICES ASSUME NEW p \in Pairs, NEW t \in Operations, Validate(p[1], t)
               PROVE  <<Process(p[1], t), Append(p[2], t)>> \in Pairs
    BY <1>1 DEF Closed
  <2>1. p[1] \in Maps /\ p[2] \in Seq(Operations)
    BY DEF Pairs
  <2>2. Process(p[1], t) \in Maps /\ Append(p[2], t) \in Seq(Operations)
    BY <2>1, ProcessTyped, SMT
  <2> QED
    BY <2>2 DEF Pairs
<1>3. <<queue[n].accounts, Applied(n)>> \in G
  BY <1>1, <1>2, GenesisTyped, AccountsIn
<1> QED
  BY <1>1, <1>3 DEF Pairs

-------------------------------------------------------------------------------
(***************************************************************************)
(* Sequence numbers and money.                                             *)
(***************************************************************************)

\* Where the operations of an owner are, and those of them that come first.
SignedIn(s, o) == {i \in 1..Len(s) : s[i].Signer = o}

UpTo(S, i) == {j \in S : j <= i}

\* The operations of the owner are in the order of their sequence numbers, and the
\* account has the last one.
Ordered(m, s, o) ==
    /\ SequenceOf(m, o) = Cardinality(SignedIn(s, o))
    /\ \A i \in SignedIn(s, o) : s[i].Sequence = Cardinality(UpTo(SignedIn(s, o), i))

\* One more operation comes last.
LEMMA OrderedLonger ==
    ASSUME ToOthers, Counted, NEW m \in Maps, NEW s \in Seq(Operations), NEW t \in Operations,
           Validate(m, t), NEW o \in Owners, Ordered(m, s, o)
    PROVE  Ordered(Process(m, t), Append(s, t), o)
<1>1. PICK r : r = Append(s, t)
  OBVIOUS
<1>2. PICK N \in Nat : N = Len(s)
  OBVIOUS
<1>3. Len(r) = N + 1 /\ r[N+1] = t /\ \A i \in 1..N : r[i] = s[i]
  BY <1>1, <1>2
<1>4. PICK A : A = SignedIn(s, o)
  OBVIOUS
<1>5. A \in SUBSET (1..N) /\ IsFiniteSet(A) /\ Cardinality(A) \in Nat
  <2>1. A \in SUBSET (1..N)
    BY <1>2, <1>4 DEF SignedIn
  <2>2. IsFiniteSet(1..N)
    BY FS_Interval
  <2> QED
    BY <2>1, <2>2, FS_Subset, FS_CardinalityType
<1>6. /\ t.Signer \in Owners /\ t.To \in Owners /\ t.Signer # t.To /\ t.Sequence # 0
      /\ t.Sequence \in 0..SequenceRange-1 /\ SequenceRange \in Nat \ {0}
  BY OperationTyped DEF ToOthers, Counted
<1>7. PICK after : after = Process(m, t)
  OBVIOUS
<1>8. /\ after[t.Signer] \in Accounts /\ after[t.To] \in Accounts
      /\ \A p \in Owners \ {t.Signer, t.To} : after[p] = m[p]
      /\ after[t.Signer].Sequence = t.Sequence
      /\ after[t.To].Sequence = SequenceOf(m, t.To)
  BY <1>6, <1>7, ProcessTyped
<1>9. CASE o = t.Signer
  <2>1. SignedIn(r, o) = A \cup {N + 1}
    BY <1>2, <1>3, <1>4, <1>9, SMT DEF SignedIn
  <2>2. Cardinality(A \cup {N + 1}) = Cardinality(A) + 1
    <3>1. N + 1 \notin A
      BY <1>5
    <3> QED
      BY <1>5, <3>1, FS_AddElement
  <2>3. t.Sequence = Cardinality(A) + 1
    <3>1. m[o] # Nil /\ (m[o].Sequence + 1) % SequenceRange = t.Sequence
      BY <1>9 DEF Validate
    <3>2. m[o].Sequence \in 0..SequenceRange-1 /\ m[o].Sequence = Cardinality(A)
      BY <1>4, <3>1 DEF Maps, Accounts, Ordered, SequenceOf
    <3>3. CASE m[o].Sequence = SequenceRange - 1
      <4>1. (m[o].Sequence + 1) % SequenceRange = 0
        BY <1>6, <3>3
      <4> QED
        BY <1>6, <3>1, <4>1
    <3>4. CASE m[o].Sequence < SequenceRange - 1
      <4>1. PICK x : x = m[o].Sequence + 1
        OBVIOUS
      <4>2. x \in 0..SequenceRange-1
        BY <1>6, <3>2, <3>4, <4>1
      <4>3. x % SequenceRange = x
        BY <1>6, <4>2, WithinRange
      <4> QED
        BY <3>1, <3>2, <4>1, <4>3
    <3> QED
      BY <1>6, <3>2, <3>3, <3>4
  <2>4. SequenceOf(after, o) = t.Sequence
    BY <1>8, <1>9, AccountAssumption DEF SequenceOf
  <2>5. ASSUME NEW i \in A \cup {N + 1}
        PROVE  r[i].Sequence = Cardinality(UpTo(A \cup {N + 1}, i))
    <3>1. CASE i = N + 1
      <4>1. UpTo(A \cup {N + 1}, i) = A \cup {N + 1}
        <5>1. \A j \in A \cup {N + 1} : j <= i
          BY <1>5, <3>1
        <5> QED
          BY <5>1 DEF UpTo
      <4> QED
        BY <1>3, <2>2, <2>3, <3>1, <4>1
    <3>2. CASE i \in A
      <4>1. i \in 1..N
        BY <1>5, <3>2
      <4>2. UpTo(A \cup {N + 1}, i) = UpTo(A, i)
        BY <4>1, SMT DEF UpTo
      <4>3. r[i] = s[i]
        BY <1>3, <4>1
      <4>4. s[i].Sequence = Cardinality(UpTo(A, i))
        BY <1>4, <3>2 DEF Ordered
      <4> QED
        BY <4>2, <4>3, <4>4
    <3> QED
      BY <3>1, <3>2
  <2> QED
    BY <1>1, <1>7, <2>1, <2>2, <2>3, <2>4, <2>5 DEF Ordered
<1>10. CASE o # t.Signer
  <2>1. SignedIn(r, o) = A
    BY <1>2, <1>3, <1>4, <1>10, SMT DEF SignedIn
  <2>2. SequenceOf(after, o) = SequenceOf(m, o)
    <3>1. CASE o = t.To
      BY <1>8, <3>1, AccountAssumption DEF SequenceOf
    <3>2. CASE o # t.To
      BY <1>8, <1>10, <3>2 DEF SequenceOf
    <3> QED
      BY <3>1, <3>2
  <2>3. \A i \in A : r[i] = s[i]
    BY <1>3, <1>5
  <2> QED
    BY <1>1, <1>4, <1>7, <2>1, <2>2, <2>3 DEF Ordered
<1> QED
  BY <1>9, <1>10

\* What each owner has, and all of them together.
Purse(m) == [o \in Owners |-> BalanceOf(m, o)]

Total(m) == SumFunction(Purse(m))

\* The fees of operations.
FeesOf(s) == [i \in 1..Len(s) |-> s[i].Fee]

\* No more money than there was.
Solvent(m) == m \in Maps /\ Total(m) <= Money

\* The sum over a function.
LEMMA SumWhole ==
    ASSUME NEW S, NEW f, DOMAIN f = S PROVE SumFunction(f) = SumFunctionOnSet(f, S)
BY DEF SumFunction

\* The money is a number.
LEMMA MoneyTyped == Money \in Nat
<1>1. PICK g : g = Funds
  OBVIOUS
<1>2. DOMAIN g = Owners /\ \A o \in Owners : g[o] \in Nat
  BY <1>1, LedgerAssumption, AccountAssumption, SMT
<1>3. SumFunctionOnSet(g, Owners) \in Nat
  BY <1>2, LedgerAssumption, SumRemove
<1> QED
  BY <1>1, <1>2, <1>3, SumWhole DEF Money

\* Balances are numbers.
LEMMA PurseTyped ==
    ASSUME NEW m \in Maps
    PROVE  /\ \A o \in Owners : Purse(m)[o] = BalanceOf(m, o) /\ Purse(m)[o] \in Nat
           /\ Total(m) = SumFunctionOnSet(Purse(m), Owners) /\ Total(m) \in Nat
           /\ IsFiniteSet(Owners)
<1>1. ASSUME NEW o \in Owners PROVE Purse(m)[o] = BalanceOf(m, o) /\ Purse(m)[o] \in Nat
  <2>1. m[o] \in Accounts \cup {Nil}
    BY DEF Maps
  <2>2. BalanceOf(m, o) \in Nat
    BY <2>1, AccountAssumption, SMT DEF Accounts, BalanceOf
  <2> QED
    BY <2>2 DEF Purse
<1>2. DOMAIN Purse(m) = Owners
  BY DEF Purse
<1>3. Total(m) = SumFunctionOnSet(Purse(m), Owners)
  BY <1>2, SumWhole DEF Total
<1>4. IsFiniteSet(Owners)
  BY LedgerAssumption
<1>5. SumFunctionOnSet(Purse(m), Owners) \in Nat
  BY <1>1, <1>4, SumRemove
<1> QED
  BY <1>1, <1>3, <1>4, <1>5

\* A valid operation is a transfer then, which nothing in Process wraps.
LEMMA SolventTransfer ==
    ASSUME ToOthers, CostsFit, MoneyFits, NEW m, Solvent(m), NEW t \in Operations, Validate(m, t)
    PROVE  Transfer(m, t) /\ Cost(t) = t.Amount + t.Fee
<1>1. /\ t.Signer \in Owners /\ t.To \in Owners /\ t.Signer # t.To
      /\ t.Amount \in Nat /\ t.Fee \in Nat /\ BalanceRange \in Nat \ {0}
      /\ t.Amount + t.Fee < BalanceRange
  BY OperationTyped DEF ToOthers, CostsFit
<1>2. Cost(t) = t.Amount + t.Fee
  <2>1. t.Amount + t.Fee \in 0..BalanceRange-1
    BY <1>1
  <2> QED
    BY <1>1, <2>1, WithinRange DEF Cost
<1>3. m \in Maps /\ Total(m) <= Money /\ Money < BalanceRange
  BY DEF Solvent, MoneyFits
<1>4. PICK f : f = Purse(m)
  OBVIOUS
<1>5. /\ \A o \in Owners : f[o] = BalanceOf(m, o) /\ f[o] \in Nat
      /\ Total(m) = SumFunctionOnSet(f, Owners) /\ IsFiniteSet(Owners)
  BY <1>3, <1>4, PurseTyped
<1>6. PICK rest \in Nat : SumFunctionOnSet(f, Owners) = f[t.Signer] + f[t.To] + rest
  <2>1. PICK x \in Owners, y \in Owners : x = t.Signer /\ y = t.To /\ x # y
    BY <1>1
  <2>2. /\ SumFunctionOnSet(f, (Owners \ {x}) \ {y}) \in Nat
        /\ SumFunctionOnSet(f, Owners) = f[x] + f[y] + SumFunctionOnSet(f, (Owners \ {x}) \ {y})
    BY <1>5, <2>1, SumOfTwo, SMT
  <2> QED
    BY <2>1, <2>2
<1>7. f[t.Signer] >= t.Amount + t.Fee
  <2>1. m[t.Signer] # Nil /\ Cost(t) <= m[t.Signer].Balance
    BY DEF Validate
  <2> QED
    BY <1>1, <1>2, <1>5, <2>1 DEF BalanceOf
<1>8. /\ f[t.Signer] \in Nat /\ f[t.To] \in Nat /\ BalanceOf(m, t.To) = f[t.To]
      /\ f[t.Signer] + f[t.To] + rest <= Money
  BY <1>1, <1>3, <1>5, <1>6
<1>9. Money \in Nat
  BY MoneyTyped
<1>10. BalanceOf(m, t.To) + t.Amount < BalanceRange
  BY <1>1, <1>3, <1>7, <1>8, <1>9
<1> QED
  BY <1>1, <1>2, <1>10 DEF Transfer

\* It takes its fee from the money, and no more.
LEMMA FeeTaken ==
    ASSUME ToOthers, CostsFit, MoneyFits, NEW m, Solvent(m), NEW t \in Operations, Validate(m, t)
    PROVE  /\ Process(m, t) \in Maps /\ Total(m) = Total(Process(m, t)) + t.Fee
           /\ Solvent(Process(m, t))
<1>1. m \in Maps /\ Transfer(m, t)
  BY SolventTransfer DEF Solvent
<1>2. PICK after : after = Process(m, t)
  OBVIOUS
<1>3. /\ after \in Maps
      /\ BalanceOf(after, t.Signer) + BalanceOf(after, t.To) + t.Fee
           = BalanceOf(m, t.Signer) + BalanceOf(m, t.To)
      /\ \A o \in Owners \ {t.Signer, t.To} : after[o] = m[o]
  BY <1>1, <1>2, TransferConserves DEF Maps
<1>4. PICK f, e : f = Purse(m) /\ e = Purse(after)
  OBVIOUS
<1>5. /\ \A o \in Owners : f[o] = BalanceOf(m, o) /\ f[o] \in Nat
      /\ Total(m) = SumFunctionOnSet(f, Owners) /\ IsFiniteSet(Owners) /\ Total(m) \in Nat
  BY <1>1, <1>4, PurseTyped
<1>6. /\ \A o \in Owners : e[o] = BalanceOf(after, o) /\ e[o] \in Nat
      /\ Total(after) = SumFunctionOnSet(e, Owners) /\ Total(after) \in Nat
  BY <1>3, <1>4, PurseTyped
<1>7. t.Signer \in Owners /\ t.To \in Owners /\ t.Signer # t.To /\ t.Fee \in Nat
  BY OperationTyped DEF ToOthers
<1>8. \A o \in Owners \ {t.Signer, t.To} : f[o] = e[o]
  BY <1>3, <1>5, <1>6, SMT DEF BalanceOf
<1>9. f[t.Signer] + f[t.To] = e[t.Signer] + e[t.To] + t.Fee
  BY <1>3, <1>5, <1>6, <1>7
<1>10. SumFunctionOnSet(f, Owners) = SumFunctionOnSet(e, Owners) + t.Fee
  BY <1>5, <1>6, <1>7, <1>8, <1>9, SumMoved, SMT
<1>11. Total(m) = Total(after) + t.Fee
  BY <1>5, <1>6, <1>10
<1>12. Solvent(after)
  <2>1. Money \in Nat
    BY MoneyTyped
  <2> QED
    BY <1>3, <1>5, <1>6, <1>7, <1>11, <2>1, SMT DEF Solvent
<1> QED
  BY <1>2, <1>3, <1>11, <1>12

\* The fees of one more operation.
LEMMA FeesLonger ==
    ASSUME NEW s \in Seq(Operations), NEW t \in Operations
    PROVE  /\ SumFunction(FeesOf(s)) \in Nat
           /\ SumFunction(FeesOf(Append(s, t))) = SumFunction(FeesOf(s)) + t.Fee
<1>1. PICK r : r = Append(s, t)
  OBVIOUS
<1>2. PICK N \in Nat : N = Len(s)
  OBVIOUS
<1>3. Len(r) = N + 1 /\ r[N+1] = t /\ \A i \in 1..N : r[i] = s[i] /\ s[i] \in Operations
  BY <1>1, <1>2
<1>4. PICK f, e : f = FeesOf(r) /\ e = FeesOf(s)
  OBVIOUS
<1>5. DOMAIN f = 1..N+1 /\ DOMAIN e = 1..N
  BY <1>2, <1>3, <1>4 DEF FeesOf
<1>6. t.Fee \in Nat /\ \A i \in 1..N : s[i].Fee \in Nat
  BY <1>3, OperationTyped
<1>7. f[N+1] = t.Fee /\ \A i \in 1..N : f[i] = s[i].Fee /\ e[i] = s[i].Fee
  BY <1>2, <1>3, <1>4, SMT DEF FeesOf
<1>8. PICK S, T : S = 1..N+1 /\ T = 1..N
  OBVIOUS
<1>9. IsFiniteSet(S) /\ IsFiniteSet(T) /\ S \ {N + 1} = T /\ N + 1 \in S
  <2>1. IsFiniteSet(1..N+1) /\ IsFiniteSet(1..N)
    BY FS_Interval
  <2>2. (1..N+1) \ {N + 1} = 1..N /\ N + 1 \in 1..N+1
    OBVIOUS
  <2> QED
    BY <1>8, <2>1, <2>2
<1>10. \A i \in S : f[i] \in Nat
  BY <1>6, <1>7, <1>8
<1>11. \A i \in T : f[i] = e[i] /\ e[i] \in Nat
  BY <1>6, <1>7, <1>8
<1>12. SumFunctionOnSet(f, S) = f[N+1] + SumFunctionOnSet(f, T)
  BY <1>9, <1>10, SumRemove
<1>13. SumFunctionOnSet(f, T) = SumFunctionOnSet(e, T)
  BY <1>9, <1>11, SumSame
<1>14. SumFunctionOnSet(e, T) \in Nat
  BY <1>9, <1>11, SumRemove
<1>15. SumFunction(f) = SumFunctionOnSet(f, S) /\ SumFunction(e) = SumFunctionOnSet(e, T)
  BY <1>5, <1>8, SumWhole
<1> QED
  BY <1>1, <1>4, <1>6, <1>7, <1>12, <1>13, <1>14, <1>15

\* At first nothing is applied.
LEMMA FirstOrder ==
    ASSUME NEW o \in Owners PROVE Ordered(Genesis, <<>>, o)
<1>1. SignedIn(<<>>, o) = {}
  BY DEF SignedIn
<1>2. SequenceOf(Genesis, o) = 0
  BY DEF SequenceOf, Genesis
<1>3. Cardinality({}) = 0
  BY FS_EmptySet
<1> QED
  BY <1>1, <1>2, <1>3 DEF Ordered

\* The money is there, and no fee is paid.
LEMMA FirstMoney == Solvent(Genesis) /\ Total(Genesis) + SumFunction(FeesOf(<<>>)) = Money
<1>1. \A o \in Owners : Funds[o] \in Nat /\ BalanceOf(Genesis, o) = Funds[o]
  <2> SUFFICES ASSUME NEW o \in Owners PROVE Funds[o] \in Nat /\ BalanceOf(Genesis, o) = Funds[o]
    OBVIOUS
  <2>1. Funds[o] \in 0..BalanceRange-1 /\ SequenceRange \in Nat \ {0} /\ BalanceRange \in Nat
    BY LedgerAssumption, AccountAssumption
  <2>2. [Sequence |-> 0, Balance |-> Funds[o]] \in Accounts
    BY <2>1 DEF Accounts
  <2>3. CASE Funds[o] = 0
    BY <2>1, <2>3 DEF BalanceOf, Genesis
  <2>4. CASE Funds[o] # 0
    <3>1. Genesis[o] = [Sequence |-> 0, Balance |-> Funds[o]] /\ Genesis[o] # Nil
      BY <2>2, <2>4, AccountAssumption DEF Genesis
    <3> QED
      BY <2>1, <3>1 DEF BalanceOf
  <2> QED
    BY <2>3, <2>4
<1>2. PICK f : f = Purse(Genesis)
  OBVIOUS
<1>3. f = Funds
  BY <1>1, <1>2, LedgerAssumption DEF Purse
<1>4. Total(Genesis) = Money
  BY <1>2, <1>3 DEF Total, Money
<1>5. PICK e : e = FeesOf(<<>>)
  OBVIOUS
<1>6. DOMAIN e = {} /\ \A x \in {} : e[x] \in Nat
  BY <1>5 DEF FeesOf
<1>7. SumFunction(e) = SumFunctionOnSet(e, {})
  BY <1>6, SumWhole
<1>8. SumFunctionOnSet(e, {}) = 0
  <2>1. IsFiniteSet({})
    BY FS_EmptySet
  <2>2. PICK g : SumsUp(g, e, {}) /\ SumFunctionOnSet(e, {}) = g[{}]
    BY <2>1, SumsExist, SumIsIteration
  <2>3. g[{}] = 0
    BY <2>2 DEF SumsUp, Sums
  <2> QED
    BY <2>2, <2>3
<1>9. Money \in Nat
  BY MoneyTyped
<1> QED
  BY <1>4, <1>5, <1>7, <1>8, <1>9, GenesisTyped DEF Solvent

\* What a node has applied is in the order of the sequence numbers.
LEMMA AppliedOrdered ==
    ASSUME ToOthers, Counted, NEW n, GoodQueue(queue[n]), OldTyped(queue[n]), NEW o \in Owners
    PROVE  Ordered(queue[n].accounts, Applied(n), o)
<1>1. PICK G : G = {p \in Pairs : Ordered(p[1], p[2], o)}
  OBVIOUS
<1>2. Closed(G)
  <2> SUFFICES ASSUME NEW p \in G, NEW t \in Operations, Validate(p[1], t)
               PROVE  <<Process(p[1], t), Append(p[2], t)>> \in G
    BY DEF Closed
  <2>1. p \in Pairs /\ Ordered(p[1], p[2], o)
    BY <1>1
  <2>2. PICK m \in Maps, s \in Seq(Operations) : m = p[1] /\ s = p[2]
    BY <2>1 DEF Pairs
  <2>3. PICK after, r : after = Process(m, t) /\ r = Append(s, t)
    OBVIOUS
  <2>4. after \in Maps /\ r \in Seq(Operations)
    BY <2>2, <2>3, ProcessTyped, SMT
  <2>5. Ordered(after, r, o)
    BY <2>1, <2>2, <2>3, OrderedLonger
  <2>6. <<after, r>> \in G
    BY <1>1, <2>4, <2>5 DEF Pairs
  <2> QED
    BY <2>2, <2>3, <2>6
<1>3. <<Genesis, <<>>>> \in G
  BY <1>1, FirstOrder, GenesisTyped
<1>4. G \in SUBSET Pairs
  BY <1>1
<1>5. <<queue[n].accounts, Applied(n)>> \in G
  BY <1>2, <1>3, <1>4, AccountsIn
<1> QED
  BY <1>1, <1>5

\* What a node has, and the fees of what it has applied, are all the money.
LEMMA AppliedBalanced ==
    ASSUME ToOthers, CostsFit, MoneyFits, NEW n, GoodQueue(queue[n]), OldTyped(queue[n])
    PROVE  /\ Solvent(queue[n].accounts)
           /\ Total(queue[n].accounts) + SumFunction(FeesOf(Applied(n))) = Money
<1>1. PICK G : G = {p \in Pairs : Solvent(p[1]) /\ Total(p[1]) + SumFunction(FeesOf(p[2])) = Money}
  OBVIOUS
<1>2. Closed(G)
  <2> SUFFICES ASSUME NEW p \in G, NEW t \in Operations, Validate(p[1], t)
               PROVE  <<Process(p[1], t), Append(p[2], t)>> \in G
    BY DEF Closed
  <2>1. p \in Pairs /\ Solvent(p[1]) /\ Total(p[1]) + SumFunction(FeesOf(p[2])) = Money
    BY <1>1
  <2>2. PICK m \in Maps, s \in Seq(Operations) : m = p[1] /\ s = p[2]
    BY <2>1 DEF Pairs
  <2>3. PICK after, r : after = Process(m, t) /\ r = Append(s, t)
    OBVIOUS
  <2>4. after \in Maps /\ r \in Seq(Operations)
    BY <2>2, <2>3, ProcessTyped, SMT
  <2>5. Solvent(after) /\ Total(m) = Total(after) + t.Fee
    BY <2>1, <2>2, <2>3, FeeTaken
  <2>6. SumFunction(FeesOf(s)) \in Nat /\ SumFunction(FeesOf(r)) = SumFunction(FeesOf(s)) + t.Fee
    BY <2>3, FeesLonger
  <2>7. Total(after) + SumFunction(FeesOf(r)) = Money
    <3>1. Total(after) \in Nat /\ t.Fee \in Nat
      BY <2>4, PurseTyped, OperationTyped
    <3> QED
      BY <2>1, <2>2, <2>5, <2>6, <3>1
  <2>8. <<after, r>> \in G
    BY <1>1, <2>4, <2>5, <2>7 DEF Pairs
  <2> QED
    BY <2>2, <2>3, <2>8
<1>3. <<Genesis, <<>>>> \in G
  BY <1>1, FirstMoney, GenesisTyped
<1>4. G \in SUBSET Pairs
  BY <1>1
<1>5. <<queue[n].accounts, Applied(n)>> \in G
  BY <1>2, <1>3, <1>4, AccountsIn
<1> QED
  BY <1>1, <1>5

-------------------------------------------------------------------------------
(***************************************************************************)
(* The chunks that a node makes.                                           *)
(***************************************************************************)
Validators == [accounts : Maps, validOps : Nat]

\* The validator of NewChunk after it has looked at operation t.
Looked(v, t) ==
    IF v.validOps < MaxChunkSize /\ Validate(v.accounts, t)
    THEN [accounts |-> Process(v.accounts, t), validOps |-> v.validOps + 1]
    ELSE v

\* w has the validators after each of the operations.
Builds(w, m, ops) ==
    /\ w \in [0..Len(ops) -> Validators]
    /\ w[0] = [accounts |-> m, validOps |-> 0]
    /\ \A i \in 1..Len(ops) : w[i] = Looked(w[i-1], ops[i])

\* What it has looked at before there were enough.
Seen(w, ops) == {ops[i] : i \in {j \in 1..Len(ops) : w[j-1].validOps < MaxChunkSize}}

\* The chunk of a list states the accounts that the last validator has.
LEMMA ChunkBuilt ==
    ASSUME NEW m \in Maps, NEW ops \in Seq(Operations)
    PROVE  \E w : /\ Builds(w, m, ops)
                  /\ ChunkOf(m, ops) =
                       [Operations |-> ops,
                        State |-> [o \in Mentioned(Seen(w, ops)) |-> w[Len(ops)].accounts[o]]]
<1> DEFINE A == Validators
           N == Len(ops)
           first == [accounts |-> m, validOps |-> 0]
           step == [p \in (1..N) \X A |-> Looked(p[2], ops[p[1]])]
           Body(u, i) == IF i = 0 THEN first ELSE Looked(u[i-1], ops[i])
           g == CHOOSE u : u = [i \in 0..N |->
                  IF i = 0 THEN [accounts |-> m, validOps |-> 0]
                  ELSE IF u[i-1].validOps < MaxChunkSize /\ Validate(u[i-1].accounts, ops[i])
                       THEN [accounts |-> Process(u[i-1].accounts, ops[i]),
                             validOps |-> u[i-1].validOps + 1]
                       ELSE u[i-1]]
<1>1. N \in Nat
  OBVIOUS
<1>2. \A i \in 1..N, x \in A : Looked(x, ops[i]) \in A
  <2> SUFFICES ASSUME NEW i \in 1..N, NEW x \in Validators PROVE Looked(x, ops[i]) \in Validators
    OBVIOUS
  <2>1. x.accounts \in Maps /\ x.validOps \in Nat
    BY DEF Validators
  <2>2. CASE Validate(x.accounts, ops[i]) /\ x.validOps < MaxChunkSize
    <3>1. Process(x.accounts, ops[i]) \in Maps
      BY <2>1, <2>2, ProcessTyped, SMT
    <3> QED
      BY <2>1, <2>2, <3>1, SMT DEF Validators, Looked
  <2>3. CASE ~(Validate(x.accounts, ops[i]) /\ x.validOps < MaxChunkSize)
    BY <2>3 DEF Looked
  <2> QED
    BY <2>2, <2>3
<1>3. first \in A
  BY DEF Validators
<1> HIDE DEF A, N, first
<1>4. IsStep(step, N, A) /\ \A i \in 1..N, x \in A : step[<<i, x>>] = Looked(x, ops[i])
  BY <1>2 DEF IsStep
<1> HIDE DEF step
<1>5. PICK u \in [0..N -> A] : u[0] = first /\ \A i \in 1..N : u[i] = step[<<i, u[i-1]>>]
  <2>1. PICK v : GoesOn(v, first, step, N, A)
    BY <1>1, <1>3, <1>4, Recursion
  <2> QED
    BY <2>1 DEF GoesOn
<1>6. ASSUME NEW i \in 0..N PROVE u[i] = Body(u, i)
  <2>1. CASE i = 0
    BY <1>5, <2>1
  <2>2. CASE i # 0
    <3>1. i \in 1..N /\ i - 1 \in 0..N
      BY <1>1, <2>2, SMT
    <3>2. u[i-1] \in A
      BY <3>1
    <3> QED
      BY <1>4, <1>5, <2>2, <3>1, <3>2
  <2> QED
    BY <2>1, <2>2
<1>7. u = [i \in 0..N |-> Body(u, i)]
  BY <1>5, <1>6
<1>8. g = [i \in 0..N |-> Body(g, i)]
  BY <1>7 DEF Looked, first
<1> HIDE DEF g
<1> DEFINE S == {i \in Nat : i <= N => g[i] \in A}
<1>9. \A i \in 0..N : g[i] = Body(g, i)
  BY <1>8
<1>10. 0 \in S
  BY <1>1, <1>3, <1>9, SMT
<1>11. \A i \in Nat : i \in S => i + 1 \in S
  <2> SUFFICES ASSUME NEW i \in Nat, i \in S, i + 1 <= N PROVE g[i+1] \in A
    BY SMT
  <2>1. i + 1 \in 1..N /\ i + 1 \in 0..N /\ i + 1 # 0 /\ (i + 1) - 1 = i /\ g[i] \in A
    BY <1>1
  <2>2. g[i+1] = Looked(g[i], ops[i+1])
    BY <1>9, <2>1
  <2> QED
    BY <1>2, <2>1, <2>2
<1>12. Nat \subseteq S
  <2> HIDE DEF S
  <2> QED
    BY <1>10, <1>11, Induction
<1>13. g \in [0..N -> A]
  <2>1. \A i \in 0..N : g[i] \in A
    BY <1>1, <1>12
  <2>2. g = [i \in 0..N |-> g[i]]
    BY <1>8, <1>9
  <2> QED
    BY <2>1, <2>2
<1>14. Builds(g, m, ops)
  <2>1. \A i \in 1..N : g[i] = Looked(g[i-1], ops[i])
    <3> SUFFICES ASSUME NEW i \in 1..N PROVE g[i] = Looked(g[i-1], ops[i])
      OBVIOUS
    <3>1. i \in 0..N /\ i # 0
      BY <1>1
    <3> QED
      BY <1>9, <3>1
  <2>2. g[0] = first
    BY <1>1, <1>9, SMT
  <2> QED
    BY <1>13, <2>1, <2>2 DEF Builds, A, N, first
<1>15. ChunkOf(m, ops) = [Operations |-> ops,
                          State |-> [o \in Mentioned(Seen(g, ops)) |-> g[N].accounts[o]]]
  BY DEF ChunkOf, Seen, g, N
<1> QED
  BY <1>14, <1>15 DEF N

\* It is a chunk.
LEMMA ChunkOfTyped ==
    ASSUME NEW m \in Maps, NEW ops \in Seq(Operations), Hashable(ChunkOf(m, ops))
    PROVE  IsChunk(ChunkOf(m, ops))
<1>1. PICK c : c = ChunkOf(m, ops)
  OBVIOUS
<1>2. PICK w : /\ Builds(w, m, ops)
               /\ c = [Operations |-> ops,
                       State |-> [o \in Mentioned(Seen(w, ops)) |-> w[Len(ops)].accounts[o]]]
  BY <1>1, ChunkBuilt
<1>3. PICK D, a : D = Mentioned(Seen(w, ops)) /\ a = w[Len(ops)].accounts
  OBVIOUS
<1>4. c.Operations = ops /\ c.State = [o \in D |-> a[o]]
  BY <1>2, <1>3
<1>5. D \subseteq Owners
  <2>1. \A op \in Seen(w, ops) : op \in Operations
    BY DEF Seen
  <2> QED
    BY <1>3, <2>1, OperationTyped DEF Mentioned
<1>6. a \in Maps
  <2>1. w[Len(ops)] \in Validators
    BY <1>2, SMT DEF Builds
  <2> QED
    BY <1>3, <2>1 DEF Validators
<1>7. \A o \in D : a[o] # Nil
  BY <1>1, <1>4 DEF Hashable
<1>8. \A o \in D : c.State[o] \in Accounts
  BY <1>4, <1>5, <1>6, <1>7 DEF Maps
<1> QED
  BY <1>1, <1>4, <1>5, <1>8 DEF IsChunk

\* The elements of a list are finitely many.
LEMMA RangeFinite ==
    ASSUME NEW ops \in Seq(Operations)
    PROVE  /\ Range(ops) \in SUBSET Operations /\ IsFiniteSet(Range(ops))
           /\ \A x \in Range(ops) : \E i \in 1..Len(ops) : x = ops[i]
<1>1. PICK R : R = Range(ops)
  OBVIOUS
<1>2. R = {ops[i] : i \in 1..Len(ops)}
  BY <1>1, SMT DEF Range
<1>3. ops \in [1..Len(ops) -> R] /\ \A x \in R : \E i \in 1..Len(ops) : ops[i] = x
  BY <1>2
<1>4. IsFiniteSet(1..Len(ops))
  BY FS_Interval
<1>5. ops \in Surjection(1..Len(ops), R)
  BY <1>3 DEF Surjection
<1>6. IsFiniteSet(R)
  BY <1>4, <1>5, FS_Surjection
<1> QED
  BY <1>1, <1>2, <1>6, SMT

\* The operations of chunks.
OperationsOf(list) == UNION {Range(chunk.Operations) : chunk \in list}

\* So are the operations of finitely many chunks.
LEMMA OperationsFinite ==
    ASSUME NEW list, IsFiniteSet(list), \A c \in list : c.Operations \in Seq(Operations)
    PROVE  /\ OperationsOf(list) \in SUBSET Operations /\ IsFiniteSet(OperationsOf(list))
           /\ \A x \in OperationsOf(list) :
                \E c \in list : \E i \in 1..Len(c.Operations) : x = c.Operations[i]
<1>1. \A c \in list : /\ Range(c.Operations) \in SUBSET Operations /\ IsFiniteSet(Range(c.Operations))
                      /\ \A x \in Range(c.Operations) :
                           \E i \in 1..Len(c.Operations) : x = c.Operations[i]
  BY RangeFinite
<1>2. PICK R : R = {Range(c.Operations) : c \in list}
  OBVIOUS
<1>3. PICK f : f = [c \in list |-> Range(c.Operations)]
  OBVIOUS
<1>4. f \in Surjection(list, R)
  <2>1. \A c \in list : f[c] \in R
    BY <1>2, <1>3
  <2>2. f \in [list -> R]
    BY <1>3, <2>1
  <2>3. \A x \in R : \E c \in list : f[c] = x
    BY <1>2, <1>3
  <2> QED
    BY <2>2, <2>3 DEF Surjection
<1>5. IsFiniteSet(R)
  BY <1>4, FS_Surjection
<1>6. \A T \in R : IsFiniteSet(T)
  BY <1>1, <1>2
<1>7. OperationsOf(list) = UNION R
  BY <1>2 DEF OperationsOf
<1>8. IsFiniteSet(UNION R)
  BY <1>5, <1>6, FS_UNION
<1>9. \A x \in OperationsOf(list) : \E c \in list : x \in Range(c.Operations)
  BY DEF OperationsOf
<1> QED
  BY <1>1, <1>7, <1>8, <1>9

-------------------------------------------------------------------------------
(***************************************************************************)
(* What a step does to the chunks of a queue.                              *)
(***************************************************************************)

\* From q to r, the valid ones of the chunks cs are learnt.
Learns(q, r, cs) ==
    /\ r.accounts = q.accounts /\ r.oldChunks = q.oldChunks /\ r.failed = q.failed
    /\ r.chunks = q.chunks \cup {c \in cs : ValidateChunk(q.accounts, c)}

\* A chunk is made of the list, if it can be hashed.
Makes(q, r, list) ==
    LET chunk == ChunkOf(q.accounts, list)
    IN /\ r.accounts = q.accounts /\ r.oldChunks = q.oldChunks
       /\ Hashable(chunk) => r.chunks = q.chunks \cup {chunk} /\ r.failed = q.failed
       /\ ~Hashable(chunk) => r.chunks = q.chunks /\ r.failed = TRUE

\* A chunk is finalized, if it is valid.
Finishes(q, r, v) ==
    /\ ValidateChunk(q.accounts, v) =>
         r.chunks = {} /\ r.oldChunks = Append(q.oldChunks, v) /\ r.failed = q.failed
    /\ ~ValidateChunk(q.accounts, v) =>
         r.chunks = q.chunks /\ r.oldChunks = q.oldChunks /\ r.failed = TRUE

\* HandleTransactionMessage learns chunks.
LEMMA HandleLearns ==
    ASSUME NEW q, GoodQueue(q), NEW m, NEW r, r = HandleTransactionMessage(q, m)
    PROVE  Learns(q, r, m.Chunks)
<1>1. q = [set |-> q.set, chunks |-> q.chunks, accounts |-> q.accounts,
           oldChunks |-> q.oldChunks, failed |-> q.failed]
  BY DEF GoodQueue
<1>2. PICK p : p = AddOperations(q, m.Operations)
  OBVIOUS
<1>3. PICK pool : p = [set |-> pool, chunks |-> q.chunks, accounts |-> q.accounts,
                       oldChunks |-> q.oldChunks, failed |-> q.failed]
  <2>1. p = q \/ \E op : p = Add(q, op)
    BY <1>2 DEF AddOperations
  <2>2. ASSUME NEW op, p = Add(q, op)
        PROVE  p = [set |-> AddedTo(q.set, op), chunks |-> q.chunks, accounts |-> q.accounts,
                    oldChunks |-> q.oldChunks, failed |-> q.failed]
    <3>1. PICK all : all = AddedTo(q.set, op)
      OBVIOUS
    <3>2. p = [q EXCEPT !.set = all]
      BY <2>2, <3>1 DEF Add
    <3> QED
      BY <1>1, <3>1, <3>2
  <2> QED
    BY <1>1, <2>1, <2>2
<1>4. PICK chunks : chunks = q.chunks \cup {c \in m.Chunks : ValidateChunk(q.accounts, c)}
  OBVIOUS
<1>5. p.chunks = q.chunks /\ p.accounts = q.accounts
  BY <1>3
<1>6. r = [p EXCEPT !.chunks = chunks]
  BY <1>2, <1>3, <1>4, <1>5 DEF HandleTransactionMessage, LearnChunks
<1>7. /\ r.accounts = q.accounts /\ r.oldChunks = q.oldChunks /\ r.failed = q.failed
      /\ r.chunks = chunks
  BY <1>3, <1>6
<1> QED
  BY <1>4, <1>7 DEF Learns

\* NewChunk makes one.
LEMMA NewChunkMakes ==
    ASSUME NEW q, GoodQueue(q), NEW list, NEW r, r = NewChunk(q, list)
    PROVE  Makes(q, r, list)
<1>1. q = [set |-> q.set, chunks |-> q.chunks, accounts |-> q.accounts,
            oldChunks |-> q.oldChunks, failed |-> q.failed]
  BY DEF GoodQueue
<1>2. PICK chunk : chunk = ChunkOf(q.accounts, list)
  OBVIOUS
<1>3. r = IF Hashable(chunk) THEN [q EXCEPT !.chunks = @ \cup {chunk}]
          ELSE [q EXCEPT !.failed = TRUE]
  BY <1>2 DEF NewChunk
<1>4. CASE Hashable(chunk)
  <2>1. r = [q EXCEPT !.chunks = q.chunks \cup {chunk}]
    BY <1>1, <1>3, <1>4
  <2>2. /\ r.accounts = q.accounts /\ r.oldChunks = q.oldChunks
        /\ r.chunks = q.chunks \cup {chunk} /\ r.failed = q.failed
    BY <1>1, <2>1
  <2> QED
    BY <1>2, <1>4, <2>2 DEF Makes
<1>5. CASE ~Hashable(chunk)
  <2>0. PICK yes : yes = TRUE
    OBVIOUS
  <2>1. r = [q EXCEPT !.failed = TRUE]
    BY <1>3, <1>5
  <2>2. r = [set |-> q.set, chunks |-> q.chunks, accounts |-> q.accounts,
             oldChunks |-> q.oldChunks, failed |-> yes]
    BY <1>1, <2>0, <2>1
  <2>3. r.accounts = q.accounts /\ r.oldChunks = q.oldChunks /\ r.chunks = q.chunks
    BY <2>2
  <2>4. r.failed = yes
    BY <2>2
  <2> QED
    BY <1>2, <1>5, <2>0, <2>3, <2>4 DEF Makes
<1> QED
  BY <1>4, <1>5

\* Finalize finalizes.
LEMMA FinalizeFinishes ==
    ASSUME NEW q, GoodQueue(q), NEW v, NEW r, r = Finalize(q, v)
    PROVE  Finishes(q, r, v)
<1>1. q = [set |-> q.set, chunks |-> q.chunks, accounts |-> q.accounts,
            oldChunks |-> q.oldChunks, failed |-> q.failed]
  BY DEF GoodQueue
<1>2. PICK after : after = ProcessChunk(q.accounts, v)
  OBVIOUS
<1>3. CASE after = Nil
  <2>0. PICK yes : yes = TRUE
    OBVIOUS
  <2>1. r = [q EXCEPT !.failed = TRUE]
    BY <1>2, <1>3 DEF Finalize
  <2>2. r = [set |-> q.set, chunks |-> q.chunks, accounts |-> q.accounts,
             oldChunks |-> q.oldChunks, failed |-> yes]
    BY <1>1, <2>0, <2>1
  <2>3. r.oldChunks = q.oldChunks /\ r.chunks = q.chunks
    BY <2>2
  <2>4. r.failed = yes
    BY <2>2
  <2> QED
    BY <1>2, <1>3, <2>0, <2>3, <2>4 DEF Finishes, ValidateChunk
<1>4. CASE after # Nil
  <2>1. PICK old, none : old = Append(q.oldChunks, v) /\ none = {}
    OBVIOUS
  <2>2. PICK p : p = [q EXCEPT !.accounts = after, !.chunks = none, !.oldChunks = old]
    OBVIOUS
  <2>3. r = Revalidate(p)
    BY <1>2, <1>4, <2>1, <2>2 DEF Finalize
  <2>4. p = [set |-> q.set, chunks |-> none, accounts |-> after, oldChunks |-> old,
             failed |-> q.failed]
    BY <1>1, <2>2
  <2>5. PICK pool : r = [p EXCEPT !.set = pool]
    <3>1. PICK s : s = {op \in p.set : Validate(p.accounts, op)}
      OBVIOUS
    <3>2. r = [p EXCEPT !.set = s]
      BY <2>3, <3>1 DEF Revalidate
    <3> QED
      BY <3>2
  <2>6. r.chunks = none /\ r.oldChunks = old /\ r.failed = q.failed
    BY <2>4, <2>5
  <2> QED
    BY <1>2, <1>4, <2>1, <2>6 DEF Finishes, ValidateChunk
<1> QED
  BY <1>3, <1>4

\* What a node may send: its chunks, or one that it has finalized.
Sent(q) == {q.chunks, {}} \cup {{q.oldChunks[i]} : i \in 1..Len(q.oldChunks)}

\* The lists that a node makes a chunk of: its pool, or the operations of chunks.
Lists(q) == {Sorted(q.set)} \cup {Sorted(OperationsOf(list)) : list \in SUBSET q.chunks}

\* What may happen to a queue.
Move(q, r) ==
    \/ r = q
    \/ \E k \in Nodes : \E cs \in Sent(queue[k]) : Learns(q, r, cs)
    \/ \E list \in Lists(q) : Makes(q, r, list)
    \/ \E v \in q.chunks : Finishes(q, r, v)
    \/ r = Fresh(q.accounts, q.oldChunks)

\* Nominated values are known.
Nominees ==
    /\ X = [n \in Nodes |-> X[n]]
    /\ \A n \in Nodes : X[n] \subseteq queue[n].chunks

Moves ==
    /\ Nominees'
    /\ \A n \in Nodes : Move(queue[n], queue'[n])

\* A step of one node.
LEMMA OneMoves ==
    ASSUME LedgerInv, Nominees, NEW n \in Nodes, NEW r, queue' = [queue EXCEPT ![n] = r],
           Move(queue[n], r), NEW x, X' = [X EXCEPT ![n] = x], x \subseteq r.chunks
    PROVE  Moves
<1>1. queue = [k \in Nodes |-> queue[k]] /\ X = [k \in Nodes |-> X[k]]
  BY DEF LedgerInv, Nominees
<1>2. queue'[n] = r /\ \A k \in Nodes \ {n} : queue'[k] = queue[k]
  BY <1>1
<1>3. X'[n] = x /\ (\A k \in Nodes \ {n} : X'[k] = X[k]) /\ X' = [k \in Nodes |-> X'[k]]
  BY <1>1
<1>4. ASSUME NEW k \in Nodes PROVE X'[k] \subseteq queue'[k].chunks
  <2>1. CASE k = n
    BY <1>2, <1>3, <2>1
  <2>2. CASE k # n
    BY <1>2, <1>3, <2>2 DEF Nominees
  <2> QED
    BY <2>1, <2>2
<1>5. ASSUME NEW k \in Nodes PROVE Move(queue[k], queue'[k])
  <2>1. CASE k = n
    BY <1>2, <2>1
  <2>2. CASE k # n
    BY <1>2, <2>2 DEF Move
  <2> QED
    BY <2>1, <2>2
<1> QED
  BY <1>3, <1>4, <1>5 DEF Moves, Nominees

\* A step that leaves the nominations alone, and keeps the chunks.
LEMMA QueueMoves ==
    ASSUME LedgerInv, Nominees, NEW n \in Nodes, NEW r, queue' = [queue EXCEPT ![n] = r],
           Move(queue[n], r), X' = X, queue[n].chunks \subseteq r.chunks
    PROVE  Moves
<1>1. PICK x : x = X[n]
  OBVIOUS
<1>2. X' = [X EXCEPT ![n] = x]
  BY <1>1 DEF Nominees
<1>3. x \subseteq r.chunks
  BY <1>1 DEF Nominees
<1> QED
  BY <1>2, <1>3, OneMoves

\* A message comes.
LEMMA ReceiveMoves ==
    ASSUME LedgerInv, Nominees, NEW n \in Nodes, NEW k \in Nodes, NEW m,
           m.Chunks \in Sent(queue[k]), Receive(n, m)
    PROVE  Moves
<1>1. PICK q, r : q = queue[n] /\ r = HandleTransactionMessage(q, m)
  OBVIOUS
<1>2. queue' = [queue EXCEPT ![n] = r] /\ X' = X
  BY <1>1 DEF Receive
<1>3. GoodQueue(q)
  BY <1>1 DEF LedgerInv
<1>4. Learns(q, r, m.Chunks)
  BY <1>1, <1>3, HandleLearns
<1>5. Move(q, r)
  BY <1>4 DEF Move
<1>6. q.chunks \subseteq r.chunks
  BY <1>4 DEF Learns
<1> QED
  BY <1>1, <1>2, <1>5, <1>6, QueueMoves

\* A chunk is made.
LEMMA NewChunkMoves ==
    ASSUME LedgerInv, Nominees, NEW n \in Nodes, NEW list, Suggest(n) \/ CombineValues(n, list),
           list \in SUBSET X[n]
    PROVE  Moves
<1>1. PICK q : q = queue[n]
  OBVIOUS
<1>2. GoodQueue(q) /\ queue = [k \in Nodes |-> queue[k]] /\ X[n] \subseteq q.chunks
  BY <1>1 DEF LedgerInv, Nominees
<1>3. CASE Suggest(n)
  <2>1. PICK ops, r : ops = Sorted(q.set) /\ r = NewChunk(q, ops)
    OBVIOUS
  <2>2. queue' = [queue EXCEPT ![n] = r]
    BY <1>1, <1>3, <2>1 DEF Suggest, SuggestValue
  <2>3. Move(q, r)
    <3>1. Makes(q, r, ops)
      BY <1>2, <2>1, NewChunkMakes
    <3>2. ops \in Lists(q)
      BY <2>1 DEF Lists
    <3> QED
      BY <3>1, <3>2 DEF Move
  <2>4. PICK x : x = {Suggestion(queue[n])} \cap queue'[n].chunks
    OBVIOUS
  <2>5. X' = [X EXCEPT ![n] = x]
    BY <1>3, <2>4 DEF Suggest
  <2>6. x \subseteq r.chunks
    <3>1. queue'[n] = r
      BY <1>2, <2>2
    <3> QED
      BY <2>4, <3>1
  <2> QED
    BY <1>1, <2>2, <2>3, <2>5, <2>6, OneMoves
<1>4. CASE CombineValues(n, list)
  <2>1. PICK ops, r : ops = Sorted(OperationsOf(list)) /\ r = NewChunk(q, ops)
    OBVIOUS
  <2>2. queue' = [queue EXCEPT ![n] = r] /\ X' = X
    BY <1>1, <1>4, <2>1 DEF CombineValues, Combine, OperationsOf
  <2>3. Makes(q, r, ops)
    BY <1>2, <2>1, NewChunkMakes
  <2>4. Move(q, r)
    <3>1. ops \in Lists(q)
      BY <1>2, <2>1 DEF Lists
    <3> QED
      BY <2>3, <3>1 DEF Move
  <2>5. q.chunks \subseteq r.chunks
    BY <2>3 DEF Makes
  <2> QED
    BY <1>1, <2>2, <2>4, <2>5, QueueMoves
<1> QED
  BY <1>3, <1>4

\* A value is nominated, a chunk is finalized, or a node starts again.
LEMMA OtherMoves ==
    ASSUME LedgerInv, Nominees, NEW n \in Nodes, NEW k \in Nodes, NEW v,
           \/ ReceiveNomination(n, k)
           \/ Externalize(n, v) /\ v \in queue[n].chunks
           \/ Restart(n)
    PROVE  Moves
<1>1. PICK q : q = queue[n]
  OBVIOUS
<1>2. GoodQueue(q) /\ queue = [j \in Nodes |-> queue[j]] /\ X[n] \subseteq q.chunks
  BY <1>1 DEF LedgerInv, Nominees
<1>3. CASE ReceiveNomination(n, k)
  <2>1. queue' = [queue EXCEPT ![n] = q] /\ Move(q, q)
    BY <1>1, <1>2, <1>3 DEF ReceiveNomination, Move
  <2>2. PICK x : x = X[n] \cup (X[k] \cap queue[n].chunks)
    OBVIOUS
  <2>3. X' = [X EXCEPT ![n] = x] /\ x \subseteq q.chunks
    BY <1>1, <1>2, <1>3, <2>2 DEF ReceiveNomination
  <2> QED
    BY <1>1, <2>1, <2>3, OneMoves
<1>4. CASE Externalize(n, v) /\ v \in queue[n].chunks
  <2>1. PICK r : r = Finalize(q, v)
    OBVIOUS
  <2>2. queue' = [queue EXCEPT ![n] = r] /\ X' = [X EXCEPT ![n] = {}]
    BY <1>1, <1>4, <2>1 DEF Externalize
  <2>3. Finishes(q, r, v)
    BY <1>2, <2>1, FinalizeFinishes
  <2>4. Move(q, r)
    BY <1>1, <1>4, <2>3 DEF Move
  <2>5. PICK x : x = {} /\ x \subseteq r.chunks
    <3>1. PICK none : none = {}
      OBVIOUS
    <3>2. none \subseteq r.chunks
      BY <3>1
    <3> QED
      BY <3>1, <3>2
  <2> QED
    BY <1>1, <2>2, <2>4, <2>5, OneMoves
<1>5. CASE Restart(n)
  <2>1. PICK r : r = Fresh(q.accounts, q.oldChunks)
    OBVIOUS
  <2>2. queue' = [queue EXCEPT ![n] = r] /\ X' = [X EXCEPT ![n] = {}]
    BY <1>1, <1>2, <1>5, <2>1, ReplayedGood DEF Restart
  <2>3. Move(q, r)
    BY <2>1 DEF Move
  <2>4. PICK x : x = {} /\ x \subseteq r.chunks
    <3>1. PICK none : none = {}
      OBVIOUS
    <3>2. none \subseteq r.chunks
      BY <3>1
    <3> QED
      BY <3>1, <3>2
  <2> QED
    BY <1>1, <2>2, <2>3, <2>4, OneMoves
<1> QED
  BY <1>3, <1>4, <1>5

\* Every step is such a move.
LEMMA StepMoves ==
    ASSUME LedgerInv, Nominees, [Next]_vars PROVE Moves
<1>1. CASE UNCHANGED vars
  <2>1. queue' = queue /\ X' = X
    BY <1>1 DEF vars
  <2> QED
    BY <2>1 DEF Moves, Nominees, Move
<1>2. CASE Next
  <2>1. PICK n \in Nodes :
          \/ \E op \in Operations : Submit(n, op)
          \/ \E k \in Nodes \ {n} :
               \/ ReceiveTransactions(n, k)
               \/ ReceiveHistory(n, k)
               \/ ReceiveNomination(n, k)
          \/ Suggest(n)
          \/ \E list \in (SUBSET X[n]) \ {{}} : CombineValues(n, list)
          \/ \E v \in queue[n].chunks : Externalize(n, v)
          \/ Restart(n)
    BY <1>2 DEF Next
  <2>2. ASSUME NEW op \in Operations, Submit(n, op) PROVE Moves
    <3>1. PICK m : m = [Operations |-> <<op>>, Chunks |-> {}]
      OBVIOUS
    <3>2. Receive(n, m) /\ m.Chunks \in Sent(queue[n])
      BY <2>2, <3>1 DEF Submit, Sent
    <3> QED
      BY <3>2, ReceiveMoves
  <2>3. ASSUME NEW k \in Nodes, ReceiveTransactions(n, k) PROVE Moves
    <3>1. PICK m : m = TransactionMessage(queue[k])
      OBVIOUS
    <3>2. Receive(n, m)
      BY <2>3, <3>1 DEF ReceiveTransactions
    <3>3. m.Chunks \in Sent(queue[k])
      BY <3>1 DEF TransactionMessage, Sent
    <3> QED
      BY <3>2, <3>3, ReceiveMoves
  <2>4. ASSUME NEW k \in Nodes, ReceiveHistory(n, k) PROVE Moves
    <3>1. PICK m : m = OldChunkMessage(queue[k], Slot(n))
      OBVIOUS
    <3>2. Receive(n, m) /\ Slot(k) > Slot(n)
      BY <2>4, <3>1 DEF ReceiveHistory
    <3>3. Slot(n) \in 1..Len(queue[k].oldChunks)
      <4>1. Len(queue[n].oldChunks) \in Nat /\ Len(queue[k].oldChunks) \in Nat
        BY LengthIsNat DEF LedgerInv, GoodQueue
      <4> QED
        BY <3>2, <4>1 DEF Slot, QueueSlot
    <3>4. m.Chunks \in Sent(queue[k])
      BY <3>1, <3>3 DEF OldChunkMessage, Sent
    <3> QED
      BY <3>2, <3>4, ReceiveMoves
  <2>5. CASE Suggest(n)
    <3>1. {} \in SUBSET X[n]
      OBVIOUS
    <3> QED
      BY <2>5, <3>1, NewChunkMoves
  <2>6. ASSUME NEW list \in (SUBSET X[n]) \ {{}}, CombineValues(n, list) PROVE Moves
    BY <2>6, NewChunkMoves
  <2> QED
    BY <2>1, <2>2, <2>3, <2>4, <2>5, <2>6, OtherMoves
<1> QED
  BY <1>1, <1>2

-------------------------------------------------------------------------------
(***************************************************************************)
(* Types.                                                                  *)
(***************************************************************************)

\* The chunks of a queue are chunks, and there are finitely many.
ChunksTyped(q) ==
    /\ IsFiniteSet(q.chunks)
    /\ \A c \in q.chunks : IsChunk(c)
    /\ OldTyped(q)

\* So are those that the slots have been decided on.
TypeInv ==
    /\ Nominees
    /\ restarts \in 0..MaxRestarts
    /\ \A n \in Nodes : ChunksTyped(queue[n])
    /\ \A i \in 1..Len(decided) : IsChunk(decided[i])

\* The lists that chunks are made of have operations, each once.
LEMMA ListsTyped ==
    ASSUME NEW q, GoodQueue(q), ChunksTyped(q), NEW list \in Lists(q)
    PROVE  \E ops \in SUBSET Operations :
             /\ IsFiniteSet(ops) /\ list = Sorted(ops) /\ list \in Seq(Operations)
             /\ \/ ops = q.set
                \/ \A x \in ops : \E c \in q.chunks : \E i \in 1..Len(c.Operations) : x = c.Operations[i]
<1>1. CASE list = Sorted(q.set)
  <2>1. q.set \in SUBSET Operations /\ IsFiniteSet(q.set)
    BY DEF GoodQueue
  <2>2. list \in Seq(Operations)
    BY <1>1, <2>1, SortedIsList
  <2> QED
    BY <1>1, <2>1, <2>2
<1>2. ASSUME NEW some \in SUBSET q.chunks, list = Sorted(OperationsOf(some))
      PROVE  \E ops \in SUBSET Operations :
               /\ IsFiniteSet(ops) /\ list = Sorted(ops) /\ list \in Seq(Operations)
               /\ \A x \in ops : \E c \in q.chunks : \E i \in 1..Len(c.Operations) : x = c.Operations[i]
  <2>1. IsFiniteSet(some) /\ \A c \in some : c.Operations \in Seq(Operations)
    BY FS_Subset DEF ChunksTyped, IsChunk
  <2>2. PICK ops : ops = OperationsOf(some)
    OBVIOUS
  <2>3. /\ ops \in SUBSET Operations /\ IsFiniteSet(ops)
        /\ \A x \in ops : \E c \in some : \E i \in 1..Len(c.Operations) : x = c.Operations[i]
    BY <2>1, <2>2, OperationsFinite, SMT
  <2>4. Sorted(ops) \in Seq(Operations)
    BY <2>3, SortedIsList
  <2>5. \A x \in ops : \E c \in q.chunks : \E i \in 1..Len(c.Operations) : x = c.Operations[i]
    BY <2>3
  <2> QED
    BY <1>2, <2>2, <2>3, <2>4, <2>5
<1>3. list = Sorted(q.set) \/ \E some \in SUBSET q.chunks : list = Sorted(OperationsOf(some))
  BY DEF Lists
<1> QED
  BY <1>1, <1>2, <1>3

\* What one queue knows after a move.
LEMMA MoveTyped ==
    ASSUME LedgerInv, TypeInv, NEW n \in Nodes, NEW r, Move(queue[n], r)
    PROVE  ChunksTyped(r)
<1>1. PICK q : q = queue[n]
  OBVIOUS
<1>2. GoodQueue(q) /\ ChunksTyped(q) /\ OldTyped(q)
  BY <1>1 DEF LedgerInv, TypeInv, ChunksTyped
<1>3. q.accounts \in Maps
  BY <1>1, <1>2, AccountsTyped
<1>4. CASE r = q
  BY <1>2, <1>4
<1>5. ASSUME NEW k \in Nodes, NEW cs \in Sent(queue[k]), Learns(q, r, cs) PROVE ChunksTyped(r)
  <2>1. ChunksTyped(queue[k])
    BY DEF TypeInv
  <2>2. IsFiniteSet(cs) /\ \A c \in cs : IsChunk(c)
    <3>1. CASE cs = {}
      BY <3>1, FS_EmptySet
    <3>2. CASE cs = queue[k].chunks
      BY <2>1, <3>2 DEF ChunksTyped
    <3>3. ASSUME NEW i \in 1..Len(queue[k].oldChunks), cs = {queue[k].oldChunks[i]}
          PROVE  IsFiniteSet(cs) /\ \A c \in cs : IsChunk(c)
      BY <2>1, <3>3, FS_Singleton DEF ChunksTyped, OldTyped
    <3> QED
      BY <3>1, <3>2, <3>3 DEF Sent
  <2>3. PICK new : new = {c \in cs : ValidateChunk(q.accounts, c)}
    OBVIOUS
  <2>4. IsFiniteSet(new) /\ \A c \in new : IsChunk(c)
    BY <2>2, <2>3, FS_Subset
  <2>5. r.chunks = q.chunks \cup new /\ r.oldChunks = q.oldChunks
    BY <1>5, <2>3 DEF Learns
  <2>6. IsFiniteSet(q.chunks \cup new)
    BY <1>2, <2>4, FS_Union DEF ChunksTyped
  <2> QED
    BY <1>2, <2>4, <2>5, <2>6 DEF ChunksTyped, OldTyped
<1>6. ASSUME NEW list \in Lists(q), Makes(q, r, list) PROVE ChunksTyped(r)
  <2>1. list \in Seq(Operations)
    BY <1>2, ListsTyped
  <2>2. PICK chunk : chunk = ChunkOf(q.accounts, list)
    OBVIOUS
  <2>3. Hashable(chunk) => IsChunk(chunk)
    BY <1>3, <2>1, <2>2, ChunkOfTyped
  <2>4. /\ r.oldChunks = q.oldChunks
        /\ r.chunks = q.chunks \/ (Hashable(chunk) /\ r.chunks = q.chunks \cup {chunk})
    BY <1>6, <2>2 DEF Makes
  <2>5. IsFiniteSet(q.chunks \cup {chunk}) /\ IsFiniteSet(q.chunks)
    BY <1>2, FS_AddElement DEF ChunksTyped
  <2> QED
    BY <1>2, <2>3, <2>4, <2>5 DEF ChunksTyped, OldTyped
<1>7. ASSUME NEW v \in q.chunks, Finishes(q, r, v) PROVE ChunksTyped(r)
  <2>1. CASE r.chunks = q.chunks /\ r.oldChunks = q.oldChunks
    BY <1>2, <2>1 DEF ChunksTyped, OldTyped
  <2>2. CASE r.chunks = {} /\ r.oldChunks = Append(q.oldChunks, v)
    <3>1. PICK s, t : s = q.oldChunks /\ t = r.oldChunks
      OBVIOUS
    <3>2. IsSequence(s) /\ t = Append(s, v)
      BY <1>2, <2>2, <3>1 DEF GoodQueue
    <3>3. Longer(s, v, t)
      BY <3>2, LongerSequence
    <3>4. /\ Len(s) \in Nat /\ Len(t) = Len(s) + 1 /\ t[Len(s) + 1] = v
          /\ \A i \in 1..Len(s) : t[i] = s[i]
      BY <3>3 DEF Longer
    <3>5. IsChunk(v) /\ \A i \in 1..Len(s) : IsChunk(s[i])
      BY <1>2, <3>1 DEF ChunksTyped, OldTyped
    <3>6. \A i \in 1..Len(t) : IsChunk(t[i])
      <4> SUFFICES ASSUME NEW i \in 1..Len(t) PROVE IsChunk(t[i])
        OBVIOUS
      <4>1. i = Len(s) + 1 \/ i \in 1..Len(s)
        BY <3>4
      <4> QED
        BY <3>4, <3>5, <4>1
    <3> QED
      BY <2>2, <3>1, <3>6, FS_EmptySet DEF ChunksTyped, OldTyped
  <2> QED
    BY <1>7, <2>1, <2>2 DEF Finishes
<1>8. CASE r = Fresh(q.accounts, q.oldChunks)
  <2>1. r.chunks = {} /\ r.oldChunks = q.oldChunks
    BY <1>8 DEF Fresh
  <2> QED
    BY <1>2, <2>1, FS_EmptySet DEF ChunksTyped, OldTyped
<1> QED
  BY <1>1, <1>4, <1>5, <1>6, <1>7, <1>8 DEF Move

\* What a step may do to the decided values.
LEMMA StepDecides ==
    ASSUME [Next]_vars
    PROVE  \/ decided' = decided
           \/ \E n \in Nodes : \E v \in queue[n].chunks : decided' = Append(decided, v)
<1>1. CASE UNCHANGED vars
  BY <1>1 DEF vars
<1>2. CASE Next
  BY <1>2 DEF Next, Submit, ReceiveTransactions, ReceiveHistory, Receive, ReceiveNomination,
              Suggest, CombineValues, Externalize, Restart
<1> QED
  BY <1>1, <1>2

\* And to the number of restarts.
LEMMA StepRestarts ==
    ASSUME [Next]_vars, restarts \in 0..MaxRestarts PROVE restarts' \in 0..MaxRestarts
<1>0. MaxRestarts \in Nat
  BY LedgerAssumption
<1>1. CASE UNCHANGED vars
  BY <1>1 DEF vars
<1>2. CASE Next
  <2>1. restarts' = restarts \/ (restarts' = restarts + 1 /\ restarts < MaxRestarts)
    BY <1>2 DEF Next, Submit, ReceiveTransactions, ReceiveHistory, Receive, ReceiveNomination,
                Suggest, CombineValues, Externalize, Restart
  <2> QED
    BY <1>0, <2>1
<1> QED
  BY <1>1, <1>2

\* Every step keeps the types.
LEMMA TypeStep == LedgerInv /\ TypeInv /\ [Next]_vars => TypeInv'
<1> SUFFICES ASSUME LedgerInv, TypeInv, [Next]_vars PROVE TypeInv'
  OBVIOUS
<1>1. Moves
  BY StepMoves DEF TypeInv
<1>2. \A n \in Nodes : ChunksTyped(queue'[n])
  BY <1>1, MoveTyped DEF Moves
<1>3. restarts' \in 0..MaxRestarts
  BY StepRestarts DEF TypeInv
<1>4. \A i \in 1..Len(decided') : IsChunk(decided'[i])
  <2>1. CASE decided' = decided
    BY <2>1 DEF TypeInv
  <2>2. ASSUME NEW n \in Nodes, NEW v \in queue[n].chunks, decided' = Append(decided, v)
        PROVE  \A i \in 1..Len(decided') : IsChunk(decided'[i])
    <3>1. PICK s, t : s = decided /\ t = decided'
      OBVIOUS
    <3>2. IsSequence(s) /\ t = Append(s, v)
      BY <2>2, <3>1 DEF LedgerInv
    <3>3. Longer(s, v, t)
      BY <3>2, LongerSequence
    <3>4. /\ Len(s) \in Nat /\ Len(t) = Len(s) + 1 /\ t[Len(s) + 1] = v
          /\ \A i \in 1..Len(s) : t[i] = s[i]
      BY <3>3 DEF Longer
    <3>5. IsChunk(v) /\ \A i \in 1..Len(s) : IsChunk(s[i])
      BY <2>2, <3>1 DEF TypeInv, ChunksTyped
    <3> SUFFICES ASSUME NEW i \in 1..Len(t) PROVE IsChunk(t[i])
      BY <3>1
    <3>6. i = Len(s) + 1 \/ i \in 1..Len(s)
      BY <3>4
    <3> QED
      BY <3>4, <3>5, <3>6
  <2> QED
    BY <2>1, <2>2, StepDecides
<1> QED
  BY <1>1, <1>2, <1>3, <1>4 DEF TypeInv, Moves

\* They hold at first.
LEMMA TypeInit == Init => TypeInv
<1> SUFFICES ASSUME Init PROVE TypeInv
  OBVIOUS
<1>1. PICK q : q = NewOperationQueue(Genesis)
  OBVIOUS
<1>2. q.chunks = {} /\ q.oldChunks = <<>>
  BY <1>1 DEF NewOperationQueue
<1>3. queue = [n \in Nodes |-> q] /\ decided = <<>> /\ X = [n \in Nodes |-> {}] /\ restarts = 0
  BY <1>1 DEF Init
<1>4. ChunksTyped(q)
  BY <1>2, FS_EmptySet, SMT DEF ChunksTyped, OldTyped
<1>5. Nominees
  BY <1>2, <1>3 DEF Nominees
<1> QED
  BY <1>3, <1>4, <1>5, LedgerAssumption DEF TypeInv

\* They hold at all times.
LEMMA TypeInvariance == Spec => []TypeInv
BY TypeInit, TypeStep, LedgerInvariance, PTL DEF Spec

-------------------------------------------------------------------------------
(***************************************************************************)
(* "The sequence id of the last transaction authorized by this account":   *)
(* what an owner has signed is applied once each and in the order of its   *)
(* sequence numbers, for all nodes, quorum slices, limits and operations,  *)
(* as long as nobody sends to themselves and the numbers do not run out.   *)
(* Process sets the account of the target last, and with its old sequence  *)
(* number: without the first hypothesis an operation stays valid after it  *)
(* is applied.                                                             *)
(***************************************************************************)
THEOREM AppliedInOrder ==
    ASSUME ToOthers, Counted PROVE Spec => []SequenceIsLast
<1>1. LedgerInv /\ TypeInv => SequenceIsLast
  <2> SUFFICES ASSUME LedgerInv, TypeInv, NEW n \in Nodes, NEW o \in Owners
               PROVE  LET signed == {i \in 1..Len(Applied(n)) : Applied(n)[i].Signer = o}
                      IN /\ Sequence(n, o) = Cardinality(signed)
                         /\ \A i \in signed :
                              Applied(n)[i].Sequence = Cardinality({j \in signed : j <= i})
    BY DEF SequenceIsLast
  <2>1. GoodQueue(queue[n]) /\ OldTyped(queue[n])
    BY DEF LedgerInv, TypeInv, ChunksTyped
  <2>2. Ordered(queue[n].accounts, Applied(n), o)
    BY <2>1, AppliedOrdered
  <2>3. Sequence(n, o) = SequenceOf(queue[n].accounts, o)
    BY DEF Sequence, SequenceOf
  <2> QED
    BY <2>2, <2>3 DEF Ordered, SignedIn, UpTo
<1> QED
  BY <1>1, LedgerInvariance, TypeInvariance, PTL

(***************************************************************************)
(* The money that is not in an account has been paid as a fee, for all     *)
(* nodes, quorum slices, limits and operations, as long as nobody sends to *)
(* themselves and neither the cost of an operation nor all the money are   *)
(* more than a uint64 holds.  The code checks neither: Validate compares   *)
(* the balance with a cost that may have wrapped.                          *)
(***************************************************************************)
THEOREM NoMoneyMadeOrLost ==
    ASSUME ToOthers, CostsFit, MoneyFits PROVE Spec => []MoneyAccounted
<1>1. LedgerInv /\ TypeInv => MoneyAccounted
  <2> SUFFICES ASSUME LedgerInv, TypeInv, NEW n \in Nodes
               PROVE  SumFunction([o \in Owners |-> Balance(n, o)]) + Fees(n) = Money
    BY DEF MoneyAccounted
  <2>1. GoodQueue(queue[n]) /\ OldTyped(queue[n])
    BY DEF LedgerInv, TypeInv, ChunksTyped
  <2>2. Total(queue[n].accounts) + SumFunction(FeesOf(Applied(n))) = Money
    BY <2>1, AppliedBalanced
  <2>3. [o \in Owners |-> Balance(n, o)] = Purse(queue[n].accounts)
    BY DEF Balance, Purse, BalanceOf
  <2> QED
    BY <2>2, <2>3 DEF Total, Fees, FeesOf
<1> QED
  BY <1>1, LedgerInvariance, TypeInvariance, PTL

\* Nobody has more than all the money.
LEMMA BalanceBound ==
    ASSUME NEW m, Solvent(m)
    PROVE  m \in [Owners -> [Sequence : 0..SequenceRange-1, Balance : 0..Money] \cup {Nil}]
<1>1. m \in Maps /\ Total(m) <= Money /\ Money \in Nat
  BY MoneyTyped DEF Solvent
<1>2. PICK f : f = Purse(m)
  OBVIOUS
<1>3. /\ \A o \in Owners : f[o] = BalanceOf(m, o) /\ f[o] \in Nat
      /\ Total(m) = SumFunctionOnSet(f, Owners) /\ IsFiniteSet(Owners)
  BY <1>1, <1>2, PurseTyped
<1>4. ASSUME NEW o \in Owners
      PROVE  m[o] \in [Sequence : 0..SequenceRange-1, Balance : 0..Money] \cup {Nil}
  <2>1. SumFunctionOnSet(f, Owners) = f[o] + SumFunctionOnSet(f, Owners \ {o})
    BY <1>3, SumRemove
  <2>2. SumFunctionOnSet(f, Owners \ {o}) \in Nat
    <3>1. PICK r : r = Owners \ {o} /\ IsFiniteSet(r)
      BY <1>3, FS_Subset
    <3>2. \A x \in r : f[x] \in Nat
      BY <1>3, <3>1
    <3> QED
      BY <3>1, <3>2, SumRemove
  <2>3. f[o] \in 0..Money
    BY <1>1, <1>3, <2>1, <2>2
  <2>4. CASE m[o] = Nil
    BY <2>4
  <2>5. CASE m[o] # Nil
    <3>1. m[o] \in Accounts /\ m[o].Balance = f[o]
      BY <1>1, <1>3, <2>5 DEF Maps, BalanceOf
    <3> QED
      BY <2>3, <3>1 DEF Accounts
  <2> QED
    BY <2>4, <2>5
<1> QED
  BY <1>1, <1>4 DEF Maps

(***************************************************************************)
(* Every queue has operations, chunks of them, and accounts in which no    *)
(* balance is more than all the money, under the same hypotheses.          *)
(***************************************************************************)
THEOREM LedgerTypes ==
    ASSUME ToOthers, CostsFit, MoneyFits PROVE Spec => []TypeOK
<1>1. LedgerInv /\ TypeInv => TypeOK
  <2> SUFFICES ASSUME LedgerInv, TypeInv PROVE TypeOK
    OBVIOUS
  <2>1. ASSUME NEW n \in Nodes
        PROVE  /\ queue[n].set \subseteq Operations
               /\ \A c \in queue[n].chunks \cup Range(queue[n].oldChunks) : IsChunk(c)
               /\ queue[n].accounts \in
                    [Owners -> [Sequence : 0..SequenceRange-1, Balance : 0..Money] \cup {Nil}]
               /\ X[n] \subseteq queue[n].chunks
    <3>1. GoodQueue(queue[n]) /\ ChunksTyped(queue[n]) /\ OldTyped(queue[n])
      BY DEF LedgerInv, TypeInv, ChunksTyped
    <3>2. Solvent(queue[n].accounts)
      BY <3>1, AppliedBalanced
    <3>3. PICK s : s = queue[n].oldChunks
      OBVIOUS
    <3>4. \A c \in Range(s) : IsChunk(c)
      <4>1. PICK S : s \in Seq(S)
        BY <3>1, <3>3 DEF GoodQueue, IsSequence
      <4>2. Range(s) = {s[i] : i \in 1..Len(s)}
        BY <4>1, SMT DEF Range
      <4> QED
        BY <3>1, <3>3, <4>2 DEF OldTyped
    <3> QED
      BY <3>1, <3>2, <3>3, <3>4, BalanceBound DEF GoodQueue, ChunksTyped, TypeInv, Nominees
  <2>2. \A c \in Range(decided) : IsChunk(c)
    <3>1. PICK S : decided \in Seq(S)
      BY DEF LedgerInv, IsSequence
    <3>2. Range(decided) = {decided[i] : i \in 1..Len(decided)}
      BY <3>1, SMT DEF Range
    <3> QED
      BY <3>2 DEF TypeInv
  <2> QED
    BY <2>1, <2>2 DEF TypeOK, TypeInv
<1> QED
  BY <1>1, LedgerInvariance, TypeInvariance, PTL

-------------------------------------------------------------------------------
(***************************************************************************)
(* Chunks that can be finalized.                                           *)
(***************************************************************************)

\* No owner has two of the operations.
DistinctSigners(ops) == \A i, j \in 1..Len(ops) : ops[i].Signer = ops[j].Signer => i = j

\* Each of the operations is valid by itself.
EachValid(m, ops) == \A i \in 1..Len(ops) : Validate(m, ops[i])

\* A list without repetitions is no longer than a set that it is from.
LEMMA ListFits ==
    ASSUME NEW S, IsFiniteSet(S), Cardinality(S) <= MaxChunkSize, NEW ops \in Seq(Operations),
           \A i \in 1..Len(ops) : ops[i] \in S,
           \A i, j \in 1..Len(ops) : ops[i] = ops[j] => i = j
    PROVE  Len(ops) <= MaxChunkSize
<1>1. PICK N \in Nat : N = Len(ops)
  BY SMT
<1>2. PICK f : f = [i \in 1..N |-> ops[i]]
  OBVIOUS
<1>3. f \in [1..N -> S]
  BY <1>1, <1>2
<1>4. \A i, j \in 1..N : f[i] = f[j] => i = j
  BY <1>1, <1>2
<1>5. f \in Injection(1..N, S)
  BY <1>3, <1>4 DEF Injection, IsInjective
<1>6. Cardinality(1..N) <= Cardinality(S)
  BY <1>5, FS_Injection
<1>7. Cardinality(1..N) = N
  BY FS_Interval, SMT
<1>8. Cardinality(S) \in Nat /\ MaxChunkSize \in Nat
  BY FS_CardinalityType, AccountAssumption
<1> QED
  BY <1>1, <1>6, <1>7, <1>8, SMT

\* Maps are not Nil.
LEMMA MapsNotNil == ASSUME NEW m \in Maps PROVE m # Nil
BY AccountAssumption DEF Maps

\* Operations of different owners that are valid each by itself are valid one after
\* the other.
LEMMA AllRun ==
    ASSUME ToOthers, CostsFit, MoneyFits, NEW m, Solvent(m), NEW ops \in Seq(Operations),
           DistinctSigners(ops), EachValid(m, ops)
    PROVE  \E u : Runs(u, m, ops) /\ ProcessOperations(m, ops) = u[Len(ops)]
<1>1. m \in Maps
  BY DEF Solvent
<1>2. PICK u : Tries(u, m, ops) /\ ProcessOperations(m, ops) = u[Len(ops)]
  BY <1>1, OperationsTried
<1>3. PICK N \in Nat : N = Len(ops)
  OBVIOUS
<1>4. /\ u[0] = m
      /\ \A i \in 1..N :
           u[i] = IF u[i-1] # Nil /\ Validate(u[i-1], ops[i]) THEN Process(u[i-1], ops[i]) ELSE Nil
      /\ u = [i \in 0..N |-> u[i]]
  BY <1>2, <1>3 DEF Tries
<1> DEFINE Fine(i) == Solvent(u[i]) /\ \A j \in i+1..N : Validate(u[i], ops[j])
           S == {i \in Nat : i <= N => Fine(i)}
<1>5. 0 \in S
  BY <1>3, <1>4, SMT DEF EachValid
<1>6. \A i \in Nat : i \in S => i + 1 \in S
  <2> SUFFICES ASSUME NEW i \in Nat, i + 1 <= N, Fine(i) PROVE Fine(i + 1)
    <3> HIDE DEF Fine
    <3> QED
      OBVIOUS
  <2>1. i + 1 \in 1..N /\ (i + 1) - 1 = i /\ i + 1 \in i+1..N
    OBVIOUS
  <2>2. PICK t \in Operations : t = ops[i+1]
    BY <1>3, <2>1
  <2>3. Solvent(u[i]) /\ Validate(u[i], t) /\ u[i] \in Maps
    BY <2>1, <2>2 DEF Solvent
  <2>4. u[i] # Nil
    BY <2>3, MapsNotNil
  <2>5. u[i+1] = Process(u[i], t)
    BY <1>4, <2>1, <2>2, <2>3, <2>4
  <2>6. Solvent(Process(u[i], t)) /\ Transfer(u[i], t)
    BY <2>3, FeeTaken, SolventTransfer
  <2>7. ASSUME NEW j \in (i+1)+1..N PROVE Validate(u[i+1], ops[j])
    <3>1. PICK s \in Operations : s = ops[j]
      BY <1>3
    <3>2. j \in i+1..N /\ j \in 1..N /\ j # i + 1
      OBVIOUS
    <3>3. Validate(u[i], s)
      BY <3>1, <3>2
    <3>4. t.Signer # s.Signer
      BY <1>3, <2>1, <2>2, <3>1, <3>2 DEF DistinctSigners
    <3>5. Validate(Process(u[i], t), s)
      BY <2>3, <2>6, <3>3, <3>4, TransfersIndependent DEF Maps
    <3> QED
      BY <2>5, <3>1, <3>5
  <2> QED
    BY <2>5, <2>6, <2>7
<1>7. \A i \in 0..N : Fine(i)
  <2>1. Nat \subseteq S
    <3> HIDE DEF S
    <3> QED
      BY <1>5, <1>6, Induction
  <2> HIDE DEF Fine
  <2> QED
    BY <2>1
<1>8. u \in [0..N -> Maps]
  <2>1. \A i \in 0..N : u[i] \in Maps
    BY <1>7 DEF Solvent
  <2> QED
    BY <1>4, <2>1
<1>9. \A i \in 1..N : Validate(u[i-1], ops[i]) /\ u[i] = Process(u[i-1], ops[i])
  <2> SUFFICES ASSUME NEW i \in 1..N
               PROVE  Validate(u[i-1], ops[i]) /\ u[i] = Process(u[i-1], ops[i])
    OBVIOUS
  <2>1. i - 1 \in 0..N /\ i \in (i-1)+1..N
    OBVIOUS
  <2>2. Validate(u[i-1], ops[i]) /\ u[i-1] \in Maps
    BY <1>7, <1>8, <2>1
  <2>3. u[i-1] # Nil
    BY <2>2, MapsNotNil
  <2> QED
    BY <1>4, <2>2, <2>3
<1> QED
  BY <1>2, <1>3, <1>4, <1>8, <1>9 DEF Runs

\* The accounts stay within the money.
LEMMA RunSolvent ==
    ASSUME ToOthers, CostsFit, MoneyFits, NEW m, Solvent(m), NEW ops \in Seq(Operations),
           NEW u, Runs(u, m, ops), NEW k \in 0..Len(ops)
    PROVE  Solvent(u[k])
<1>1. PICK N \in Nat : N = Len(ops)
  OBVIOUS
<1>2. u[0] = m /\ \A i \in 1..N : Validate(u[i-1], ops[i]) /\ u[i] = Process(u[i-1], ops[i])
  BY <1>1 DEF Runs
<1> DEFINE S == {i \in Nat : i <= N => Solvent(u[i])}
<1>3. 0 \in S
  BY <1>2
<1>4. \A i \in Nat : i \in S => i + 1 \in S
  <2> SUFFICES ASSUME NEW i \in Nat, i + 1 <= N, Solvent(u[i]) PROVE Solvent(u[i+1])
    OBVIOUS
  <2>1. i + 1 \in 1..N /\ (i + 1) - 1 = i
    OBVIOUS
  <2>2. PICK t \in Operations : t = ops[i+1]
    BY <1>1, <2>1
  <2>3. Validate(u[i], t) /\ u[i+1] = Process(u[i], t)
    BY <1>2, <2>1, <2>2
  <2>4. Solvent(Process(u[i], t))
    BY <2>3, FeeTaken
  <2> QED
    BY <2>3, <2>4
<1>5. k \in S
  <2>1. k \in Nat
    OBVIOUS
  <2> HIDE DEF S
  <2> QED
    BY <1>3, <1>4, <2>1, Induction
<1> QED
  BY <1>1, <1>5

\* What an operation does to balances and sequence numbers.
LEMMA ProcessedBalances ==
    ASSUME ToOthers, CostsFit, MoneyFits, NEW m, Solvent(m), NEW t \in Operations, Validate(m, t),
           NEW after, after = Process(m, t)
    PROVE  /\ BalanceOf(after, t.Signer) = BalanceOf(m, t.Signer) - t.Amount - t.Fee
           /\ BalanceOf(after, t.To) = BalanceOf(m, t.To) + t.Amount
           /\ \A o \in Owners \ {t.Signer, t.To} : BalanceOf(after, o) = BalanceOf(m, o)
           /\ \A o \in Owners \ {t.Signer} : SequenceOf(after, o) = SequenceOf(m, o)
<1>1. m \in Maps /\ Transfer(m, t) /\ m[t.Signer] # Nil
  BY SolventTransfer DEF Solvent, Validate
<1>2. t.Signer \in Owners /\ t.To \in Owners /\ t.Signer # t.To
  BY OperationTyped DEF ToOthers
<1>3. /\ after[t.Signer] = [Sequence |-> t.Sequence,
                            Balance |-> m[t.Signer].Balance - t.Amount - t.Fee]
      /\ after[t.To] = [Sequence |-> IF m[t.To] = Nil THEN 0 ELSE m[t.To].Sequence,
                        Balance |-> BalanceOf(m, t.To) + t.Amount]
      /\ \A o \in Owners \ {t.Signer, t.To} : after[o] = m[o]
  BY <1>1, ProcessedAccounts DEF Maps
<1>4. after[t.Signer] \in Accounts /\ after[t.To] \in Accounts
  BY <1>1, ProcessTyped
<1>5. after[t.Signer] # Nil /\ after[t.To] # Nil
  BY <1>4, AccountAssumption
<1>6. BalanceOf(after, t.Signer) = BalanceOf(m, t.Signer) - t.Amount - t.Fee
  <2>1. PICK b : b = m[t.Signer].Balance - t.Amount - t.Fee
    OBVIOUS
  <2>2. after[t.Signer].Balance = b
    BY <1>3, <2>1, SMT
  <2>3. BalanceOf(after, t.Signer) = b /\ BalanceOf(m, t.Signer) = m[t.Signer].Balance
    BY <1>1, <1>5, <2>2 DEF BalanceOf
  <2> QED
    BY <2>1, <2>3
<1>7. BalanceOf(after, t.To) = BalanceOf(m, t.To) + t.Amount
  <2>1. PICK b : b = BalanceOf(m, t.To) + t.Amount
    OBVIOUS
  <2>2. after[t.To].Balance = b
    BY <1>3, <2>1, SMT
  <2>3. BalanceOf(after, t.To) = b
    BY <1>5, <2>2 DEF BalanceOf
  <2> QED
    BY <2>1, <2>3
<1>8. SequenceOf(after, t.To) = SequenceOf(m, t.To)
  <2>1. SequenceOf(after, t.To) = after[t.To].Sequence
    BY <1>5 DEF SequenceOf
  <2>2. after[t.To].Sequence = SequenceOf(m, t.To)
    BY <1>1, <1>2, ProcessTyped
  <2> QED
    BY <2>1, <2>2
<1>9. \A o \in Owners \ {t.Signer, t.To} :
        BalanceOf(after, o) = BalanceOf(m, o) /\ SequenceOf(after, o) = SequenceOf(m, o)
  BY <1>3 DEF BalanceOf, SequenceOf
<1> QED
  BY <1>6, <1>7, <1>8, <1>9

\* The accounts m and k have the same balances in D.
SameBalances(m, k, D) == \A o \in D : BalanceOf(m, o) = BalanceOf(k, o)

\* Balances that an operation makes the same were the same.
LEMMA SameBefore ==
    ASSUME ToOthers, CostsFit, MoneyFits, NEW m, Solvent(m), NEW k, Solvent(k),
           NEW t \in Operations, Validate(m, t), Validate(k, t),
           NEW D \in SUBSET Owners, t.Signer \in D, t.To \in D,
           SameBalances(Process(m, t), Process(k, t), D)
    PROVE  SameBalances(m, k, D)
<1>1. PICK a, b : a = Process(m, t) /\ b = Process(k, t)
  OBVIOUS
<1>2. m \in Maps /\ k \in Maps
  BY DEF Solvent
<1>3. \A o \in D : BalanceOf(m, o) \in Nat /\ BalanceOf(k, o) \in Nat
  BY <1>2, PurseTyped
<1>4. t.Amount \in Nat /\ t.Fee \in Nat
  BY OperationTyped
<1>5. /\ BalanceOf(a, t.Signer) = BalanceOf(m, t.Signer) - t.Amount - t.Fee
      /\ BalanceOf(a, t.To) = BalanceOf(m, t.To) + t.Amount
      /\ \A o \in Owners \ {t.Signer, t.To} : BalanceOf(a, o) = BalanceOf(m, o)
  BY <1>1, ProcessedBalances
<1>6. /\ BalanceOf(b, t.Signer) = BalanceOf(k, t.Signer) - t.Amount - t.Fee
      /\ BalanceOf(b, t.To) = BalanceOf(k, t.To) + t.Amount
      /\ \A o \in Owners \ {t.Signer, t.To} : BalanceOf(b, o) = BalanceOf(k, o)
  BY <1>1, ProcessedBalances
<1>7. \A o \in D : BalanceOf(a, o) = BalanceOf(b, o)
  BY <1>1 DEF SameBalances
<1>8. BalanceOf(m, t.Signer) = BalanceOf(k, t.Signer) /\ BalanceOf(m, t.To) = BalanceOf(k, t.To)
  BY <1>3, <1>4, <1>5, <1>6, <1>7
<1>9. \A o \in D \ {t.Signer, t.To} : BalanceOf(m, o) = BalanceOf(k, o)
  BY <1>5, <1>6, <1>7
<1> QED
  BY <1>8, <1>9 DEF SameBalances

\* Nor does a list of them.
LEMMA SameAtFirst ==
    ASSUME ToOthers, CostsFit, MoneyFits, NEW m, Solvent(m), NEW k, Solvent(k),
           NEW ops \in Seq(Operations), NEW u, Runs(u, m, ops), NEW v, Runs(v, k, ops),
           NEW D \in SUBSET Owners,
           \A i \in 1..Len(ops) : ops[i].Signer \in D /\ ops[i].To \in D,
           SameBalances(u[Len(ops)], v[Len(ops)], D)
    PROVE  SameBalances(m, k, D)
<1>1. PICK N \in Nat : N = Len(ops)
  OBVIOUS
<1>2. /\ u[0] = m /\ \A i \in 1..N : Validate(u[i-1], ops[i]) /\ u[i] = Process(u[i-1], ops[i])
      /\ v[0] = k /\ \A i \in 1..N : Validate(v[i-1], ops[i]) /\ v[i] = Process(v[i-1], ops[i])
  BY <1>1 DEF Runs
<1> DEFINE S == {i \in Nat : i <= N => SameBalances(u[N - i], v[N - i], D)}
<1>3. 0 \in S
  BY <1>1
<1>4. \A i \in Nat : i \in S => i + 1 \in S
  <2> SUFFICES ASSUME NEW i \in Nat, i + 1 <= N, SameBalances(u[N - i], v[N - i], D)
               PROVE  SameBalances(u[N - (i + 1)], v[N - (i + 1)], D)
    OBVIOUS
  <2>1. PICK j \in 1..N : j = N - i /\ j - 1 = N - (i + 1)
    OBVIOUS
  <2>2. PICK t \in Operations : t = ops[j] /\ t.Signer \in D /\ t.To \in D
    BY <1>1
  <2>3. j - 1 \in 0..N
    OBVIOUS
  <2>4. Solvent(u[j-1]) /\ Solvent(v[j-1])
    BY <1>1, <2>3, RunSolvent
  <2>5. /\ Validate(u[j-1], t) /\ u[j] = Process(u[j-1], t)
        /\ Validate(v[j-1], t) /\ v[j] = Process(v[j-1], t)
    BY <1>2, <2>2
  <2>6. SameBalances(Process(u[j-1], t), Process(v[j-1], t), D)
    BY <2>1, <2>5
  <2>7. SameBalances(u[j-1], v[j-1], D)
    BY <2>2, <2>4, <2>5, <2>6, SameBefore
  <2> QED
    BY <2>1, <2>7
<1>5. N \in S
  <2> HIDE DEF S
  <2> QED
    BY <1>3, <1>4, Induction
<1>6. SameBalances(u[N - N], v[N - N], D) /\ N - N = 0
  BY <1>5
<1> QED
  BY <1>2, <1>6

\* The chunk has operations of different owners that are each valid in the accounts m,
\* states the accounts of all that take part, and can be processed.
Proper(m, c) ==
    /\ Solvent(m)
    /\ c.Operations \in Seq(Operations)
    /\ DistinctSigners(c.Operations)
    /\ EachValid(m, c.Operations)
    /\ DOMAIN c.State \subseteq Owners
    /\ \A i \in 1..Len(c.Operations) :
         c.Operations[i].Signer \in DOMAIN c.State /\ c.Operations[i].To \in DOMAIN c.State
    /\ ValidateChunk(m, c)

\* It is so in some accounts.
Sound(c) == \E m : Proper(m, c)

\* The number of the last operation of an owner does not change before the owner's own.
LEMMA SequenceWaits ==
    ASSUME ToOthers, CostsFit, MoneyFits, NEW m, Solvent(m), NEW ops \in Seq(Operations),
           DistinctSigners(ops), NEW u, Runs(u, m, ops), NEW j \in 1..Len(ops)
    PROVE  SequenceOf(u[j-1], ops[j].Signer) = SequenceOf(m, ops[j].Signer)
<1>1. PICK N \in Nat : N = Len(ops)
  OBVIOUS
<1>2. u[0] = m /\ \A i \in 1..N : Validate(u[i-1], ops[i]) /\ u[i] = Process(u[i-1], ops[i])
  BY <1>1 DEF Runs
<1>3. PICK s \in Owners : s = ops[j].Signer
  BY OperationTyped
<1> DEFINE S == {i \in Nat : i < j => SequenceOf(u[i], s) = SequenceOf(m, s)}
<1>4. 0 \in S
  BY <1>2
<1>5. \A i \in Nat : i \in S => i + 1 \in S
  <2> SUFFICES ASSUME NEW i \in Nat, i + 1 < j, SequenceOf(u[i], s) = SequenceOf(m, s)
               PROVE  SequenceOf(u[i+1], s) = SequenceOf(m, s)
    OBVIOUS
  <2>1. i + 1 \in 1..N /\ (i + 1) - 1 = i /\ i \in 0..Len(ops) /\ i + 1 # j
    BY <1>1
  <2>2. PICK t \in Operations : t = ops[i+1]
    BY <1>1, <2>1
  <2>3. Validate(u[i], t) /\ u[i+1] = Process(u[i], t)
    BY <1>2, <2>1, <2>2
  <2>4. t.Signer # s
    BY <1>1, <1>3, <2>1, <2>2 DEF DistinctSigners
  <2>5. Solvent(u[i])
    BY <2>1, RunSolvent
  <2>6. \A o \in Owners \ {t.Signer} : SequenceOf(u[i+1], o) = SequenceOf(u[i], o)
    BY <2>3, <2>5, ProcessedBalances
  <2> QED
    BY <2>4, <2>6
<1>6. j - 1 \in S
  <2>1. j - 1 \in Nat
    OBVIOUS
  <2> HIDE DEF S
  <2> QED
    BY <1>4, <1>5, <2>1, Induction
<1> QED
  BY <1>3, <1>6

\* A chunk that is proper in some accounts is proper in all those in which it can be
\* processed: it states the balances afterwards, from which those before follow.
LEMMA ProperElsewhere ==
    ASSUME ToOthers, CostsFit, MoneyFits, CostSomething, NEW c, Sound(c),
           NEW m, Solvent(m), ValidateChunk(m, c)
    PROVE  Proper(m, c)
<1>1. PICK k : Proper(k, c)
  BY DEF Sound
<1>2. PICK ops \in Seq(Operations), D \in SUBSET Owners : ops = c.Operations /\ D = DOMAIN c.State
  BY <1>1 DEF Proper
<1>3. /\ Solvent(k) /\ DistinctSigners(ops) /\ EachValid(k, ops) /\ ValidateChunk(k, c)
      /\ \A i \in 1..Len(ops) : ops[i].Signer \in D /\ ops[i].To \in D
  BY <1>1, <1>2 DEF Proper
<1>4. m \in Maps /\ k \in Maps
  BY <1>3 DEF Solvent
<1>5. /\ ProcessOperations(m, ops) # Nil /\ \A o \in D : ProcessOperations(m, ops)[o] = c.State[o]
      /\ ProcessOperations(k, ops) # Nil /\ \A o \in D : ProcessOperations(k, ops)[o] = c.State[o]
  BY <1>2, <1>3, ChunkProcessed DEF ValidateChunk
<1>6. PICK u : Runs(u, m, ops) /\ ProcessOperations(m, ops) = u[Len(ops)]
  BY <1>4, <1>5, OperationsRun
<1>7. PICK v : Runs(v, k, ops) /\ ProcessOperations(k, ops) = v[Len(ops)]
  BY <1>4, <1>5, OperationsRun
<1>8. SameBalances(u[Len(ops)], v[Len(ops)], D)
  BY <1>5, <1>6, <1>7 DEF SameBalances, BalanceOf
<1>9. SameBalances(m, k, D)
  BY <1>3, <1>6, <1>7, <1>8, SameAtFirst
<1>10. ASSUME NEW i \in 1..Len(ops) PROVE Validate(m, ops[i])
  <2>1. PICK t \in Operations : t = ops[i]
    OBVIOUS
  <2>2. /\ t.Signer \in Owners /\ t.Signer \in D /\ t.Sequence \in Int
        /\ t.Amount \in Nat /\ t.Fee \in Nat /\ t.Amount + t.Fee > 0
    BY <1>3, <2>1, OperationTyped DEF CostSomething
  <2>3. k[t.Signer] # Nil /\ Cost(t) <= k[t.Signer].Balance /\ Cost(t) = t.Amount + t.Fee
    BY <1>3, <2>1, SolventTransfer DEF EachValid, Validate
  <2>4. BalanceOf(m, t.Signer) = BalanceOf(k, t.Signer) /\ BalanceOf(k, t.Signer) = k[t.Signer].Balance
    BY <1>9, <2>2, <2>3 DEF SameBalances, BalanceOf
  <2>5. BalanceOf(m, t.Signer) \in Nat
    BY <1>4, <2>2, PurseTyped
  <2>6. BalanceOf(m, t.Signer) # 0
    BY <2>2, <2>3, <2>4, <2>5
  <2>7. m[t.Signer] # Nil /\ m[t.Signer].Balance = BalanceOf(m, t.Signer)
    BY <2>6 DEF BalanceOf
  <2>8. SequenceOf(u[i-1], t.Signer) = SequenceOf(m, t.Signer)
    BY <1>3, <1>6, <2>1, SequenceWaits
  <2>9. Validate(u[i-1], t)
    BY <1>6, <2>1 DEF Runs
  <2>10. (m[t.Signer].Sequence + 1) % SequenceRange = t.Sequence
    <3>1. m[t.Signer].Sequence = SequenceOf(m, t.Signer)
      BY <2>7 DEF SequenceOf
    <3>2. u[i-1][t.Signer].Sequence = SequenceOf(u[i-1], t.Signer)
      BY <2>9 DEF SequenceOf, Validate
    <3> QED
      BY <2>8, <2>9, <3>1, <3>2 DEF Validate
  <2>11. Cost(t) <= m[t.Signer].Balance
    BY <2>3, <2>4, <2>7
  <2> QED
    BY <2>1, <2>7, <2>10, <2>11 DEF Validate
<1> QED
  BY <1>2, <1>3, <1>10 DEF Proper, EachValid

\* NewChunk processes all of a list whose operations are valid one after the other, and
\* fit in a chunk.
LEMMA AllLooked ==
    ASSUME NEW m \in Maps, NEW ops \in Seq(Operations), Len(ops) <= MaxChunkSize,
           NEW u, Runs(u, m, ops), NEW w, Builds(w, m, ops)
    PROVE  \A i \in 0..Len(ops) : w[i] = [accounts |-> u[i], validOps |-> i]
<1>1. PICK N \in Nat : N = Len(ops) /\ N <= MaxChunkSize
  OBVIOUS
<1>2. /\ u[0] = m /\ \A i \in 1..N : Validate(u[i-1], ops[i]) /\ u[i] = Process(u[i-1], ops[i])
      /\ w[0] = [accounts |-> m, validOps |-> 0] /\ \A i \in 1..N : w[i] = Looked(w[i-1], ops[i])
  BY <1>1 DEF Runs, Builds
<1> DEFINE S == {i \in Nat : i <= N => w[i] = [accounts |-> u[i], validOps |-> i]}
<1>3. 0 \in S
  BY <1>2
<1>4. \A i \in Nat : i \in S => i + 1 \in S
  <2> SUFFICES ASSUME NEW i \in Nat, i + 1 <= N, w[i] = [accounts |-> u[i], validOps |-> i]
               PROVE  w[i+1] = [accounts |-> u[i+1], validOps |-> i + 1]
    OBVIOUS
  <2>1. i + 1 \in 1..N /\ (i + 1) - 1 = i /\ i < MaxChunkSize
    BY <1>1, AccountAssumption
  <2>2. PICK b, t : b = w[i] /\ t = ops[i+1]
    OBVIOUS
  <2>3. b.accounts = u[i] /\ b.validOps = i
    BY <2>2
  <2>4. w[i+1] = Looked(b, t) /\ Validate(u[i], t) /\ u[i+1] = Process(u[i], t)
    BY <1>2, <2>1, <2>2
  <2>5. Looked(b, t) = [accounts |-> Process(b.accounts, t), validOps |-> b.validOps + 1]
    BY <2>1, <2>3, <2>4 DEF Looked
  <2> QED
    BY <2>3, <2>4, <2>5
<1>5. Nat \subseteq S
  <2> HIDE DEF S
  <2> QED
    BY <1>3, <1>4, Induction
<1> QED
  BY <1>1, <1>5, SMT

\* All that take part have an account afterwards.
LEMMA AllHaveAccounts ==
    ASSUME NEW m \in Maps, NEW ops \in Seq(Operations), NEW u, Runs(u, m, ops), NEW j \in 1..Len(ops)
    PROVE  u[Len(ops)][ops[j].Signer] # Nil /\ u[Len(ops)][ops[j].To] # Nil
<1>1. PICK N \in Nat : N = Len(ops)
  OBVIOUS
<1>2. /\ u \in [0..N -> Maps]
      /\ \A i \in 1..N : Validate(u[i-1], ops[i]) /\ u[i] = Process(u[i-1], ops[i])
  BY <1>1 DEF Runs
<1>3. PICK a, b : a = ops[j].Signer /\ b = ops[j].To
  OBVIOUS
<1>4. a \in Owners /\ b \in Owners
  BY <1>3, OperationTyped
<1> DEFINE S == {i \in Nat : j <= i /\ i <= N => u[i][a] # Nil /\ u[i][b] # Nil}
<1>5. 0 \in S
  OBVIOUS
<1>6. \A i \in Nat : i \in S => i + 1 \in S
  <2> SUFFICES ASSUME NEW i \in Nat, j <= i + 1, i + 1 <= N,
                      j <= i => u[i][a] # Nil /\ u[i][b] # Nil
               PROVE  u[i+1][a] # Nil /\ u[i+1][b] # Nil
    OBVIOUS
  <2>1. i + 1 \in 1..N /\ (i + 1) - 1 = i /\ i \in 0..N
    OBVIOUS
  <2>2. PICK t \in Operations : t = ops[i+1]
    BY <1>1, <2>1
  <2>3. Validate(u[i], t) /\ u[i+1] = Process(u[i], t) /\ u[i] \in Maps
    BY <1>2, <2>1, <2>2
  <2>4. /\ u[i+1][t.Signer] \in Accounts /\ u[i+1][t.To] \in Accounts
        /\ \A o \in Owners \ {t.Signer, t.To} : u[i+1][o] = u[i][o]
    BY <2>3, ProcessTyped, SMT
  <2>5. u[i+1][t.Signer] # Nil /\ u[i+1][t.To] # Nil
    BY <2>4, AccountAssumption
  <2>6. CASE j = i + 1
    BY <1>3, <2>2, <2>5, <2>6
  <2>7. CASE j <= i
    BY <1>4, <2>4, <2>5, <2>7
  <2> QED
    BY <2>6, <2>7
<1>7. N \in S
  <2> HIDE DEF S
  <2> QED
    BY <1>5, <1>6, Induction
<1> QED
  BY <1>1, <1>3, <1>7

\* The chunk that a node makes of operations of different owners that are valid each by
\* itself can be hashed and processed.
LEMMA OwnChunkProper ==
    ASSUME ToOthers, CostsFit, MoneyFits, NEW m, Solvent(m),
           NEW ops \in Seq(Operations), DistinctSigners(ops), EachValid(m, ops),
           Len(ops) <= MaxChunkSize
    PROVE  Hashable(ChunkOf(m, ops)) /\ Proper(m, ChunkOf(m, ops))
<1>1. PICK N \in Nat : N = Len(ops) /\ N <= MaxChunkSize
  OBVIOUS
<1>2. m \in Maps
  BY DEF Solvent
<1>3. PICK u : Runs(u, m, ops) /\ ProcessOperations(m, ops) = u[N]
  BY <1>1, AllRun
<1>4. PICK c : c = ChunkOf(m, ops)
  OBVIOUS
<1>5. PICK w : /\ Builds(w, m, ops)
               /\ c = [Operations |-> ops,
                       State |-> [o \in Mentioned(Seen(w, ops)) |-> w[Len(ops)].accounts[o]]]
  BY <1>2, <1>4, ChunkBuilt
<1>6. \A i \in 0..N : w[i].accounts = u[i] /\ w[i].validOps = i
  <2>1. \A i \in 0..N : w[i] = [accounts |-> u[i], validOps |-> i]
    BY <1>1, <1>2, <1>3, <1>5, AllLooked, SMT
  <2>2. ASSUME NEW i \in 0..N PROVE w[i].accounts = u[i] /\ w[i].validOps = i
    <3>1. PICK b, e : b = w[i] /\ e = u[i]
      OBVIOUS
    <3>2. b = [accounts |-> e, validOps |-> i]
      BY <2>1, <3>1
    <3> QED
      BY <3>1, <3>2, SMT
  <2> QED
    BY <2>2
<1>7. Seen(w, ops) = {ops[i] : i \in 1..N}
  <2>1. \A i \in 1..N : i - 1 \in 0..N /\ i - 1 < MaxChunkSize
    BY <1>1, AccountAssumption
  <2>2. \A i \in 1..N : w[i-1].validOps < MaxChunkSize
    BY <1>6, <2>1
  <2> QED
    BY <1>1, <2>2 DEF Seen
<1>8. PICK D, a : D = Mentioned(Seen(w, ops)) /\ a = w[Len(ops)].accounts
  OBVIOUS
<1>9. c.Operations = ops /\ c.State = [o \in D |-> a[o]]
  BY <1>5, <1>8
<1>10. a = u[N]
  <2>1. N \in 0..N
    OBVIOUS
  <2> QED
    BY <1>1, <1>6, <1>8, <2>1
<1>11. /\ \A o \in D : \E i \in 1..N : o = ops[i].Signer \/ o = ops[i].To
       /\ \A i \in 1..N : ops[i].Signer \in D /\ ops[i].To \in D
  BY <1>7, <1>8, SMT DEF Mentioned
<1>12. D \subseteq Owners
  <2>1. \A i \in 1..N : ops[i] \in Operations
    BY <1>1
  <2>2. \A i \in 1..N : ops[i].Signer \in Owners /\ ops[i].To \in Owners
    BY <2>1, OperationTyped, SMT
  <2> QED
    BY <1>11, <2>2, Zenon
<1>13. \A o \in D : a[o] # Nil
  BY <1>1, <1>2, <1>3, <1>10, <1>11, AllHaveAccounts, SMT
<1>14. u[N] # Nil
  <2>1. u[N] \in Maps
    BY <1>1, <1>3, SMT DEF Runs
  <2> QED
    BY <2>1, MapsNotNil
<1>15. DOMAIN c.State = D /\ \A o \in D : c.State[o] = a[o]
  BY <1>9
<1>16. ValidateChunk(m, c)
  <2>1. Len(c.Operations) <= MaxChunkSize /\ ProcessOperations(m, c.Operations) = a
    BY <1>1, <1>3, <1>9, <1>10
  <2>2. a # Nil /\ \A o \in DOMAIN c.State : a[o] = c.State[o]
    BY <1>10, <1>14, <1>15
  <2> QED
    BY <2>1, <2>2 DEF ValidateChunk, ProcessChunk
<1>17. Hashable(c)
  BY <1>13, <1>15 DEF Hashable
<1>18. Proper(m, c)
  BY <1>1, <1>9, <1>11, <1>12, <1>15, <1>16 DEF Proper
<1> QED
  BY <1>4, <1>17, <1>18

\* All chunks that a node has are sound, and it can finalize those of its slot.
SaneQueue(q) ==
    /\ ~q.failed
    /\ \A c \in q.chunks : Sound(c) /\ ValidateChunk(q.accounts, c)
    /\ \A i \in 1..Len(q.oldChunks) : Sound(q.oldChunks[i])

SaneInv == \A n \in Nodes : SaneQueue(queue[n])

\* A list that an orderly node makes a chunk of has operations of different owners,
\* each of them valid by itself, and not too many.
LEMMA ListsValid ==
    ASSUME ToOthers, CostsFit, MoneyFits, CostSomething,
           NEW q, GoodQueue(q), ChunksTyped(q), SaneQueue(q), Solvent(q.accounts),
           OrderlyQueue(q), NEW list \in Lists(q)
    PROVE  /\ list \in Seq(Operations) /\ DistinctSigners(list) /\ EachValid(q.accounts, list)
           /\ Len(list) <= MaxChunkSize
<1>1. PICK ops \in SUBSET Operations :
        /\ IsFiniteSet(ops) /\ list = Sorted(ops) /\ list \in Seq(Operations)
        /\ \/ ops = q.set
           \/ \A x \in ops : \E c \in q.chunks : \E i \in 1..Len(c.Operations) : x = c.Operations[i]
  BY ListsTyped
<1>2. PICK m : m = q.accounts
  OBVIOUS
<1>3. \A x \in ops : Validate(m, x)
  <2>1. CASE ops = q.set
    BY <1>2, <2>1 DEF GoodQueue
  <2>2. ASSUME NEW x, NEW c \in q.chunks, NEW i \in 1..Len(c.Operations), x = c.Operations[i]
        PROVE  Validate(m, x)
    <3>1. Sound(c) /\ ValidateChunk(m, c) /\ Solvent(m)
      BY <1>2 DEF SaneQueue
    <3>2. Proper(m, c)
      BY <3>1, ProperElsewhere
    <3> QED
      BY <2>2, <3>2 DEF Proper, EachValid
  <2> QED
    BY <1>1, <2>1, <2>2
<1>4. /\ \A i \in 1..Len(list) : list[i] \in ops
      /\ \A i, j \in 1..Len(list) : list[i] = list[j] => i = j
  BY <1>1, SortedIsList
<1>5. EachValid(m, list)
  BY <1>3, <1>4 DEF EachValid
<1>6. PICK S : S = AtHand(q)
  OBVIOUS
<1>7. \A x \in ops : x \in S
  <2>1. CASE ops = q.set
    BY <1>6, <2>1 DEF AtHand
  <2>2. ASSUME NEW x, NEW c \in q.chunks, NEW i \in 1..Len(c.Operations), x = c.Operations[i]
        PROVE  x \in S
    <3>1. Sound(c)
      BY DEF SaneQueue
    <3>2. c.Operations \in Seq(Operations)
      BY <3>1 DEF Sound, Proper
    <3>3. x \in Range(c.Operations)
      BY <2>2, <3>2 DEF Range
    <3> QED
      BY <1>6, <3>3 DEF AtHand
  <2> QED
    BY <1>1, <2>1, <2>2
<1>8. DistinctSigners(list)
  <2> SUFFICES ASSUME NEW i \in 1..Len(list), NEW j \in 1..Len(list), list[i].Signer = list[j].Signer
               PROVE  i = j
    BY DEF DistinctSigners
  <2>1. PICK x \in Operations, y \in Operations : x = list[i] /\ y = list[j]
    BY <1>4
  <2>2. Validate(m, x) /\ Validate(m, y) /\ x.Signer = y.Signer
    BY <1>3, <1>4, <2>1
  <2>3. x.Sequence = y.Sequence
    BY <2>2 DEF Validate
  <2>4. x \in S /\ y \in S
    BY <1>4, <1>7, <2>1
  <2>5. x = y
    BY <1>6, <2>2, <2>3, <2>4 DEF OrderlyQueue
  <2> QED
    BY <1>4, <2>1, <2>5
<1>9. Len(list) <= MaxChunkSize
  <2>1. IsFiniteSet(S) /\ Cardinality(S) <= MaxChunkSize
    BY <1>6 DEF OrderlyQueue
  <2>2. \A i \in 1..Len(list) : list[i] \in S
    BY <1>4, <1>7
  <2> QED
    BY <1>1, <1>4, <2>1, <2>2, ListFits
<1> QED
  BY <1>1, <1>2, <1>5, <1>8, <1>9

\* Whatever happens to a queue of an orderly network, it stays so.
LEMMA MoveSane ==
    ASSUME ToOthers, CostsFit, MoneyFits, CostSomething, Orderly,
           LedgerInv, TypeInv, SaneInv, NEW n \in Nodes, NEW r, Move(queue[n], r)
    PROVE  SaneQueue(r)
<1>1. PICK q : q = queue[n]
  OBVIOUS
<1>2. GoodQueue(q) /\ ChunksTyped(q) /\ SaneQueue(q)
  BY <1>1 DEF LedgerInv, TypeInv, SaneInv
<1>3. Solvent(q.accounts)
  <2>1. OldTyped(queue[n]) /\ GoodQueue(queue[n])
    BY <1>1, <1>2 DEF ChunksTyped
  <2> QED
    BY <1>1, <2>1, AppliedBalanced
<1>4. /\ ~q.failed
      /\ \A c \in q.chunks : Sound(c) /\ ValidateChunk(q.accounts, c)
      /\ \A i \in 1..Len(q.oldChunks) : Sound(q.oldChunks[i])
  BY <1>2 DEF SaneQueue
<1>5. CASE r = q
  BY <1>2, <1>5
<1>6. ASSUME NEW k \in Nodes, NEW cs \in Sent(queue[k]), Learns(q, r, cs) PROVE SaneQueue(r)
  <2>1. SaneQueue(queue[k])
    BY DEF SaneInv
  <2>2. \A c \in cs : Sound(c)
    <3>1. CASE cs = {}
      BY <3>1
    <3>2. CASE cs = queue[k].chunks
      BY <2>1, <3>2 DEF SaneQueue
    <3>3. ASSUME NEW i \in 1..Len(queue[k].oldChunks), cs = {queue[k].oldChunks[i]}
          PROVE  \A c \in cs : Sound(c)
      BY <2>1, <3>3 DEF SaneQueue
    <3> QED
      BY <3>1, <3>2, <3>3 DEF Sent
  <2>3. /\ r.accounts = q.accounts /\ r.oldChunks = q.oldChunks /\ r.failed = q.failed
        /\ r.chunks = q.chunks \cup {c \in cs : ValidateChunk(q.accounts, c)}
    BY <1>6 DEF Learns
  <2>4. \A c \in r.chunks : Sound(c) /\ ValidateChunk(r.accounts, c)
    BY <1>4, <2>2, <2>3
  <2> QED
    BY <1>4, <2>3, <2>4 DEF SaneQueue
<1>7. ASSUME NEW list \in Lists(q), Makes(q, r, list) PROVE SaneQueue(r)
  <2>1. /\ list \in Seq(Operations) /\ DistinctSigners(list) /\ EachValid(q.accounts, list)
        /\ Len(list) <= MaxChunkSize
    <3>1. OrderlyQueue(q)
      BY <1>1 DEF Orderly
    <3> QED
      BY <1>2, <1>3, <3>1, ListsValid
  <2>2. PICK c : c = ChunkOf(q.accounts, list)
    OBVIOUS
  <2>3. Hashable(c) /\ Proper(q.accounts, c)
    BY <1>3, <2>1, <2>2, OwnChunkProper
  <2>4. Sound(c) /\ ValidateChunk(q.accounts, c)
    BY <2>3 DEF Sound, Proper
  <2>5. /\ r.accounts = q.accounts /\ r.oldChunks = q.oldChunks
        /\ r.chunks = q.chunks \cup {c} /\ r.failed = q.failed
    BY <1>7, <2>2, <2>3 DEF Makes
  <2>6. \A x \in r.chunks : Sound(x) /\ ValidateChunk(r.accounts, x)
    BY <1>4, <2>4, <2>5
  <2> QED
    BY <1>4, <2>5, <2>6 DEF SaneQueue
<1>8. ASSUME NEW v \in q.chunks, Finishes(q, r, v) PROVE SaneQueue(r)
  <2>1. Sound(v) /\ ValidateChunk(q.accounts, v)
    BY <1>4
  <2>2. r.chunks = {} /\ r.oldChunks = Append(q.oldChunks, v) /\ r.failed = q.failed
    BY <1>8, <2>1 DEF Finishes
  <2>3. PICK s, t : s = q.oldChunks /\ t = r.oldChunks
    OBVIOUS
  <2>4. IsSequence(s) /\ t = Append(s, v)
    BY <1>2, <2>2, <2>3 DEF GoodQueue
  <2>5. Longer(s, v, t)
    BY <2>4, LongerSequence
  <2>6. /\ Len(s) \in Nat /\ Len(t) = Len(s) + 1 /\ t[Len(s) + 1] = v
        /\ \A i \in 1..Len(s) : t[i] = s[i]
    BY <2>5 DEF Longer
  <2>7. \A i \in 1..Len(s) : Sound(s[i])
    BY <1>4, <2>3
  <2>8. ASSUME NEW i \in 1..Len(t) PROVE Sound(t[i])
    <3>1. i = Len(s) + 1 \/ i \in 1..Len(s)
      BY <2>6
    <3> QED
      BY <2>1, <2>6, <2>7, <3>1
  <2> QED
    BY <1>4, <2>2, <2>3, <2>8 DEF SaneQueue
<1>9. CASE r = Fresh(q.accounts, q.oldChunks)
  <2>1. PICK no, none : no = FALSE /\ none = {}
    OBVIOUS
  <2>2. r.failed = no /\ r.chunks = none /\ r.oldChunks = q.oldChunks
    BY <1>9, <2>1 DEF Fresh
  <2> QED
    BY <1>4, <2>1, <2>2 DEF SaneQueue
<1> QED
  BY <1>1, <1>5, <1>6, <1>7, <1>8, <1>9 DEF Move

\* So is it in every step.
LEMMA SaneStep ==
    ASSUME ToOthers, CostsFit, MoneyFits, CostSomething
    PROVE  LedgerInv /\ TypeInv /\ SaneInv /\ Orderly /\ [Next]_vars => SaneInv'
<1> SUFFICES ASSUME LedgerInv, TypeInv, SaneInv, Orderly, [Next]_vars PROVE SaneInv'
  OBVIOUS
<1>1. Moves
  BY StepMoves DEF TypeInv
<1>2. \A n \in Nodes : SaneQueue(queue'[n])
  BY <1>1, MoveSane DEF Moves
<1> QED
  BY <1>2 DEF SaneInv, SaneQueue

\* And at first.
LEMMA SaneInit == Init => SaneInv
<1> SUFFICES ASSUME Init, NEW n \in Nodes PROVE SaneQueue(queue[n])
  BY DEF SaneInv
<1>1. PICK q, no, none : q = NewOperationQueue(Genesis) /\ no = FALSE /\ none = {}
  OBVIOUS
<1>2. q.chunks = none /\ q.oldChunks = <<>> /\ q.failed = no
  BY <1>1 DEF NewOperationQueue
<1>3. queue[n] = q
  BY <1>1 DEF Init
<1>4. \A i \in 1..Len(q.oldChunks) : Sound(q.oldChunks[i])
  BY <1>2
<1> QED
  BY <1>1, <1>2, <1>3, <1>4 DEF SaneQueue

(***************************************************************************)
(* What a panic takes.  A node panics "We could not validate a finalized   *)
(* chunk.", or over an account that does not exist in NewChunk, only if    *)
(* some node came to have, in its pool and its chunks, two operations of   *)
(* one owner with the same sequence number, or more than MaxChunkSize      *)
(* operations.  The code prevents neither: Add looks at an operation by    *)
(* itself, QueueLimit is ten times MaxChunkSize, and NewChunk puts all     *)
(* that it gets into the chunk.  Nothing else leads to a panic, for all    *)
(* nodes, quorum slices and limits.  Not restarts, and not that a chunk is *)
(* made by a node that is behind or ahead and learnt by another for the    *)
(* wrong slot: it states the accounts afterwards, so those before are      *)
(* known.  The hypotheses are about amounts: all operations move some      *)
(* money to somebody else, and nothing wraps.                              *)
(***************************************************************************)
THEOREM PanicsHaveCauses ==
    ASSUME ToOthers, CostsFit, MoneyFits, CostSomething
    PROVE  Spec => ([]Orderly => []NeverFails)
<1>1. SaneInv => NeverFails
  BY DEF SaneInv, SaneQueue, NeverFails
<1>2. Init => SaneInv
  BY SaneInit
<1>3. LedgerInv /\ TypeInv /\ SaneInv /\ Orderly /\ [Next]_vars => SaneInv'
  BY SaneStep
<1> QED
  BY <1>1, <1>2, <1>3, LedgerInvariance, TypeInvariance, PTL DEF Spec

===============================================================================
