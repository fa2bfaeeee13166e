---------------------------- MODULE BallotingProofs ----------------------------
(***************************************************************************)
(* The ballot protocol of a network: the types, that no Logger.Fatal is    *)
(* reached, that the nodes agree, and that Compare orders the messages of  *)
(* a node as they were sent.                                               *)
(*                                                                         *)
(* BallotNodeProofs has what each method of BallotState does to one state, *)
(* and to the votes of all nodes.  Here the methods are put together: the  *)
(* loops of Handle and the steps of the nodes.                             *)
(***************************************************************************)
EXTENDS Balloting, NetworkConfig, BallotNodeProofs, FiniteSetTheorems, WellFoundedInduction

\* Zenon is tried first: few steps need the theories of the SMT solver.
USE Zenon, SMT

-------------------------------------------------------------------------------
(***************************************************************************)
(* Induction over the natural numbers, for sets of numbers.                *)
(***************************************************************************)
LEMMA LeastNumber ==
    ASSUME NEW T \in SUBSET Nat, T # {}
    PROVE  \E n \in T : \A m \in T : n <= m
<1>1. PICK x \in T : \A y \in T : ~ (<<y, x>> \in OpToRel(<, Nat))
  BY NatLessThanWellFounded, WFMin
<1>2. \A y \in T : ~(y < x)
  BY <1>1 DEF OpToRel
<1> QED
  BY <1>2, SMT

\* Induction: a set of numbers with 0 and with the successor of each of its
\* numbers has them all.
LEMMA SetInduction ==
    ASSUME NEW S, 0 \in S, \A n \in Nat : n \in S => n + 1 \in S
    PROVE  Nat \subseteq S
<1> SUFFICES ASSUME Nat \ S # {} PROVE FALSE
  OBVIOUS
<1>1. PICK n \in Nat \ S : \A m \in Nat \ S : n <= m
  BY LeastNumber
<1> QED
  BY <1>1

\* A finite set of numbers has a bound.
LEMMA FiniteIsBounded ==
    ASSUME NEW S \in SUBSET Nat, IsFiniteSet(S)
    PROVE  \E u \in Nat : \A n \in S : n <= u
<1> DEFINE Bounded(T) == \E u \in Nat : \A n \in T : n <= u
           C == {k \in Nat : \A T \in SUBSET Nat :
                               IsFiniteSet(T) /\ Cardinality(T) = k => Bounded(T)}
<1>1. 0 \in C
  <2> SUFFICES ASSUME NEW T \in SUBSET Nat, IsFiniteSet(T), Cardinality(T) = 0
               PROVE  Bounded(T)
    OBVIOUS
  <2>1. T = {}
    BY FS_EmptySet
  <2> QED
    BY <2>1
<1>2. \A k \in Nat : k \in C => k + 1 \in C
  <2> SUFFICES ASSUME NEW k \in Nat, k \in C, NEW T \in SUBSET Nat,
                      IsFiniteSet(T), Cardinality(T) = k + 1
               PROVE  Bounded(T)
    <3> HIDE DEF Bounded
    <3> QED
      BY SMT
  <2>0. T # {}
    BY FS_EmptySet, SMT
  <2>1. PICK e : e \in T
    BY <2>0
  <2>2. /\ IsFiniteSet(T \ {e}) /\ Cardinality(T \ {e}) = k
        /\ T \ {e} \in SUBSET Nat /\ e \in Nat
    <3> HIDE DEF C
    <3>1. /\ IsFiniteSet(T \ {e})
          /\ Cardinality(T \ {e}) = Cardinality(T) - 1
      BY <2>1, FS_RemoveElement
    <3> QED
      BY <3>1, <2>1
  <2>3. PICK u \in Nat : \A n \in T \ {e} : n <= u
    BY <2>2
  <2>4. PICK w \in Nat : w = IF u < e THEN e ELSE u
    BY <2>2, <2>3
  <2>5. \A n \in T : n <= w
    BY <2>2, <2>3, <2>4
  <2> QED
    BY <2>5
<1>3. Cardinality(S) \in Nat
  BY FS_CardinalityType
<1>4. Cardinality(S) \in C
  <2> HIDE DEF C
  <2> QED
    BY <1>1, <1>2, <1>3, SetInduction
<1> QED
  BY <1>4

\* The ends of a finite set of ballot numbers are numbers.
LEMMA EndsAreNumbers ==
    ASSUME NEW S \in SUBSET Nat, IsFiniteSet(S)
    PROVE  Max0(S) \in Nat /\ Min0(S) \in Nat
<1>1. Min0(S) \in Nat
  <2>1. CASE S = {}
    BY <2>1 DEF Min0
  <2>2. CASE S # {}
    <3>1. PICK n \in S : \A m \in S : n <= m
      BY <2>2, LeastNumber
    <3>2. Min(S) \in S
      BY <3>1 DEF Min
    <3> QED
      BY <2>2, <3>2 DEF Min0
  <2> QED
    BY <2>1, <2>2
<1>2. Max0(S) \in Nat
  <2>1. PICK u \in Nat : \A n \in S : n <= u
    BY FiniteIsBounded
  <2> DEFINE T == S \cup {0}
             U == {w \in Nat : \A n \in T : n <= w}
  <2>2. U \in SUBSET Nat /\ u \in U
    BY <2>1
  <2>3. PICK w \in U : \A v \in U : w <= v
    <3> HIDE DEF U
    <3> QED
      BY <2>2, LeastNumber
  <2>4. w \in T
    <3> SUFFICES ASSUME w \notin T PROVE FALSE
      OBVIOUS
    <3>1. w > 0 /\ w - 1 \in Nat /\ \A n \in T : n <= w - 1
      OBVIOUS
    <3> QED
      BY <3>1, <2>3, SMT
  <2>5. w \in T /\ \A n \in T : w >= n
    BY <2>3, <2>4
  <2>6. Max(T) \in T
    <3> HIDE DEF T
    <3> QED
      BY <2>5 DEF Max
  <2> QED
    <3>1. T \subseteq Nat /\ Max0(S) = Max(T)
      BY SMT DEF Max0
    <3> QED
      BY <3>1, <2>6
<1> QED
  BY <1>1, <1>2

-------------------------------------------------------------------------------
(***************************************************************************)
(* The ballot numbers a node looks at.                                     *)
(***************************************************************************)
LEMMA ImageIsFinite ==
    ASSUME NEW I, IsFiniteSet(I), NEW f
    PROVE  IsFiniteSet({f[i] : i \in I})
<1> DEFINE T == {f[i] : i \in I}
           g == [i \in I |-> f[i]]
<1>1. g \in Surjection(I, T)
  BY DEF Surjection
<1> HIDE DEF T, g
<1>2. IsFiniteSet(T)
  BY <1>1, FS_Surjection
<1> QED
  BY <1>2 DEF T

\* The sets of numbers that messages mention are finite.
LEMMA FewAreFinite ==
    ASSUME NEW a, NEW b, NEW c, NEW d, NEW e
    PROVE  IsFiniteSet({a, b, c, d, e})
<1>1. IsFiniteSet({a}) /\ IsFiniteSet({a} \cup {b})
  BY FS_Singleton, FS_AddElement
<1>2. IsFiniteSet(({a} \cup {b}) \cup {c})
  BY <1>1, FS_AddElement
<1>3. IsFiniteSet((({a} \cup {b}) \cup {c}) \cup {d})
  BY <1>2, FS_AddElement
<1>4. IsFiniteSet(((({a} \cup {b}) \cup {c}) \cup {d}) \cup {e})
  BY <1>3, FS_AddElement
<1>5. ((({a} \cup {b}) \cup {c}) \cup {d}) \cup {e} = {a, b, c, d, e}
  OBVIOUS
<1> QED
  BY <1>4, <1>5

\* The numbers of a message.
LEMMA MessageNumbers ==
    ASSUME NEW m \in Messages, NEW x
    PROVE  /\ RelevantNumbers(m, x) \in SUBSET Nat
           /\ IsFiniteSet(RelevantNumbers(m, x))
           /\ MaxN(m) \in Nat
<1>1. CASE m \in PrepareMessages
  <2>1. /\ m.type = "Prepare"
        /\ m.Bn \in Nat /\ m.Cn \in Nat /\ m.Hn \in Nat /\ m.Pn \in Nat /\ m.Ppn \in Nat
    BY <1>1 DEF PrepareMessages
  <2> DEFINE S == {m.Bn, m.Cn, m.Hn, m.Pn, m.Ppn}
  <2>2. S \in SUBSET Nat /\ IsFiniteSet(S)
    BY <2>1, FewAreFinite, ZenonT(60)
  <2>3. RelevantNumbers(m, x) \in SUBSET S
    BY <2>1 DEF RelevantNumbers
  <2>4. MaxN(m) = Max0(S)
    BY <2>1 DEF MaxN
  <2> HIDE DEF S
  <2> QED
    BY <2>2, <2>3, <2>4, FS_Subset, EndsAreNumbers
<1>2. CASE m \in ConfirmMessages
  <2>1. m.type = "Confirm" /\ m.Cn \in Nat /\ m.Hn \in Nat /\ m.Pn \in Nat
    BY <1>2 DEF ConfirmMessages
  <2> DEFINE S == {m.Pn, m.Cn, m.Hn, m.Hn, m.Hn}
  <2>2. S \in SUBSET Nat /\ IsFiniteSet(S) /\ S = {m.Pn, m.Cn, m.Hn}
    BY <2>1, FewAreFinite
  <2>3. RelevantNumbers(m, x) \in SUBSET S
    BY <2>1 DEF RelevantNumbers
  <2>4. MaxN(m) = Max0(S)
    BY <2>1, <2>2 DEF MaxN
  <2> HIDE DEF S
  <2> QED
    BY <2>2, <2>3, <2>4, FS_Subset, EndsAreNumbers
<1>3. CASE m \in ExternalizeMessages
  <2>1. m.type = "Externalize" /\ m.Cn \in Nat /\ m.Hn \in Nat
    BY <1>3 DEF ExternalizeMessages
  <2> DEFINE S == {m.Cn, m.Hn, m.Hn, m.Hn, m.Hn}
  <2>2. S \in SUBSET Nat /\ IsFiniteSet(S)
    BY <2>1, FewAreFinite
  <2>3. RelevantNumbers(m, x) \in SUBSET S
    BY <2>1 DEF RelevantNumbers
  <2>4. MaxN(m) \in Nat
    BY <2>1 DEF MaxN
  <2> HIDE DEF S
  <2> QED
    BY <2>2, <2>3, <2>4, FS_Subset
<1> QED
  BY <1>1, <1>2, <1>3 DEF Messages

\* The range that InvestigateValue walks through has numbers for its ends.
LEMMA RangeIsNumbers ==
    ASSUME NEW s \in BallotStates, NEW x
    PROVE  /\ RelevantRange(s, x).min \in Nat
           /\ RelevantRange(s, x).max \in Nat
           /\ MaxActionableBallotNumber(s) \in Nat
<1>1. /\ Heard(s) \in SUBSET Nodes /\ IsFiniteSet(Heard(s))
      /\ \A n \in Heard(s) : s.M[n] \in Messages
  <2>1. Heard(s) \in SUBSET Nodes /\ IsFiniteSet(Nodes)
    BY SliceAssumption DEF Heard
  <2>2. IsFiniteSet(Heard(s))
    BY <2>1, FS_Subset
  <2> QED
    BY <2>1, <2>2 DEF BallotStates, Heard
<1>2. PICK f : f = [n \in Heard(s) |-> RelevantNumbers(s.M[n], x)]
  OBVIOUS
<1>3. PICK g : g = [n \in Heard(s) |-> MaxN(s.M[n])]
  OBVIOUS
<1>4. PICK N : N = UNION {f[n] : n \in Heard(s)}
  OBVIOUS
<1>5. N \in SUBSET Nat /\ IsFiniteSet(N)
  <2>1. \A n \in Heard(s) : f[n] \in SUBSET Nat /\ IsFiniteSet(f[n])
    BY <1>1, <1>2, MessageNumbers
  <2>2. IsFiniteSet({f[n] : n \in Heard(s)})
    BY <1>1, ImageIsFinite
  <2>3. IsFiniteSet(N)
    BY <2>1, <2>2, <1>4, FS_UNION
  <2> QED
    BY <2>1, <2>3, <1>4
<1>6. N = UNION {RelevantNumbers(s.M[n], x) : n \in Heard(s)}
  BY <1>2, <1>4
<1>7. RelevantRange(s, x) = [min |-> Min0(N), max |-> Max0(N)]
  BY <1>6 DEF RelevantRange
<1>8. PICK K : K = {g[n] : n \in Heard(s)}
  OBVIOUS
<1>9. K \in SUBSET Nat /\ IsFiniteSet(K)
  BY <1>1, <1>3, <1>8, ImageIsFinite, MessageNumbers, SMT
<1>10. K = {MaxN(s.M[n]) : n \in Heard(s)}
  BY <1>3, <1>8
<1>11. PICK A \in SUBSET K : MaxActionableBallotNumber(s) = Max0(A)
  BY <1>10 DEF MaxActionableBallotNumber
<1>12. A \in SUBSET Nat /\ IsFiniteSet(A)
  BY <1>9, FS_Subset
<1> QED
  BY <1>5, <1>7, <1>11, <1>12, EndsAreNumbers, SMT

-------------------------------------------------------------------------------
(***************************************************************************)
(* The loops.  A set R of states that the body of a loop does not leave is *)
(* not left by the loop.                                                   *)
(***************************************************************************)

\* f is what a loop from lo to hi computes: G is the body, s the state before.
Walk(f, G, s, lo, hi) ==
    f = [i \in lo..hi |-> G[<<IF i > lo THEN f[i-1] ELSE s, i>>]]

\* That function exists.
LEMMA WalkExists ==
    ASSUME NEW R, NEW s \in R, NEW lo \in Int, NEW hi \in Int, lo <= hi,
           NEW G \in [R \X (lo..hi) -> R]
    PROVE  \E f \in [lo..hi -> R] : Walk(f, G, s, lo, hi)
<1> DEFINE Rec(f, h) == /\ f \in [lo..h -> R]
                        /\ f = [i \in lo..h |-> G[<<IF i > lo THEN f[i-1] ELSE s, i>>]]
           S == {k \in Nat : lo + k <= hi => \E f : Rec(f, lo + k)}
<1>0. \A t \in R, i \in lo..hi : G[<<t, i>>] \in R
  OBVIOUS
<1>1. 0 \in S
  <2>1. Rec([i \in lo..lo |-> G[<<s, i>>]], lo)
    BY <1>0
  <2> QED
    <3> HIDE DEF Rec
    <3>1. lo + 0 = lo
      OBVIOUS
    <3> QED
      BY <2>1, <3>1
<1>2. \A k \in Nat : k \in S => k + 1 \in S
  <2> SUFFICES ASSUME NEW k \in Nat, k \in S, lo + (k + 1) <= hi
               PROVE  \E f : Rec(f, lo + (k + 1))
    BY SMTT(30)
  <2>1. PICK f : Rec(f, lo + k)
    BY SMT
  <2>2. PICK h \in Int : h = lo + k
    BY SMT
  <2>3. h + 1 = lo + (k + 1) /\ lo <= h /\ h + 1 \in lo..hi
    BY <2>2, SMT
  <2>4. PICK g : g = [i \in lo..(h+1) |-> IF i = h + 1 THEN G[<<f[h], i>>] ELSE f[i]]
    OBVIOUS
  <2>5. f \in [lo..h -> R] /\ f[h] \in R /\ G[<<f[h], h + 1>>] \in R
    BY <1>0, <2>1, <2>2, <2>3, SMT
  <2>6. g \in [lo..(h+1) -> R]
    BY <2>3, <2>4, <2>5, SMT
  <2>7. \A i \in lo..(h+1) : g[i] = G[<<IF i > lo THEN g[i-1] ELSE s, i>>]
    <3> SUFFICES ASSUME NEW i \in lo..(h+1)
                 PROVE  g[i] = G[<<IF i > lo THEN g[i-1] ELSE s, i>>]
      OBVIOUS
    <3>1. CASE i = h + 1
      BY <3>1, <2>3, <2>4, SMT
    <3>2. CASE i # h + 1
      <4>1. i \in lo..h /\ g[i] = f[i] /\ (i > lo => g[i-1] = f[i-1])
        BY <3>2, <2>3, <2>4, SMT
      <4>2. f[i] = G[<<IF i > lo THEN f[i-1] ELSE s, i>>]
        BY <4>1, <2>1, <2>2
      <4> QED
        BY <4>1, <4>2
    <3> QED
      BY <3>1, <3>2
  <2>8. Rec(g, h + 1)
    BY <2>6, <2>7
  <2> QED
    BY <2>8, <2>3
<1>3. hi - lo \in S
  <2> HIDE DEF S
  <2> QED
    BY <1>1, <1>2, SetInduction, SMT
<1>4. PICK f : Rec(f, lo + (hi - lo))
  BY <1>3, SMT
<1>5. lo + (hi - lo) = hi
  OBVIOUS
<1> QED
  BY <1>4, <1>5 DEF Walk

\* Each round of g stays in R when it starts there.
Stays(g, R, s, lo, hi) ==
    \A i \in lo..hi : (IF i > lo THEN g[i-1] ELSE s) \in R => g[i] \in R

\* Then so does the whole loop.
LEMMA WalkStays ==
    ASSUME NEW R, NEW s \in R, NEW lo \in Int, NEW hi \in Int, lo <= hi,
           NEW g, Stays(g, R, s, lo, hi)
    PROVE  g[hi] \in R
<1>0. \A i \in lo..hi : (IF i > lo THEN g[i-1] ELSE s) \in R => g[i] \in R
  BY DEF Stays
<1> DEFINE S == {k \in Nat : lo + k <= hi => g[lo + k] \in R}
<1>1. 0 \in S
  BY <1>0
<1>2. \A k \in Nat : k \in S => k + 1 \in S
  <2> SUFFICES ASSUME NEW k \in Nat, k \in S, lo + (k + 1) <= hi
               PROVE  g[lo + (k + 1)] \in R
    OBVIOUS
  <2>1. lo + (k + 1) \in lo..hi /\ lo + (k + 1) > lo /\ (lo + (k + 1)) - 1 = lo + k
    OBVIOUS
  <2> QED
    BY <2>1, <1>0
<1>3. hi - lo \in S
  <2> HIDE DEF S
  <2> QED
    BY <1>1, <1>2, SetInduction, SMT
<1> QED
  BY <1>3

\* InvestigateValue: the body is InvestigateBallot for one value.
LEMMA InvestigateValueStays ==
    ASSUME NEW R \in SUBSET BallotStates, NEW s \in R, NEW x,
           \A t \in R, n \in Nat : InvestigateBallot(t, n, x) \in R
    PROVE  InvestigateValue(s, x) \in R
<1> DEFINE range == RelevantRange(s, x)
           top == MaxActionableBallotNumber(s)
           max == IF range.max > top THEN top ELSE range.max
           last == IF range.min <= max THEN max + 1 ELSE range.min
           Number(t, i) == IF i < last THEN i ELSE IF i <= t.b.n THEN t.b.n ELSE 0
           Body(t, i) == InvestigateBallot(t, Number(t, i), x)
           G == [q \in R \X (range.min..last) |-> Body(q[1], q[2])]
<1>1. range.min \in Nat /\ last \in Nat /\ range.min <= last
  BY RangeIsNumbers, SMT
<1> HIDE DEF range, last
<1>2. \A t \in R, i \in range.min..last : Number(t, i) \in Nat
  <2> SUFFICES ASSUME NEW t \in R, NEW i \in range.min..last
               PROVE  Number(t, i) \in Nat
    OBVIOUS
  <2>1. t \in BallotStates
    OBVIOUS
  <2>2. t.b \in Ballots \cup {NoBallot}
    BY <2>1 DEF BallotStates
  <2>3. t.b.n \in Nat
    BY <2>2 DEF Ballots, NoBallot
  <2> QED
    BY <1>1, <2>3, SMT
<1>3. \A t \in R, i \in range.min..last : Body(t, i) \in R
  <2> HIDE DEF Number
  <2> QED
    BY <1>2
<1> HIDE DEF Body
<1>4. G \in [R \X (range.min..last) -> R]
  BY <1>3
<1>5. PICK f \in [range.min..last -> R] : Walk(f, G, s, range.min, last)
  <2> HIDE DEF G
  <2>1. range.min \in Int /\ last \in Int /\ range.min <= last
    BY <1>1, SMT
  <2> QED
    BY <2>1, <1>4, WalkExists
<1>6. \A i \in range.min..last :
        f[i] = Body(IF i > range.min THEN f[i-1] ELSE s, i)
  <2> SUFFICES ASSUME NEW i \in range.min..last
               PROVE  f[i] = Body(IF i > range.min THEN f[i-1] ELSE s, i)
    OBVIOUS
  <2>1. (IF i > range.min THEN f[i-1] ELSE s) \in R
    BY <1>1, SMT
  <2>2. f[i] = G[<<IF i > range.min THEN f[i-1] ELSE s, i>>]
    BY <1>5 DEF Walk
  <2> QED
    BY <2>1, <2>2
<1>7. f = [i \in range.min..last |-> Body(IF i > range.min THEN f[i-1] ELSE s, i)]
  BY <1>6
<1> DEFINE g == CHOOSE u : u = [i \in range.min..last |->
                                 Body(IF i > range.min THEN u[i-1] ELSE s, i)]
<1>8. g = [i \in range.min..last |-> Body(IF i > range.min THEN g[i-1] ELSE s, i)]
  BY <1>7
<1>9. InvestigateValue(s, x) = g[last]
  BY DEF InvestigateValue, Body, range, last
<1> HIDE DEF g
<1>10. Stays(g, R, s, range.min, last)
  BY <1>3, <1>8 DEF Stays
<1>11. range.min \in Int /\ last \in Int /\ range.min <= last
  BY <1>1, SMT
<1>12. g[last] \in R
  BY <1>10, <1>11, WalkStays
<1> QED
  BY <1>9, <1>12

\* The values of a message are slot values, with no empty one among them.
LEMMA ValuesOfMessage ==
    ASSUME NEW m \in Messages
    PROVE  /\ Len(ValuesOf(m)) \in Nat
           /\ \A i \in 1..Len(ValuesOf(m)) : ValuesOf(m)[i] \in Values
<1>1. CASE m.type # "Prepare"
  <2>1. m.X \in Values
    BY <1>1 DEF Messages, PrepareMessages, ConfirmMessages, ExternalizeMessages
  <2>2. ValuesOf(m) = <<m.X>>
    BY <1>1 DEF ValuesOf
  <2> QED
    BY <2>1, <2>2
<1>2. CASE m.type = "Prepare"
  <2>1. m.Bx \in Values /\ m.Px \in Values \cup {Nil} /\ m.Ppx \in Values \cup {Nil}
    BY <1>2 DEF Messages, PrepareMessages, ConfirmMessages, ExternalizeMessages, SlotValues
  <2>2. PICK p : p = IF m.Px \in {m.Bx, Nil} THEN <<>> ELSE <<m.Px>>
    OBVIOUS
  <2>3. PICK q : q = IF m.Ppx \in {m.Bx, m.Px, Nil} THEN <<>> ELSE <<m.Ppx>>
    OBVIOUS
  <2>4. p \in Seq(Values) /\ q \in Seq(Values) /\ <<m.Bx>> \in Seq(Values)
    BY <2>1, <2>2, <2>3
  <2>5. ValuesOf(m) = (<<m.Bx>> \o p) \o q
    BY <1>2, <2>2, <2>3 DEF ValuesOf
  <2>6. ValuesOf(m) \in Seq(Values)
    BY <2>4, <2>5
  <2> QED
    BY <2>6
<1> QED
  BY <1>1, <1>2

\* InvestigateMessage: the body is InvestigateValue for each value.
LEMMA InvestigateMessageStays ==
    ASSUME NEW R \in SUBSET BallotStates, NEW s \in R, NEW m \in Messages,
           \A t \in R, n \in Nat, x \in Values : InvestigateBallot(t, n, x) \in R
    PROVE  InvestigateMessage(s, m) \in R
<1> DEFINE values == ValuesOf(m)
           len == Len(values)
           Body(t, i) == IF i = 0 THEN s ELSE InvestigateValue(t, values[i])
           G == [q \in R \X (0..len) |-> Body(q[1], q[2])]
<1>1. len \in Nat /\ 0 \in Int /\ len \in Int /\ 0 <= len
  BY ValuesOfMessage
<1>2. \A t \in R, i \in 0..len : Body(t, i) \in R
  BY <1>1, ValuesOfMessage, InvestigateValueStays, SMT
<1> HIDE DEF values, len, Body
<1>3. G \in [R \X (0..len) -> R]
  BY <1>2
<1>4. PICK f \in [0..len -> R] : Walk(f, G, s, 0, len)
  <2> HIDE DEF G
  <2> QED
    BY <1>1, <1>3, WalkExists
<1>5. \A i \in 0..len : f[i] = Body(IF i > 0 THEN f[i-1] ELSE s, i)
  <2> SUFFICES ASSUME NEW i \in 0..len
               PROVE  f[i] = Body(IF i > 0 THEN f[i-1] ELSE s, i)
    OBVIOUS
  <2>1. (IF i > 0 THEN f[i-1] ELSE s) \in R
    BY <1>1, SMT
  <2>2. f[i] = G[<<IF i > 0 THEN f[i-1] ELSE s, i>>]
    BY <1>4 DEF Walk
  <2> QED
    BY <2>1, <2>2
<1>6. \A i \in 0..len : f[i] = IF i = 0 THEN s ELSE InvestigateValue(f[i-1], values[i])
  BY <1>1, <1>5 DEF Body
<1>7. f = [i \in 0..len |-> IF i = 0 THEN s ELSE InvestigateValue(f[i-1], values[i])]
  BY <1>6
<1> DEFINE g == CHOOSE u : u = [i \in 0..len |-> IF i = 0 THEN s
                                  ELSE InvestigateValue(u[i-1], values[i])]
<1>8. g = [i \in 0..len |-> IF i = 0 THEN s ELSE InvestigateValue(g[i-1], values[i])]
  BY <1>7
<1>9. InvestigateMessage(s, m) = g[len]
  BY DEF InvestigateMessage, values, len
<1> HIDE DEF g
<1>10. Stays(g, R, s, 0, len)
  <2>1. \A t \in R, i \in 0..len : i # 0 => InvestigateValue(t, values[i]) \in R
    BY <1>2 DEF Body
  <2> QED
    BY <1>1, <1>8, <2>1, SMT DEF Stays
<1>11. g[len] \in R
  BY <1>1, <1>10, WalkStays
<1> QED
  BY <1>9, <1>11

\* The loop of Handle: while the ballot is blocked, the next one is tried.
LEMMA LeaveBlockedBallotsStays ==
    ASSUME NEW R \in SUBSET BallotStates, NEW s \in R, NEW m \in Messages, NEW cand,
           NEW rounds \in Nat,
           \A t \in R, n \in Nat, x \in Values : InvestigateBallot(t, n, x) \in R,
           \A t \in R : BallotBlocked(t, cand) => GoToNextBallot(t, cand) \in R
    PROVE  LeaveBlockedBallots(s, m, cand, rounds) \in R
<1> DEFINE Round(t) == IF BallotBlocked(t, cand)
                       THEN InvestigateMessage(GoToNextBallot(t, cand), m) ELSE t
           Body(t, i) == IF i = 0 THEN s ELSE Round(t)
           G == [q \in R \X (0..rounds) |-> Body(q[1], q[2])]
<1>1. 0 \in Int /\ rounds \in Int /\ 0 <= rounds
  BY SMT
<1>2. \A t \in R : Round(t) \in R
  BY InvestigateMessageStays
<1> HIDE DEF Round
<1>3. \A t \in R, i \in 0..rounds : Body(t, i) \in R
  BY <1>2
<1> HIDE DEF Body
<1>4. G \in [R \X (0..rounds) -> R]
  BY <1>3
<1>5. PICK f \in [0..rounds -> R] : Walk(f, G, s, 0, rounds)
  <2> HIDE DEF G
  <2> QED
    BY <1>1, <1>4, WalkExists
<1>6. \A i \in 0..rounds : f[i] = Body(IF i > 0 THEN f[i-1] ELSE s, i)
  <2> SUFFICES ASSUME NEW i \in 0..rounds
               PROVE  f[i] = Body(IF i > 0 THEN f[i-1] ELSE s, i)
    OBVIOUS
  <2>1. (IF i > 0 THEN f[i-1] ELSE s) \in R
    BY <1>1, SMT
  <2>2. f[i] = G[<<IF i > 0 THEN f[i-1] ELSE s, i>>]
    BY <1>5 DEF Walk
  <2> QED
    BY <2>1, <2>2
<1>7. f = [i \in 0..rounds |-> IF i = 0 THEN s ELSE Round(f[i-1])]
  <2>1. \A i \in 0..rounds : f[i] = IF i = 0 THEN s ELSE Round(f[i-1])
    BY <1>1, <1>6, SMT DEF Body
  <2> QED
    BY <2>1
<1> DEFINE g == CHOOSE u : u = [i \in 0..rounds |-> IF i = 0 THEN s ELSE Round(u[i-1])]
<1>8. g = [i \in 0..rounds |-> IF i = 0 THEN s ELSE Round(g[i-1])]
  BY <1>7
<1>9. LeaveBlockedBallots(s, m, cand, rounds) = g[rounds]
  BY DEF LeaveBlockedBallots, Round
<1> HIDE DEF g
<1>10. Stays(g, R, s, 0, rounds)
  BY <1>1, <1>2, <1>8, SMT DEF Stays
<1>11. g[rounds] \in R
  BY <1>1, <1>10, WalkStays
<1> QED
  BY <1>9, <1>11

\* The states that Handle and AssertValid lead to.
LEMMA OutcomesStay ==
    ASSUME NEW R \in SUBSET BallotStates, NEW s, NEW node, NEW m \in Messages,
           Store(s, node, m) \in R,
           \A t \in R, n \in Nat, x \in Values : InvestigateBallot(t, n, x) \in R,
           \A t \in R, cand \in Candidates(s) :
             BallotBlocked(t, cand) => GoToNextBallot(t, cand) \in R,
           NEW o \in Outcomes(s, node, m)
    PROVE  \E t \in R : o.s = AssertValid(t)
<1>1. PICK t : t = Receive(s, node, m)
  OBVIOUS
<1>2. t \in R
  BY <1>1, InvestigateMessageStays DEF Receive
<1>3. MaxBallot + 2 \in Nat
  BY BoundsAssumption, SMT
<1>4. CASE ~Blocked(t)
  <2>1. o.s = AssertValid(t)
    BY <1>1, <1>4 DEF Outcomes
  <2> QED
    BY <1>2, <2>1
<1>5. CASE Blocked(t)
  <2>1. PICK cand \in Candidates(s) :
          o.s = AssertValid(LeaveBlockedBallots(t, m, cand, MaxBallot + 2))
    BY <1>1, <1>5, SMT DEF Outcomes
  <2>2. LeaveBlockedBallots(t, m, cand, MaxBallot + 2) \in R
    BY <1>2, <1>3, LeaveBlockedBallotsStays
  <2> QED
    BY <2>1, <2>2
<1> QED
  BY <1>4, <1>5

-------------------------------------------------------------------------------
(***************************************************************************)
(* The types, and the assertions of ballot_state.go.                       *)
(***************************************************************************)
NetInv ==
    /\ TypeOK
    /\ sent \in [Nodes -> Seq(Messages)]
    /\ \A n \in Nodes : bs[n].publicKey = n /\ StateInv(bs[n])

\* What PredictValue may give is a value, or Nil.
LEMMA CandidatesAreValues ==
    ASSUME NEW s, StateInv(s)
    PROVE  Candidates(s) \subseteq SlotValues
<1>1. s.hn \in Nat
  BY FieldTypes DEF StateInv
<1>2. CASE s.b = NoBallot
  BY <1>2 DEF Candidates, SlotValues
<1>3. CASE s.b # NoBallot /\ s.hn = 0
  BY <1>3 DEF Candidates, SlotValues
<1>4. CASE s.b # NoBallot /\ s.hn > 0
  BY <1>4 DEF Candidates
<1> QED
  BY <1>1, <1>2, <1>3, <1>4

\* The end of a step of node a that leads to the ballot state t.
LEMMA FinishInv ==
    ASSUME NetInv, NEW a \in Nodes, NEW t, StateInv(t), t.publicKey = a, Finish(a, t)
    PROVE  /\ bs' \in [Nodes -> BallotStates]
           /\ \A n \in Nodes : bs'[n].publicKey = n /\ StateInv(bs'[n])
           /\ external' \in [Nodes -> ExternalizeMessages \cup {Nil}]
           /\ sent' \in [Nodes -> Seq(Messages)]
<1>1. /\ bs \in [Nodes -> BallotStates] /\ sent \in [Nodes -> Seq(Messages)]
      /\ external \in [Nodes -> ExternalizeMessages \cup {Nil}]
      /\ \A n \in Nodes : bs[n].publicKey = n /\ StateInv(bs[n])
  BY DEF NetInv, TypeOK
<1>2. t \in BallotStates /\ ~t.fatal
  BY DEF StateInv, WellTyped
<1>3. sent' \in [Nodes -> Seq(Messages)]
  <2>1. CASE t.b = NoBallot
    BY <1>1, <2>1 DEF Finish
  <2>2. CASE t.b # NoBallot
    <3>1. Message(t) \in Messages
      BY <2>2, MessageIsTyped
    <3>2. CASE UNCHANGED sent
      BY <1>1, <3>2
    <3>3. CASE sent' # sent
      <4>1. PICK q : q = IF Len(sent[a]) < Backlog THEN sent[a] ELSE Tail(sent[a])
        OBVIOUS
      <4>2. sent' = [sent EXCEPT ![a] = Append(q, Message(t))]
        BY <1>2, <2>2, <3>3, <4>1 DEF Finish, Remember
      <4>3. sent[a] \in Seq(Messages)
        BY <1>1
      <4>4. Len(sent[a]) < Backlog \/ sent[a] # <<>>
        BY <4>3, BoundsAssumption
      <4>5. q \in Seq(Messages)
        BY <4>1, <4>3, <4>4
      <4>6. Append(q, Message(t)) \in Seq(Messages)
        BY <3>1, <4>5
      <4> QED
        BY <1>1, <4>2, <4>6
    <3> QED
      BY <3>2, <3>3
  <2> QED
    BY <2>1, <2>2
<1>4. CASE t.phase = "Externalize"
  <2>1. /\ external' = [external EXCEPT ![a] = Message(t)]
        /\ bs' = [bs EXCEPT ![a] = NewBallotState(a)]
    BY <1>2, <1>4 DEF Finish
  <2>2. Message(t) \in ExternalizeMessages
    BY <1>4, MessageIsTyped DEF StateInv, BallotKnown
  <2>3. /\ StateInv(NewBallotState(a)) /\ NewBallotState(a) \in BallotStates
        /\ NewBallotState(a).publicKey = a
    BY NewInv DEF StateInv, WellTyped, NewBallotState
  <2> QED
    BY <1>1, <1>3, <2>1, <2>2, <2>3
<1>5. CASE t.phase # "Externalize"
  <2>1. UNCHANGED external /\ bs' = [bs EXCEPT ![a] = t]
    BY <1>2, <1>5 DEF Finish
  <2> QED
    BY <1>1, <1>2, <1>3, <2>1
<1> QED
  BY <1>4, <1>5

\* Such a step keeps the invariant.
LEMMA NetInvFinish ==
    ASSUME NetInv, NEW a \in Nodes, NEW t, StateInv(t), t.publicKey = a, Finish(a, t),
           UNCHANGED <<stuck, restarts>>
    PROVE  NetInv'
<1>1. sent' \in [Nodes -> Seq(Messages)]
  BY FinishInv
<1>2. \A n \in Nodes : \A i \in 1..Len(sent'[n]) : sent'[n][i] \in Messages
  BY <1>1, SMT
<1>3. stuck' \subseteq Nodes /\ restarts' \in 0..MaxRestarts
  BY DEF NetInv, TypeOK
<1> QED
  BY <1>1, <1>2, <1>3, FinishInv DEF NetInv, TypeOK

\* Where a step of Begin, ProcessDuplicate or ProcessNew leads.
LEMMA BeginInv ==
    ASSUME NEW s, StateInv(s), NEW cand \in Values, NEW t, t = StartBallot(s, cand)
    PROVE  StateInv(t) /\ t.publicKey = s.publicKey /\ t.M = s.M
<1>1. cand \in SlotValues /\ s \in BallotStates
  BY DEF SlotValues, StateInv, WellTyped
<1> QED
  BY <1>1, GoToNextBallotInv, SameNode DEF StartBallot

\* A new message: where Handle and AssertValid lead.
LEMMA OutcomeInv ==
    ASSUME NEW s, StateInv(s), NEW node \in Nodes \ {s.publicKey}, NEW m \in Messages,
           NEW o \in Outcomes(s, node, m)
    PROVE  StateInv(o.s) /\ o.s.publicKey = s.publicKey
<1> DEFINE R == {t \in BallotStates : StateInv(t) /\ t.publicKey = s.publicKey}
<1>1. s \in BallotStates
  BY DEF StateInv, WellTyped
<1>2. Store(s, node, m) \in R
  <2>1. PICK t : t = Store(s, node, m)
    OBVIOUS
  <2>2. StateInv(t) /\ t.publicKey = s.publicKey
    BY <1>1, <2>1, StoreInv, SameNode, SMT
  <2> QED
    BY <2>1, <2>2 DEF StateInv, WellTyped
<1>3. \A t \in R, n \in Nat, x \in Values : InvestigateBallot(t, n, x) \in R
  <2> SUFFICES ASSUME NEW t \in R, NEW n \in Nat, NEW x \in Values
               PROVE  InvestigateBallot(t, n, x) \in R
    OBVIOUS
  <2>1. PICK r : r = InvestigateBallot(t, n, x)
    OBVIOUS
  <2>2. StateInv(r) /\ r.publicKey = s.publicKey
    BY <2>1, InvestigateBallotInv
  <2> QED
    BY <2>1, <2>2 DEF StateInv, WellTyped
<1>4. \A t \in R, cand \in Candidates(s) :
        BallotBlocked(t, cand) => GoToNextBallot(t, cand) \in R
  <2> SUFFICES ASSUME NEW t \in R, NEW cand \in Candidates(s)
               PROVE  GoToNextBallot(t, cand) \in R
    OBVIOUS
  <2>1. PICK r : r = GoToNextBallot(t, cand)
    OBVIOUS
  <2>2. cand \in SlotValues
    BY CandidatesAreValues
  <2>3. StateInv(r)
    BY <2>1, <2>2, GoToNextBallotInv
  <2>4. r.publicKey = s.publicKey
    BY <2>1, SameNode
  <2> QED
    BY <2>1, <2>3, <2>4 DEF StateInv, WellTyped
<1>5. PICK t \in R : o.s = AssertValid(t)
  <2>1. R \in SUBSET BallotStates
    OBVIOUS
  <2> HIDE DEF R
  <2> QED
    BY <1>2, <1>3, <1>4, <2>1, OutcomesStay, SMT
<1>6. StateInv(o.s)
  BY <1>5, AssertValidInv
<1> QED
  BY <1>5, <1>6, SameNode

\* A node that processes a message stays where Handle leaves it.
LEMMA NetInvNext == NetInv /\ [Next]_vars => NetInv'
<1> SUFFICES ASSUME NetInv, [Next]_vars PROVE NetInv'
  OBVIOUS
<1>1. /\ bs \in [Nodes -> BallotStates] /\ sent \in [Nodes -> Seq(Messages)]
      /\ external \in [Nodes -> ExternalizeMessages \cup {Nil}]
      /\ \A n \in Nodes : bs[n].publicKey = n /\ StateInv(bs[n])
      /\ stuck \subseteq Nodes /\ restarts \in 0..MaxRestarts
  BY DEF NetInv, TypeOK
<1>2. CASE UNCHANGED vars
  BY <1>2 DEF NetInv, TypeOK, vars
<1>3. ASSUME NEW n \in Nodes, Begin(n) PROVE NetInv'
  <2>1. PICK cand \in Values : Finish(n, StartBallot(bs[n], cand))
    BY <1>3 DEF Begin
  <2>2. PICK t : t = StartBallot(bs[n], cand)
    OBVIOUS
  <2>3. StateInv(t) /\ t.publicKey = n
    BY <1>1, <2>2, BeginInv
  <2> QED
    BY <1>3, <2>1, <2>2, <2>3, NetInvFinish DEF Begin
<1>4. ASSUME NEW n \in Nodes, Restart(n) PROVE NetInv'
  <2>1. /\ bs' = [bs EXCEPT ![n] = NewBallotState(n)]
        /\ external' = [external EXCEPT ![n] = Nil]
        /\ stuck' = stuck \ {n} /\ restarts' = restarts + 1 /\ restarts < MaxRestarts
        /\ UNCHANGED sent
    BY <1>4 DEF Restart
  <2>2. /\ StateInv(NewBallotState(n)) /\ NewBallotState(n) \in BallotStates
        /\ NewBallotState(n).publicKey = n
    BY NewInv DEF StateInv, WellTyped, NewBallotState
  <2>3. restarts' \in 0..MaxRestarts
    BY <1>1, <2>1, BoundsAssumption, SMT
  <2>4. /\ bs' \in [Nodes -> BallotStates]
        /\ \A k \in Nodes : bs'[k].publicKey = k /\ StateInv(bs'[k])
    BY <1>1, <2>1, <2>2
  <2> QED
    BY <1>1, <2>1, <2>3, <2>4 DEF NetInv, TypeOK
<1>5. ASSUME NEW n \in Nodes, NEW node \in Nodes \ {n}, ProcessDuplicate(n, node)
      PROVE  NetInv'
  <2>1. PICK cand \in Candidates(bs[n]) :
          Finish(n, AssertValid(HandleDuplicate(bs[n], node, cand)))
    BY <1>5 DEF ProcessDuplicate
  <2>2. PICK t : t = AssertValid(HandleDuplicate(bs[n], node, cand))
    OBVIOUS
  <2>3. cand \in SlotValues
    BY <1>1, CandidatesAreValues
  <2>4. StateInv(t) /\ t.publicKey = n
    <3>1. StateInv(bs[n]) /\ bs[n].publicKey = n /\ node \in Nodes
      BY <1>1
    <3> QED
      BY <2>2, <2>3, <3>1, DuplicateInv, SMT
  <2> QED
    BY <1>5, <2>1, <2>2, <2>4, NetInvFinish DEF ProcessDuplicate
<1>6. ASSUME NEW n \in Nodes, NEW node \in Nodes \ {n}, NEW i \in 1..Len(sent[node]),
             ProcessNew(n, node, sent[node][i])
      PROVE  NetInv'
  <2>1. PICK m : m = sent[node][i]
    OBVIOUS
  <2>2. m \in Messages
    BY <1>1, <2>1, SMT
  <2>3. PICK o \in Outcomes(bs[n], node, m) :
          IF o.looping
          THEN stuck' = stuck \cup {n} /\ UNCHANGED <<bs, external, sent>>
          ELSE o.s.b.n <= MaxBallot /\ Finish(n, o.s) /\ UNCHANGED stuck
    BY <1>6, <2>1 DEF ProcessNew
  <2>4. UNCHANGED restarts
    BY <1>6 DEF ProcessNew
  <2>5. CASE o.looping
    BY <1>1, <2>3, <2>4, <2>5 DEF NetInv, TypeOK
  <2>6. CASE ~o.looping
    <3>1. StateInv(o.s) /\ o.s.publicKey = n
      BY <1>1, <2>2, OutcomeInv, SMTT(30)
    <3> QED
      BY <2>3, <2>4, <2>6, <3>1, NetInvFinish
  <2> QED
    BY <2>5, <2>6
<1> QED
  BY <1>2, <1>3, <1>4, <1>5, <1>6 DEF Next

\* NewBallotState satisfies the invariant at every node.
LEMMA NetInvInit == Init => NetInv
<1> SUFFICES ASSUME Init PROVE NetInv
  OBVIOUS
<1>1. \A n \in Nodes : /\ StateInv(NewBallotState(n))
                       /\ NewBallotState(n) \in BallotStates
                       /\ NewBallotState(n).publicKey = n
  BY NewInv DEF StateInv, WellTyped, NewBallotState
<1>2. /\ bs \in [Nodes -> BallotStates]
      /\ \A n \in Nodes : bs[n].publicKey = n /\ StateInv(bs[n])
  BY <1>1 DEF Init
<1>3. sent = [n \in Nodes |-> <<>>] /\ <<>> \in Seq(Messages)
  BY DEF Init
<1>4. \A n \in Nodes : sent[n] \in Seq(Messages) /\ Len(sent[n]) = 0
  BY <1>3
<1>5. sent \in [Nodes -> Seq(Messages)]
  BY <1>3, <1>4
<1>6. /\ external \in [Nodes -> ExternalizeMessages \cup {Nil}]
      /\ stuck \subseteq Nodes /\ restarts \in 0..MaxRestarts
  BY BoundsAssumption DEF Init
<1>7. \A n \in Nodes : \A i \in 1..Len(sent[n]) : sent[n][i] \in Messages
  BY <1>4
<1> QED
  BY <1>2, <1>5, <1>6, <1>7 DEF NetInv, TypeOK

\* So it holds throughout.
LEMMA NetInvariance == Spec => []NetInv
BY NetInvInit, NetInvNext, PTL DEF Spec

\* In every network, with any quorum slices and any number of restarts, the
\* variables keep their types: no ballot and no message carries the empty value.
THEOREM TypeCorrect == Spec => []TypeOK
<1>1. NetInv => TypeOK
  BY DEF NetInv
<1> QED
  BY <1>1, NetInvariance, PTL

\* In every network no node reaches a Logger.Fatal of ballot_state.go.
THEOREM NoAssertionFails == Spec => []AssertionsHold
<1>1. NetInv => AssertionsHold
  BY DEF NetInv, StateInv, AssertionsHold
<1> QED
  BY <1>1, NetInvariance, PTL

\* Where Handle leads.
LEMMA OutcomeSecure ==
    ASSUME BlockersDecide,
           NEW said, NEW cur, NEW done, NEW F, World(said, cur, done, F),
           NEW a \in Nodes, a \notin done,
           NEW s, Secure(s, a, said, cur, done, F), s.phase # "Externalize", GoesOn(s),
           NEW node \in Nodes \ {a}, NEW m \in said[node],
           NEW o \in Outcomes(s, node, m)
    PROVE  Secure(o.s, a, said, cur, done, F) /\ GoesOn(o.s)
<1> DEFINE R == {t \in BallotStates : Secure(t, a, said, cur, done, F) /\ GoesOn(t)}
<1>1. /\ StateInv(s) /\ s \in BallotStates /\ s.publicKey = a
      /\ \A j \in Heard(s) : s.M[j] \in said[j]
  BY DEF Secure, StateInv, WellTyped
<1>2. m \in Messages
  BY DEF World
<1>3. Store(s, node, m) \in R
  <2>1. PICK t : t = Store(s, node, m)
    OBVIOUS
  <2>2. StateInv(t)
    BY <1>1, <1>2, <2>1, StoreInv
  <2>3. /\ t.publicKey = s.publicKey /\ t.phase = s.phase /\ t.b = s.b /\ t.p = s.p
        /\ t.pPrime = s.pPrime /\ t.cn = s.cn /\ t.hn = s.hn /\ t.z = s.z
        /\ t.M = [s.M EXCEPT ![node] = m]
    BY <1>1, <2>1 DEF Store, BallotStates
  <2>4. \A j \in Heard(t) : t.M[j] \in said[j]
    BY <1>1, <2>3 DEF Heard, BallotStates
  <2>5. Secure(t, a, said, cur, done, F)
    BY <2>2, <2>3, <2>4, SameSecure, ZenonT(60)
  <2>6. GoesOn(t)
    BY <2>3 DEF GoesOn
  <2> QED
    BY <2>1, <2>2, <2>5, <2>6 DEF StateInv, WellTyped
<1>4. \A t \in R, n \in Nat, x \in Values : InvestigateBallot(t, n, x) \in R
  <2> SUFFICES ASSUME NEW t \in R, NEW n \in Nat, NEW x \in Values
               PROVE  InvestigateBallot(t, n, x) \in R
    OBVIOUS
  <2>1. PICK r : r = InvestigateBallot(t, n, x)
    OBVIOUS
  <2>2. Secure(r, a, said, cur, done, F) /\ GoesOn(r)
    BY <2>1, InvestigateSecure
  <2> QED
    BY <2>1, <2>2 DEF Secure, StateInv, WellTyped
<1>5. \A t \in R, cand \in Candidates(s) :
        BallotBlocked(t, cand) => GoToNextBallot(t, cand) \in R
  <2> SUFFICES ASSUME NEW t \in R, NEW cand \in Candidates(s), BallotBlocked(t, cand)
               PROVE  GoToNextBallot(t, cand) \in R
    OBVIOUS
  <2>1. PICK r : r = GoToNextBallot(t, cand)
    OBVIOUS
  <2>2. cand \in SlotValues
    BY <1>1, CandidatesAreValues
  <2>3. Secure(r, a, said, cur, done, F) /\ GoesOn(r)
    BY <2>1, <2>2, LeaveBallotSecure
  <2> QED
    BY <2>1, <2>3 DEF Secure, StateInv, WellTyped
<1>6. PICK t \in R : o.s = AssertValid(t)
  <2>1. R \in SUBSET BallotStates
    OBVIOUS
  <2> HIDE DEF R
  <2> QED
    BY <1>2, <1>3, <1>4, <1>5, <2>1, OutcomesStay, SMT
<1> QED
  BY <1>6, AssertSecure

-------------------------------------------------------------------------------
(***************************************************************************)
(* The network.                                                            *)
(***************************************************************************)

\* Two quorums share a node that has not restarted.
QuorumsOverlap ==
    \A P, Q \in Quorums : Cardinality(P \cap Q) > MaxRestarts

\* Two quorums share a node that has not forgotten its votes.
LEMMA SharedMember ==
    ASSUME QuorumsOverlap, NEW F \in SUBSET Nodes, Cardinality(F) <= MaxRestarts
    PROVE  QuorumsShare(F)
<1> SUFFICES ASSUME NEW P \in Quorums, NEW Q \in Quorums, P \cap Q \subseteq F
             PROVE  FALSE
  BY DEF QuorumsShare
<1>1. IsFiniteSet(F)
  BY SliceAssumption, FS_Subset
<1>2. IsFiniteSet(P \cap Q) /\ Cardinality(P \cap Q) <= Cardinality(F)
  BY <1>1, FS_Subset
<1>3. Cardinality(F) \in Nat /\ Cardinality(P \cap Q) \in Nat
  BY <1>1, <1>2, FS_CardinalityType
<1>4. Cardinality(P \cap Q) > MaxRestarts
  BY DEF QuorumsOverlap
<1> QED
  BY <1>2, <1>3, <1>4, BoundsAssumption

\* What each node has said, what it would say now, and who has externalized.
Said == [v \in Nodes |-> {sent[v][i] : i \in 1..Len(sent[v])} \cup
                         (({bs[k].M[v] : k \in Nodes} \cup {external[v]}) \ {Nil})]
Current == [v \in Nodes |-> Message(bs[v])]
Done == {v \in Nodes : external[v] # Nil}

\* The nodes that forgot are at most as many as there were restarts.
VotesBind ==
    \E F \in SUBSET Nodes :
        Cardinality(F) <= restarts /\ Protected(Said, Current, Done, F)

\* A node that has accepted a commit goes on with its value.
ConfirmKeepsValue ==
    \A n \in Nodes : bs[n].phase = "Confirm" => bs[n].z = bs[n].b.x

\* The inductive invariant: VotesBind, with what it needs of the states and of
\* the messages.
AgreeInv ==
    /\ NetInv
    /\ \A n \in Nodes : bs[n].phase # "Externalize"
    /\ ConfirmKeepsValue
    /\ \A v \in Nodes : \A m \in Said[v] : Sound(m)
    /\ VotesBind

\* The network is one that the lemmas about votes speak of.
LEMMA InvWorld ==
    ASSUME QuorumsOverlap, AgreeInv, NEW F \in SUBSET Nodes, Cardinality(F) <= restarts
    PROVE  World(Said, Current, Done, F)
<1>1. /\ bs \in [Nodes -> BallotStates] /\ sent \in [Nodes -> Seq(Messages)]
      /\ external \in [Nodes -> ExternalizeMessages \cup {Nil}]
      /\ \A n \in Nodes : bs[n].publicKey = n /\ StateInv(bs[n])
      /\ restarts \in 0..MaxRestarts
  BY DEF AgreeInv, NetInv, TypeOK
<1>2. ASSUME NEW v \in Nodes PROVE Said[v] \in SUBSET Messages
  <2>1. \A i \in 1..Len(sent[v]) : sent[v][i] \in Messages
    BY <1>1, SMT
  <2>2. \A k \in Nodes : bs[k].M[v] \in Messages \cup {Nil}
    BY <1>1 DEF BallotStates
  <2>3. external[v] \in Messages \cup {Nil}
    BY <1>1 DEF Messages
  <2> QED
    BY <2>1, <2>2, <2>3 DEF Said
<1>3. Said \in [Nodes -> SUBSET Messages]
  BY <1>2 DEF Said
<1>4. \A v \in Nodes : Message(bs[v]) \in Words /\ Sound(Message(bs[v]))
  BY <1>1, MessageIsWord
<1>5. Current \in [Nodes -> Words] /\ \A v \in Nodes : Sound(Current[v])
  BY <1>4 DEF Current
<1>6. \A v \in Nodes : \A m \in Said[v] \cup {Current[v]} : Sound(m)
  BY <1>5 DEF AgreeInv
<1>7. IsFiniteSet(F) /\ Cardinality(F) \in Nat
  BY SliceAssumption, FS_Subset, FS_CardinalityType
<1>8. QuorumsShare(F)
  BY <1>1, <1>7, BoundsAssumption, SharedMember, SMT
<1>9. Done \in SUBSET Nodes
  BY DEF Done
<1> QED
  BY <1>3, <1>5, <1>6, <1>8, <1>9 DEF World

\* Every node is in a state from which its calls keep the protection.
LEMMA InvSecure ==
    ASSUME AgreeInv, NEW F \in SUBSET Nodes, Protected(Said, Current, Done, F),
           NEW a \in Nodes
    PROVE  Secure(bs[a], a, Said, Current, Done, F) /\ GoesOn(bs[a])
<1>1. bs[a].publicKey = a /\ StateInv(bs[a]) /\ bs[a].phase # "Externalize"
  BY DEF AgreeInv, NetInv
<1>2. Now(Current, a, bs[a]) = Current
  BY DEF Now, Current
<1>3. \A j \in Heard(bs[a]) : bs[a].M[j] \in Said[j]
  BY DEF Heard, Said
<1>4. GoesOn(bs[a])
  BY <1>1 DEF AgreeInv, ConfirmKeepsValue, GoesOn
<1> QED
  BY <1>1, <1>2, <1>3, <1>4 DEF Secure

\* What can still arrive after a step: what could before, and the new message.
LEMMA SentGrows ==
    ASSUME NetInv, NEW a \in Nodes, NEW t, StateInv(t), Finish(a, t),
           NEW v \in Nodes, NEW i \in 1..Len(sent'[v])
    PROVE  \/ \E j \in 1..Len(sent[v]) : sent'[v][i] = sent[v][j]
           \/ v = a /\ sent'[v][i] = Message(t)
<1>1. sent \in [Nodes -> Seq(Messages)]
  BY DEF NetInv
<1>2. CASE UNCHANGED sent
  BY <1>2
<1>3. CASE sent' # sent
  <2>1. PICK q : q = IF Len(sent[a]) < Backlog THEN sent[a] ELSE Tail(sent[a])
    OBVIOUS
  <2>2. sent' = [sent EXCEPT ![a] = Append(q, Message(t))]
    BY <1>3, <2>1 DEF Finish, Remember
  <2>3. CASE v # a
    BY <1>1, <2>2, <2>3
  <2>4. CASE v = a
    <3>1. sent'[v] = Append(q, Message(t))
      BY <1>1, <2>2, <2>4
    <3>2. sent[v] \in Seq(Messages)
      BY <1>1
    <3>3. CASE Len(sent[a]) < Backlog
      <4>1. q = sent[v]
        BY <2>1, <2>4, <3>3
      <4> QED
        BY <2>4, <3>1, <3>2, <4>1
    <3>4. CASE ~(Len(sent[a]) < Backlog)
      <4>1. q = Tail(sent[v]) /\ sent[v] # <<>>
        BY <2>1, <2>4, <3>2, <3>4, BoundsAssumption
      <4>2. /\ q \in Seq(Messages) /\ Len(q) = Len(sent[v]) - 1
            /\ \A k \in 1..Len(q) : q[k] = sent[v][k+1]
        BY <3>2, <4>1
      <4>3. CASE i <= Len(q)
        <5>1. i \in 1..Len(q) /\ sent'[v][i] = q[i]
          BY <3>1, <4>2, <4>3
        <5>2. i + 1 \in 1..Len(sent[v])
          BY <4>2, <5>1, <3>2
        <5> QED
          BY <4>2, <5>1, <5>2
      <4>4. CASE i > Len(q)
        <5>1. i = Len(q) + 1
          BY <3>1, <4>2, <4>4
        <5> QED
          BY <2>4, <3>1, <4>2, <5>1, SMT
      <4> QED
        BY <4>2, <4>3, <4>4, SMT
    <3> QED
      BY <3>3, <3>4
  <2> QED
    BY <2>3, <2>4
<1> QED
  BY <1>2, <1>3

\* The same of all the ways in which a message can be held.
LEMMA SaidGrows ==
    ASSUME NetInv, NEW a \in Nodes, NEW t, StateInv(t),
           \A j \in Heard(t) : t.M[j] \in Said[j],
           Finish(a, t), NEW v \in Nodes, NEW m \in Said'[v]
    PROVE  m \in Said[v] \/ (v = a /\ m = Message(t))
<1>0. /\ bs \in [Nodes -> BallotStates] /\ external \in [Nodes -> ExternalizeMessages \cup {Nil}]
      /\ t \in BallotStates /\ ~t.fatal
  BY DEF NetInv, TypeOK, StateInv, WellTyped
<1>1. \/ \E i \in 1..Len(sent'[v]) : m = sent'[v][i]
      \/ m # Nil /\ \E k \in Nodes : m = bs'[k].M[v]
      \/ m # Nil /\ m = external'[v]
  BY DEF Said
<1>2. CASE \E i \in 1..Len(sent'[v]) : m = sent'[v][i]
  BY <1>2, SentGrows, SMTT(30) DEF Said
<1>3. CASE m # Nil /\ \E k \in Nodes : m = bs'[k].M[v]
  <2>1. PICK k \in Nodes : m = bs'[k].M[v]
    BY <1>3
  <2>2. bs' = [bs EXCEPT ![a] = t] \/ bs' = [bs EXCEPT ![a] = NewBallotState(a)]
    BY <1>0 DEF Finish
  <2>3. CASE k # a
    BY <1>0, <1>3, <2>1, <2>2, <2>3 DEF Said
  <2>4. CASE k = a
    <3>1. NewBallotState(a).M[v] = Nil
      BY DEF NewBallotState
    <3>2. m = t.M[v]
      BY <1>0, <1>3, <2>1, <2>2, <2>4, <3>1
    <3> QED
      BY <1>3, <3>2 DEF Heard
  <2> QED
    BY <2>3, <2>4
<1>4. CASE m # Nil /\ m = external'[v]
  BY <1>0, <1>4 DEF Finish, Said
<1> QED
  BY <1>1, <1>2, <1>3, <1>4

\* The end of a step of a node that has not externalized.
LEMMA FinishAgrees ==
    ASSUME QuorumsOverlap, AgreeInv, NEW F \in SUBSET Nodes, Cardinality(F) <= restarts,
           NEW a \in Nodes \ Done, NEW t, Secure(t, a, Said, Current, Done, F), GoesOn(t),
           Finish(a, t), UNCHANGED <<stuck, restarts>>
    PROVE  AgreeInv'
<1>0. /\ NetInv /\ StateInv(t) /\ t.publicKey = a /\ a \in Nodes
      /\ \A j \in Heard(t) : t.M[j] \in Said[j]
  BY DEF AgreeInv, Secure
<1>1. NetInv'
  BY <1>0, NetInvFinish
<1>2. /\ bs \in [Nodes -> BallotStates] /\ external \in [Nodes -> ExternalizeMessages \cup {Nil}]
      /\ t \in BallotStates /\ ~t.fatal
  BY <1>0 DEF NetInv, TypeOK, StateInv, WellTyped
<1>3. PICK now : now = Now(Current, a, t)
  OBVIOUS
<1>4. World(Said, Current, Done, F)
  BY InvWorld
<1>5. /\ World(Said, now, Done, F) /\ now[a] = Message(t)
      /\ Protected(Said, now, Done, F)
  BY <1>0, <1>3, <1>4, SecureWorld, SMT DEF Secure
<1>6. PICK heard : heard = Said'
  OBVIOUS
<1>7. \A v \in Nodes : heard[v] \subseteq Said[v] \cup {now[v]}
  BY <1>0, <1>5, <1>6, SaidGrows
<1>8. Protected(heard, now, Done, F)
  BY <1>5, <1>7, SayingProtects
<1>9. \A v \in Nodes : \A m \in heard[v] : Sound(m)
  BY <1>5, <1>7 DEF World
<1>10. (\A v \in Nodes : \A m \in Said[v] : Sound(m))'
  BY <1>6, <1>9
<1>11. CASE t.phase # "Externalize"
  <2>1. UNCHANGED external /\ bs' = [bs EXCEPT ![a] = t]
    BY <1>2, <1>11 DEF Finish
  <2>2. Done' = Done
    BY <2>1 DEF Done
  <2>3. Current' = now
    BY <1>0, <1>2, <1>3, <2>1 DEF Current, Now
  <2>4. Protected(Said', Current', Done', F)
    BY <1>6, <1>8, <2>2, <2>3
  <2>5. VotesBind'
    BY <2>4 DEF VotesBind
  <2>6. (\A n \in Nodes : bs[n].phase # "Externalize")' /\ ConfirmKeepsValue'
    BY <1>2, <1>11, <2>1 DEF AgreeInv, ConfirmKeepsValue, GoesOn
  <2> QED
    BY <1>1, <1>10, <2>5, <2>6 DEF AgreeInv
<1>12. CASE t.phase = "Externalize"
  <2>1. /\ external' = [external EXCEPT ![a] = Message(t)]
        /\ bs' = [bs EXCEPT ![a] = NewBallotState(a)]
    BY <1>2, <1>12 DEF Finish
  <2>2. PICK d : d = Message(NewBallotState(a))
    OBVIOUS
  <2>3. Message(t) \in ExternalizeMessages /\ Message(t).type = "Externalize"
    BY <1>0, <1>12, MessageIsTyped DEF StateInv, BallotKnown, ExternalizeMessages
  <2>4. Done' = Done \cup {a}
    <3>1. external'[a] # Nil
      <4>1. external'[a] = Message(t)
        BY <1>0, <1>2, <2>1
      <4>2. Nil \notin ExternalizeMessages
        BY NilIsNoMessage DEF Messages
      <4> QED
        BY <2>3, <4>1, <4>2
    <3> QED
      BY <1>0, <1>2, <2>1, <3>1 DEF Done
  <2>5. Current' = [now EXCEPT ![a] = d]
    <3>1. now = [Current EXCEPT ![a] = Message(t)]
      BY <1>3 DEF Now
    <3> QED
      BY <1>0, <1>2, <2>1, <2>2, <3>1 DEF Current
  <2>6. World(heard, now, Done, F)
    <3>1. \A v \in Nodes : Said[v] \in SUBSET Messages
      BY <1>5 DEF World
    <3>2. Message(t) \in Messages
      BY <2>3 DEF Messages
    <3>3. \A v \in Nodes : heard[v] \in SUBSET Messages
      BY <1>0, <1>6, <3>1, <3>2, SaidGrows
    <3>4. heard \in [Nodes -> SUBSET Messages]
      BY <1>6, <3>3 DEF Said
    <3> QED
      BY <1>5, <1>9, <3>4 DEF World
  <2>7. now[a].type # "Prepare"
    BY <1>5, <2>3
  <2>8. Protected(heard, [now EXCEPT ![a] = d], Done \cup {a}, F)
    BY <1>8, <2>2, <2>6, <2>7, LeavingProtects
  <2>9. Protected(Said', Current', Done', F)
    BY <1>6, <2>4, <2>5, <2>8
  <2>10. VotesBind'
    BY <2>9 DEF VotesBind
  <2>11. NewBallotState(a).phase = "Prepare"
    BY DEF NewBallotState
  <2>12. (\A n \in Nodes : bs[n].phase # "Externalize")' /\ ConfirmKeepsValue'
    BY <1>2, <2>1, <2>11 DEF AgreeInv, ConfirmKeepsValue
  <2> QED
    BY <1>1, <1>10, <2>10, <2>12 DEF AgreeInv
<1> QED
  BY <1>11, <1>12

\* Every step keeps the invariant.
LEMMA AgreeInvNext ==
    ASSUME QuorumsOverlap, BlockersDecide
    PROVE  AgreeInv /\ [Next]_vars => AgreeInv'
<1> SUFFICES ASSUME AgreeInv, [Next]_vars PROVE AgreeInv'
  OBVIOUS
<1>1. /\ NetInv /\ bs \in [Nodes -> BallotStates] /\ sent \in [Nodes -> Seq(Messages)]
      /\ \A n \in Nodes : /\ bs[n].publicKey = n /\ StateInv(bs[n])
                          /\ bs[n].phase # "Externalize"
      /\ restarts \in 0..MaxRestarts
  BY DEF AgreeInv, NetInv, TypeOK
<1>2. PICK F \in SUBSET Nodes :
        Cardinality(F) <= restarts /\ Protected(Said, Current, Done, F)
  BY DEF AgreeInv, VotesBind
<1>3. World(Said, Current, Done, F)
  BY <1>2, InvWorld
<1>4. \A n \in Nodes : Secure(bs[n], n, Said, Current, Done, F) /\ GoesOn(bs[n])
  BY <1>2, InvSecure
<1>5. \A n \in Nodes : Running(n) => n \notin Done
  BY DEF Running, Done
<1>6. NetInv'
  BY <1>1, NetInvNext
<1>7. CASE UNCHANGED vars
  <2>1. Said' = Said /\ Current' = Current /\ Done' = Done
    BY <1>7 DEF vars, Said, Current, Done
  <2>2. VotesBind'
    BY <1>2, <1>7, <2>1 DEF VotesBind, vars
  <2>3. (\A v \in Nodes : \A m \in Said[v] : Sound(m))'
    BY <2>1 DEF AgreeInv
  <2> QED
    BY <1>6, <1>7, <2>2, <2>3 DEF AgreeInv, ConfirmKeepsValue, vars
<1>8. ASSUME NEW n \in Nodes, Begin(n) PROVE AgreeInv'
  <2>1. PICK cand \in Values : Finish(n, StartBallot(bs[n], cand))
    BY <1>8 DEF Begin
  <2>2. PICK t : t = GoToNextBallot(bs[n], cand)
    OBVIOUS
  <2>3. Finish(n, t) /\ n \notin Done /\ UNCHANGED <<stuck, restarts>>
    BY <1>5, <1>8, <2>1, <2>2 DEF Begin, StartBallot
  <2>4. bs[n].phase = "Prepare"
    BY <1>1, <1>8 DEF Begin, StateInv, BallotKnown
  <2>5. Secure(t, n, Said, Current, Done, F) /\ t.phase = "Prepare"
    <3>1. cand \in SlotValues
      BY DEF SlotValues
    <3>2. PICK s : s = bs[n]
      OBVIOUS
    <3>3. Secure(s, n, Said, Current, Done, F) /\ s.phase = "Prepare"
      BY <1>4, <2>4, <3>2
    <3> QED
      BY <1>3, <2>2, <2>3, <3>1, <3>2, <3>3, NextBallotSecure, SMT
  <2>6. GoesOn(t)
    BY <2>5 DEF GoesOn
  <2> QED
    BY <1>2, <2>3, <2>5, <2>6, FinishAgrees
<1>9. ASSUME NEW n \in Nodes, Restart(n) PROVE AgreeInv'
  <2>1. /\ bs' = [bs EXCEPT ![n] = NewBallotState(n)]
        /\ external' = [external EXCEPT ![n] = Nil]
        /\ restarts' = restarts + 1 /\ UNCHANGED sent
    BY <1>9 DEF Restart
  <2>2. PICK d, heard, G : /\ d = Message(NewBallotState(n)) /\ heard = Said'
                           /\ G = F \cup {n}
    OBVIOUS
  <2>3. NewBallotState(n).phase = "Prepare" /\ \A v \in Nodes : NewBallotState(n).M[v] = Nil
    BY DEF NewBallotState
  <2>4. \A v \in Nodes : heard[v] \subseteq Said[v] \cup {Current[v]}
    BY <1>1, <2>1, <2>2, <2>3, SMT DEF Said
  <2>5. Done' = Done \ {n}
    <3>1. external \in [Nodes -> ExternalizeMessages \cup {Nil}]
      BY <1>1 DEF NetInv, TypeOK
    <3>2. external'[n] = Nil /\ \A v \in Nodes \ {n} : external'[v] = external[v]
      BY <2>1, <3>1, Zenon
    <3> QED
      BY <3>2, Zenon DEF Done
  <2>6. Current' = [Current EXCEPT ![n] = d]
    BY <1>1, <2>1, <2>2, ZenonT(60) DEF Current
  <2>7. Protected(heard, Current, Done, F)
    BY <1>2, <1>3, <2>4, SayingProtects
  <2>8. \A v \in Nodes : \A m \in heard[v] : Sound(m)
    BY <1>3, <2>4 DEF World
  <2>9. World(heard, Current, Done, F)
    <3>1. \A v \in Nodes : heard[v] \subseteq Said[v]
      BY <1>1, <2>1, <2>2, <2>3, SMT DEF Said
    <3>2. heard \in [Nodes -> SUBSET Messages]
      <4>1. \A v \in Nodes : Said[v] \in SUBSET Messages
        BY <1>3 DEF World
      <4>2. \A v \in Nodes : heard[v] \in SUBSET Messages
        BY <3>1, <4>1
      <4> QED
        BY <2>2, <4>2 DEF Said
    <3> QED
      BY <1>3, <2>8, <3>2 DEF World
  <2>10. Protected(heard, [Current EXCEPT ![n] = d], Done \ {n}, G)
    BY <2>2, <2>7, <2>9, RestartProtects
  <2>11. G \in SUBSET Nodes /\ Cardinality(G) <= restarts'
    <3>1. IsFiniteSet(F) /\ Cardinality(F) \in Nat
      BY SliceAssumption, FS_Subset, FS_CardinalityType
    <3>2. \/ Cardinality(G) = Cardinality(F)
          \/ Cardinality(G) = Cardinality(F) + 1
      BY <2>2, <3>1, FS_AddElement
    <3> QED
      BY <1>1, <1>2, <2>1, <2>2, <3>1, <3>2, SMT
  <2>12. Protected(Said', Current', Done', G)
    BY <2>2, <2>5, <2>6, <2>10
  <2>13. VotesBind'
    BY <2>11, <2>12 DEF VotesBind
  <2>14. (\A k \in Nodes : bs[k].phase # "Externalize")' /\ ConfirmKeepsValue'
    BY <1>1, <2>1, <2>3 DEF AgreeInv, ConfirmKeepsValue
  <2>15. (\A v \in Nodes : \A m \in Said[v] : Sound(m))'
    BY <2>2, <2>8
  <2> QED
    BY <1>6, <2>13, <2>14, <2>15 DEF AgreeInv
<1>10. ASSUME NEW n \in Nodes, NEW node \in Nodes \ {n}, ProcessDuplicate(n, node)
       PROVE  AgreeInv'
  <2>1. PICK cand \in Candidates(bs[n]) :
          Finish(n, AssertValid(HandleDuplicate(bs[n], node, cand)))
    BY <1>10 DEF ProcessDuplicate
  <2>2. PICK s, t : s = bs[n] /\ t = AssertValid(HandleDuplicate(bs[n], node, cand))
    OBVIOUS
  <2>3. cand \in SlotValues
    BY <1>1, CandidatesAreValues
  <2>4. Finish(n, t) /\ n \notin Done /\ UNCHANGED <<stuck, restarts>> /\ node \in Nodes
    BY <1>5, <1>10, <2>1, <2>2 DEF ProcessDuplicate
  <2>5. Secure(s, n, Said, Current, Done, F) /\ GoesOn(s) /\ s.phase # "Externalize"
    BY <1>1, <1>4, <2>2
  <2>6. Secure(t, n, Said, Current, Done, F) /\ GoesOn(t)
    BY <1>3, <2>2, <2>3, <2>4, <2>5, DuplicateSecure
  <2> QED
    BY <1>2, <2>4, <2>6, FinishAgrees
<1>11. ASSUME NEW n \in Nodes, NEW node \in Nodes \ {n}, NEW i \in 1..Len(sent[node]),
              ProcessNew(n, node, sent[node][i])
       PROVE  AgreeInv'
  <2>1. PICK m, s : m = sent[node][i] /\ s = bs[n]
    OBVIOUS
  <2>2. m \in Said[node]
    BY <2>1 DEF Said
  <2>3. PICK o \in Outcomes(s, node, m) :
          IF o.looping
          THEN stuck' = stuck \cup {n} /\ UNCHANGED <<bs, external, sent>>
          ELSE o.s.b.n <= MaxBallot /\ Finish(n, o.s) /\ UNCHANGED stuck
    BY <1>11, <2>1 DEF ProcessNew
  <2>4. UNCHANGED restarts /\ n \notin Done
    BY <1>5, <1>11 DEF ProcessNew
  <2>5. CASE o.looping
    <3>1. UNCHANGED <<bs, external, sent>>
      BY <2>3, <2>5
    <3>2. Said' = Said /\ Current' = Current /\ Done' = Done
      BY <3>1 DEF Said, Current, Done
    <3>3. VotesBind'
      BY <1>2, <2>4, <3>2 DEF VotesBind
    <3>4. (\A v \in Nodes : \A k \in Said[v] : Sound(k))'
      BY <3>2 DEF AgreeInv
    <3> QED
      BY <1>6, <3>1, <3>3, <3>4 DEF AgreeInv, ConfirmKeepsValue
  <2>6. CASE ~o.looping
    <3>1. Secure(s, n, Said, Current, Done, F) /\ GoesOn(s) /\ s.phase # "Externalize"
      BY <1>1, <1>4, <2>1
    <3>2. Secure(o.s, n, Said, Current, Done, F) /\ GoesOn(o.s)
      BY <1>3, <2>2, <2>4, <3>1, OutcomeSecure
    <3>3. Finish(n, o.s) /\ UNCHANGED <<stuck, restarts>>
      BY <2>3, <2>4, <2>6
    <3> QED
      BY <1>2, <2>4, <3>2, <3>3, FinishAgrees
  <2> QED
    BY <2>5, <2>6
<1> QED
  BY <1>7, <1>8, <1>9, <1>10, <1>11 DEF Next

\* Initially nobody has said anything.
LEMMA AgreeInvInit == Init => AgreeInv
<1> SUFFICES ASSUME Init PROVE AgreeInv
  OBVIOUS
<1>1. /\ bs = [n \in Nodes |-> NewBallotState(n)] /\ external = [n \in Nodes |-> Nil]
      /\ sent = [n \in Nodes |-> <<>>] /\ restarts = 0
  BY DEF Init
<1>2. \A n, v \in Nodes : /\ NewBallotState(n).phase = "Prepare"
                          /\ NewBallotState(n).M[v] = Nil
  BY DEF NewBallotState
<1>3. \A v \in Nodes : Said[v] = {}
  BY <1>1, <1>2, SMT DEF Said
<1>4. Done = {}
  BY <1>1 DEF Done
<1>5. \A v \in Nodes : LET d == Current[v]
                       IN  d.type = "Prepare" /\ d.Pn = 0 /\ d.Ppn = 0
  BY <1>1, BlankMessage DEF Current
<1>6. \A v \in Nodes : \A m \in Said[v] \cup {Current[v]} : m.type = "Prepare"
  BY <1>3, <1>5
<1>7. \A n \in Nat \ {0}, x \in Values, v \in Nodes :
        \A m \in Said[v] \cup {Current[v]} : ~Aborts(m, n, x)
  BY <1>3, <1>5, SMT DEF Aborts
<1>8. Undecided(Said, Current, Done, {})
  BY <1>3, <1>4, <1>6, <1>7 DEF Undecided
<1>9. VotesBind
  BY <1>1, <1>8, FS_EmptySet, SMT DEF VotesBind, Protected
<1>10. (\A n \in Nodes : bs[n].phase # "Externalize") /\ ConfirmKeepsValue
  BY <1>1, <1>2 DEF ConfirmKeepsValue
<1> QED
  BY <1>3, <1>9, <1>10, NetInvInit DEF AgreeInv

\* So the invariant holds throughout, in the networks of the two conditions.
LEMMA AgreeInvariance ==
    ASSUME QuorumsOverlap, BlockersDecide
    PROVE  Spec => []AgreeInv
BY AgreeInvInit, AgreeInvNext, PTL DEF Spec

\* The commits accepted are what the protection speaks about.
LEMMA ProtectedAgrees ==
    ASSUME AgreeInv
    PROVE  AcceptedCommitsAgree
<1>1. PICK F \in SUBSET Nodes : Protected(Said, Current, Done, F)
  BY DEF AgreeInv, VotesBind
<1>2. /\ external \in [Nodes -> ExternalizeMessages \cup {Nil}]
      /\ \A n \in Nodes : StateInv(bs[n])
  BY DEF AgreeInv, NetInv, TypeOK
<1>3. ASSUME NEW v \in AcceptedCommits
      PROVE  \E n \in Nodes : \E m \in Said[n] \cup {Current[n]} :
               m.type # "Prepare" /\ m.X = v
  <2>1. CASE \E n \in Nodes : bs[n].phase # "Prepare" /\ v = bs[n].b.x
    <3>1. PICK n \in Nodes : bs[n].phase # "Prepare" /\ v = bs[n].b.x
      BY <2>1
    <3>2. Current[n] = Message(bs[n])
      BY DEF Current
    <3>3. bs[n].phase \in {"Confirm", "Externalize"}
      BY <1>2, <3>1 DEF StateInv, WellTyped, BallotStates, Phases
    <3>4. Message(bs[n]).type # "Prepare" /\ Message(bs[n]).X = v
      BY <3>1, <3>3, MessageFields
    <3> QED
      BY <3>2, <3>4
  <2>2. CASE \E n \in Nodes : external[n] # Nil /\ v = external[n].X
    <3>1. PICK n \in Nodes : external[n] # Nil /\ v = external[n].X
      BY <2>2
    <3>2. external[n] \in Said[n] /\ external[n].type = "Externalize"
      BY <1>2, <3>1 DEF Said, ExternalizeMessages
    <3> QED
      BY <3>1, <3>2
  <2> QED
    BY <2>1, <2>2 DEF AcceptedCommits
<1>4. CASE Undecided(Said, Current, Done, F)
  BY <1>3, <1>4 DEF Undecided, AcceptedCommitsAgree
<1>5. CASE \E n \in Nat \ {0}, x \in Values : Decided(Said, Current, Done, F, n, x)
  BY <1>3, <1>5 DEF Decided, AcceptedCommitsAgree
<1> QED
  BY <1>1, <1>4, <1>5 DEF Protected

\* In every network whose quorums share more nodes than restart within the slot,
\* and in which the sets that block a node make a quorum with it and meet, all
\* the nodes that accept a commit accept it for one value, whatever is lost,
\* repeated or reordered.
THEOREM CommitsAgree ==
    ASSUME QuorumsOverlap, BlockersDecide
    PROVE  Spec => []AcceptedCommitsAgree
<1>1. AgreeInv => AcceptedCommitsAgree
  BY ProtectedAgrees
<1> QED
  BY <1>1, AgreeInvariance, PTL

\* In such a network two nodes never externalize different values for the slot.
THEOREM NodesAgree ==
    ASSUME QuorumsOverlap, BlockersDecide
    PROVE  Spec => []Agreement
<1>1. AgreeInv => Agreement
  BY ProtectedAgrees DEF AcceptedCommitsAgree, AcceptedCommits, Agreement
<1> QED
  BY <1>1, AgreeInvariance, PTL

-------------------------------------------------------------------------------
(***************************************************************************)
(* The slices that servers get from a network configuration: all nodes,    *)
(* and one threshold.                                                      *)
(***************************************************************************)

\* In a network with one threshold, how many nodes it takes.
LEMMA ConfigSliceCounts ==
    ASSUME NEW T \in Nat \ {0}, Slice = ConfigSlice(T), NEW S \in SUBSET Nodes
    PROVE  /\ IsFiniteSet(S) /\ Cardinality(S) \in Nat
           /\ \A n \in Nodes : SatisfiedWith(Slice[n], S) <=> Cardinality(S) >= T
           /\ \A n \in Nodes :
                BlockedBy(Slice[n], S) <=>
                  /\ Cardinality(S) > 0
                  /\ Cardinality(S) >= Cardinality(Nodes) - T + 1
<1>1. IsFiniteSet(S) /\ Cardinality(S) \in Nat
  BY SliceAssumption, FS_Subset, FS_CardinalityType
<1>2. Nodes \cap S = S
  OBVIOUS
<1>3. ASSUME NEW n \in Nodes
      PROVE  /\ SatisfiedWith(Slice[n], S) <=> Cardinality(S) >= T
             /\ BlockedBy(Slice[n], S) <=>
                  /\ Cardinality(S) > 0
                  /\ Cardinality(S) >= Cardinality(Nodes) - T + 1
  <2>1. Slice[n].Members = Nodes /\ Slice[n].Threshold = T
    BY DEF ConfigSlice
  <2> QED
    BY <1>1, <1>2, <2>1 DEF SatisfiedWith, BlockedBy, atLeast
<1> QED
  BY <1>1, <1>3

\* Two sets of nodes share at least what does not fit into the network.
LEMMA SharedCount ==
    ASSUME NEW U, IsFiniteSet(U), NEW P \in SUBSET U, NEW Q \in SUBSET U
    PROVE  /\ Cardinality(U) \in Nat /\ Cardinality(P) \in Nat
           /\ Cardinality(Q) \in Nat /\ Cardinality(P \cap Q) \in Nat
           /\ Cardinality(P) + Cardinality(Q) - Cardinality(U) <= Cardinality(P \cap Q)
<1>1. IsFiniteSet(P) /\ IsFiniteSet(Q)
  BY FS_Subset
<1>2. IsFiniteSet(P \cup Q) /\ IsFiniteSet(P \cap Q)
      /\ Cardinality(P \cup Q) = Cardinality(P) + Cardinality(Q) - Cardinality(P \cap Q)
  BY <1>1, FS_Union, FS_Intersection
<1>3. P \cup Q \in SUBSET U
  OBVIOUS
<1>4. Cardinality(P \cup Q) <= Cardinality(U)
  BY <1>3, FS_Subset
<1>5. /\ Cardinality(U) \in Nat /\ Cardinality(P) \in Nat /\ Cardinality(Q) \in Nat
      /\ Cardinality(P \cap Q) \in Nat
  BY <1>1, <1>2, FS_CardinalityType
<1> QED
  BY <1>2, <1>4, <1>5, SMT

\* Two quorums have at least 2T - N nodes in common.
LEMMA MajorityQuorumsOverlap ==
    ASSUME NEW T \in Nat \ {0}, Slice = ConfigSlice(T), Cardinality(Nodes) + MaxRestarts < 2 * T
    PROVE  QuorumsOverlap
<1> SUFFICES ASSUME NEW P \in Quorums, NEW Q \in Quorums
             PROVE  Cardinality(P \cap Q) > MaxRestarts
  BY DEF QuorumsOverlap
<1>1. P \in SUBSET Nodes /\ Q \in SUBSET Nodes
  BY DEF Quorums
<1>2. Cardinality(P) >= T /\ Cardinality(Q) >= T
  <2>1. PICK n \in P, k \in Q : SatisfiedWith(Slice[n], P) /\ SatisfiedWith(Slice[k], Q)
    BY DEF Quorums, SelfSufficient
  <2> QED
    BY <1>1, <2>1, ConfigSliceCounts
<1>3. /\ Cardinality(Nodes) \in Nat /\ Cardinality(P) \in Nat
      /\ Cardinality(Q) \in Nat /\ Cardinality(P \cap Q) \in Nat
      /\ Cardinality(P) + Cardinality(Q) - Cardinality(Nodes) <= Cardinality(P \cap Q)
  BY <1>1, SharedCount, SliceAssumption
<1> QED
  BY <1>2, <1>3, BoundsAssumption

\* N - T + 1 nodes block, so with the blocked node they are T at least; two such
\* sets do not fit into the N - 1 other nodes.
LEMMA MajorityBlockersDecide ==
    ASSUME NEW T \in Nat \ {0}, Slice = ConfigSlice(T), 2 * T <= Cardinality(Nodes) + 2
    PROVE  BlockersDecide
<1> SUFFICES ASSUME NEW n \in Nodes, NEW B \in SUBSET (Nodes \ {n}), BlockedBy(Slice[n], B)
             PROVE  /\ MeetsQuorum(n, B \cup {n})
                    /\ \A C \in SUBSET (Nodes \ {n}) :
                         BlockedBy(Slice[n], C) => B \cap C # {}
  BY DEF BlockersDecide
<1>1. /\ IsFiniteSet(Nodes) /\ IsFiniteSet(Nodes \ {n})
      /\ Cardinality(Nodes) \in Nat /\ Cardinality(Nodes \ {n}) = Cardinality(Nodes) - 1
  BY SliceAssumption, FS_RemoveElement, FS_CardinalityType
<1>2. /\ IsFiniteSet(B) /\ Cardinality(B) \in Nat
      /\ Cardinality(B) >= Cardinality(Nodes) - T + 1
  BY ConfigSliceCounts
<1>3. MeetsQuorum(n, B \cup {n})
  <2>1. PICK S : S = B \cup {n}
    OBVIOUS
  <2>2. Cardinality(S) = Cardinality(B) + 1 /\ S \in SUBSET Nodes
    BY <1>2, <2>1, FS_AddElement
  <2>3. Cardinality(S) >= T
    BY <1>1, <1>2, <2>2, SMT
  <2>4. SelfSufficient(S)
    BY <2>2, <2>3, ConfigSliceCounts DEF SelfSufficient
  <2>5. S \ {n} \in SUBSET (S \ {n}) /\ (S \ {n}) \cup {n} = S /\ n \in S
    BY <2>1
  <2> QED
    BY <2>1, <2>4, <2>5 DEF MeetsQuorum
<1>4. ASSUME NEW C \in SUBSET (Nodes \ {n}), BlockedBy(Slice[n], C) PROVE B \cap C # {}
  <2>1. Cardinality(C) \in Nat /\ Cardinality(C) >= Cardinality(Nodes) - T + 1
    BY <1>4, ConfigSliceCounts
  <2>2. /\ Cardinality(B \cap C) \in Nat
        /\ Cardinality(B) + Cardinality(C) - Cardinality(Nodes \ {n}) <= Cardinality(B \cap C)
    BY <1>1, SharedCount
  <2>3. Cardinality(B \cap C) > 0
    BY <1>1, <1>2, <2>1, <2>2, SMT
  <2> QED
    BY <2>3, FS_EmptySet, SMT
<1> QED
  BY <1>3, <1>4

\* In a network in which every node has all the nodes in its slice, with a
\* simple majority as threshold, nodes never externalize different values: with
\* an even number of nodes even if one of them restarts within the slot and has
\* forgotten its votes.
THEOREM MajoritiesAgree ==
    ASSUME NEW T \in Nat \ {0}, Slice = ConfigSlice(T),
           Cardinality(Nodes) + MaxRestarts < 2 * T, 2 * T <= Cardinality(Nodes) + 2
    PROVE  Spec => []Agreement
BY MajorityQuorumsOverlap, MajorityBlockersDecide, NodesAgree

-------------------------------------------------------------------------------
\* A new message: where Handle and AssertValid lead.
LEMMA OutcomeFollows ==
    ASSUME BlockersAreQuorums,
           NEW s, StateInv(s), Settled(s),
           NEW node \in Nodes \ {s.publicKey}, NEW m \in Messages,
           NEW o \in Outcomes(s, node, m)
    PROVE  Follows(s, o.s) /\ Settled(o.s)
<1> DEFINE R == {t \in BallotStates : /\ StateInv(t) /\ t.publicKey = s.publicKey
                                      /\ Follows(s, t) /\ Settled(t)}
<1>1. s \in BallotStates /\ WellTyped(s) /\ s.publicKey \in Nodes
  BY DEF StateInv, WellTyped, BallotStates
<1>2. Store(s, node, m) \in R
  <2>1. PICK t : t = Store(s, node, m)
    OBVIOUS
  <2>2. StateInv(t) /\ t.publicKey = s.publicKey
    BY <1>1, <2>1, StoreInv, SameNode, SMT
  <2>3. /\ t.phase = s.phase /\ t.z = s.z /\ t.b = s.b /\ t.p = s.p
        /\ t.pPrime = s.pPrime /\ t.cn = s.cn /\ t.hn = s.hn
    BY <1>1, <2>1 DEF Store, BallotStates
  <2>4. Follows(s, t) /\ Settled(t)
    BY <1>1, <2>3, SameFollows DEF SaysTheSame
  <2> QED
    BY <2>1, <2>2, <2>4 DEF StateInv, WellTyped
<1>3. \A t \in R, n \in Nat, x \in Values : InvestigateBallot(t, n, x) \in R
  <2> SUFFICES ASSUME NEW t \in R, NEW n \in Nat, NEW x \in Values
               PROVE  InvestigateBallot(t, n, x) \in R
    OBVIOUS
  <2>1. PICK r : r = InvestigateBallot(t, n, x)
    OBVIOUS
  <2>2. StateInv(r) /\ r.publicKey = s.publicKey
    BY <2>1, InvestigateBallotInv
  <2>3. Follows(t, r) /\ Settled(r)
    BY <1>1, <2>1, InvestigateFollows
  <2>4. Follows(s, r)
    BY <1>1, <2>2, <2>3, FollowsTransitive DEF StateInv
  <2> QED
    BY <2>1, <2>2, <2>3, <2>4 DEF StateInv, WellTyped
<1>4. \A t \in R, cand \in Candidates(s) :
        BallotBlocked(t, cand) => GoToNextBallot(t, cand) \in R
  <2> SUFFICES ASSUME NEW t \in R, NEW cand \in Candidates(s)
               PROVE  GoToNextBallot(t, cand) \in R
    OBVIOUS
  <2>1. PICK r : r = GoToNextBallot(t, cand)
    OBVIOUS
  <2>2. cand \in SlotValues
    BY CandidatesAreValues
  <2>3. StateInv(r)
    BY <2>1, <2>2, GoToNextBallotInv
  <2>4. r.publicKey = s.publicKey
    BY <2>1, SameNode
  <2>5. Follows(t, r) /\ Settled(r)
    BY <2>1, <2>2, NextBallotFollows
  <2>6. Follows(s, r)
    BY <1>1, <2>3, <2>5, FollowsTransitive DEF StateInv
  <2> QED
    BY <2>1, <2>3, <2>4, <2>5, <2>6 DEF StateInv, WellTyped
<1>5. PICK t \in R : o.s = AssertValid(t)
  <2>1. R \in SUBSET BallotStates
    OBVIOUS
  <2> HIDE DEF R
  <2> QED
    BY <1>2, <1>3, <1>4, <2>1, OutcomesStay, SMT
<1>6. StateInv(o.s) /\ Follows(t, o.s) /\ Settled(o.s)
  BY <1>5, AssertValidInv, AssertFollows
<1> QED
  BY <1>1, <1>5, <1>6, FollowsTransitive DEF StateInv

\* A node that has not externalized has its latest message to show for its state:
\* none without a ballot, and the message of the state otherwise.
OrderInv ==
    \A n \in Nodes : external[n] = Nil =>
        /\ bs[n].phase # "Externalize" /\ Settled(bs[n])
        /\ bs[n].b = NoBallot => sent[n] = <<>>
        /\ bs[n].b # NoBallot => sent[n] # <<>> /\ Latest(n) = Message(bs[n])

\* What MessagesIncrease says of one step.
NewerSent ==
    \A n \in Nodes :
        sent[n] # <<>> /\ sent'[n] # sent[n] => Newer(Latest(n), Latest(n)')

\* The end of a step: the node's latest message is that of the state it reaches.
LEMMA LatestSent ==
    ASSUME NetInv, NEW a \in Nodes, NEW t, StateInv(t), Finish(a, t)
    PROVE  /\ \A v \in Nodes \ {a} : sent'[v] = sent[v]
           /\ t.b = NoBallot => sent' = sent
           /\ t.b # NoBallot => sent'[a] # <<>> /\ sent'[a][Len(sent'[a])] = Message(t)
<1>1. sent \in [Nodes -> Seq(Messages)] /\ sent[a] \in Seq(Messages) /\ ~t.fatal
  BY DEF NetInv, StateInv
<1>2. CASE t.b = NoBallot
  BY <1>1, <1>2 DEF Finish
<1>3. CASE t.b # NoBallot /\ sent[a] # <<>> /\ Latest(a) = Message(t)
  <2>1. sent' = sent
    BY <1>1, <1>3 DEF Finish, Remember
  <2> QED
    BY <1>3, <2>1 DEF Latest
<1>4. CASE t.b # NoBallot /\ ~(sent[a] # <<>> /\ Latest(a) = Message(t))
  <2>1. PICK q : q = IF Len(sent[a]) < Backlog THEN sent[a] ELSE Tail(sent[a])
    OBVIOUS
  <2>2. sent' = [sent EXCEPT ![a] = Append(q, Message(t))]
    BY <1>1, <1>4, <2>1 DEF Finish, Remember
  <2>3. Len(sent[a]) < Backlog \/ sent[a] # <<>>
    BY <1>1, BoundsAssumption
  <2>4. q \in Seq(Messages)
    BY <1>1, <2>1, <2>3
  <2>5. Message(t) \in Messages
    BY <1>4, MessageIsTyped
  <2>6. sent'[a] = Append(q, Message(t))
    BY <1>1, <2>2
  <2>7. sent'[a] # <<>> /\ sent'[a][Len(sent'[a])] = Message(t)
    BY <2>4, <2>5, <2>6
  <2> QED
    BY <1>1, <1>4, <2>2, <2>7
<1> QED
  BY <1>2, <1>3, <1>4

\* A step of a node to a state that follows its own.
LEMMA FinishOrder ==
    ASSUME NetInv, OrderInv, NEW a \in Nodes, external[a] = Nil,
           NEW t, StateInv(t), t.publicKey = a, Follows(bs[a], t), Settled(t), Finish(a, t)
    PROVE  OrderInv' /\ NewerSent
<1>1. /\ bs \in [Nodes -> BallotStates] /\ external \in [Nodes -> ExternalizeMessages \cup {Nil}]
      /\ StateInv(bs[a])
  BY DEF NetInv, TypeOK
<1>2. PICK s : s = bs[a]
  OBVIOUS
<1>3. /\ StateInv(s) /\ s.phase # "Externalize" /\ Follows(s, t)
      /\ s.b = NoBallot => sent[a] = <<>>
      /\ s.b # NoBallot => sent[a] # <<>> /\ Latest(a) = Message(s)
  BY <1>1, <1>2 DEF OrderInv
<1>4. /\ \A v \in Nodes \ {a} : sent'[v] = sent[v]
      /\ t.b = NoBallot => sent' = sent
      /\ t.b # NoBallot => sent'[a] # <<>> /\ sent'[a][Len(sent'[a])] = Message(t)
  BY LatestSent
<1>5. t.b = NoBallot => s.b = NoBallot
  <2> SUFFICES ASSUME t.b = NoBallot PROVE s.b = NoBallot
    OBVIOUS
  <2>1. t.phase = "Prepare" /\ t.b.n = 0
    BY DEF StateInv, BallotKnown, NoBallot
  <2>2. /\ s.b.n \in Nat /\ (s.b # NoBallot <=> s.b.n > 0)
    BY <1>3, FieldTypes DEF StateInv
  <2>3. s.b.n <= t.b.n
    BY <1>3, <2>1, <2>2 DEF Follows, SaysTheSame, Rises
  <2> QED
    BY <2>1, <2>2, <2>3
<1>6. NewerSent
  <2> SUFFICES ASSUME NEW n \in Nodes, sent[n] # <<>>, sent'[n] # sent[n]
               PROVE  Newer(sent[n][Len(sent[n])], sent'[n][Len(sent'[n])])
    BY DEF NewerSent, Latest
  <2>1. n = a
    BY <1>4
  <2>2. s.b # NoBallot /\ t.b # NoBallot
    BY <1>3, <1>4, <2>1
  <2>3. Latest(a) = Message(s) /\ sent'[a][Len(sent'[a])] = Message(t)
    BY <1>3, <1>4, <2>2
  <2>4. CASE Message(t) = Message(s)
    <3>1. sent' = sent
      BY <1>3, <2>2, <2>3, <2>4 DEF Finish, Remember, StateInv
    <3> QED
      BY <3>1
  <2>5. CASE Newer(Message(s), Message(t))
    BY <2>1, <2>3, <2>5 DEF Latest
  <2> QED
    BY <1>3, <2>4, <2>5, FollowsIsNewer
<1>7. OrderInv'
  <2> SUFFICES ASSUME NEW n \in Nodes, external'[n] = Nil
               PROVE  /\ bs'[n].phase # "Externalize" /\ Settled(bs'[n])
                      /\ bs'[n].b = NoBallot => sent'[n] = <<>>
                      /\ bs'[n].b # NoBallot =>
                           sent'[n] # <<>> /\ sent'[n][Len(sent'[n])] = Message(bs'[n])
    BY DEF OrderInv, Latest
  <2>1. CASE n # a
    <3>1. bs'[n] = bs[n] /\ external'[n] = external[n] /\ sent'[n] = sent[n]
      BY <1>1, <1>4, <2>1 DEF Finish
    <3> QED
      BY <3>1 DEF OrderInv, Latest
  <2>2. CASE n = a
    <3>1. t.phase # "Externalize"
      <4> SUFFICES ASSUME t.phase = "Externalize" PROVE FALSE
        OBVIOUS
      <4>1. external' = [external EXCEPT ![a] = Message(t)]
        BY DEF Finish, StateInv
      <4>2. t.b # NoBallot
        BY DEF StateInv, BallotKnown
      <4>3. Message(t) # Nil
        BY <4>2, MessageIsTyped, NilIsNoMessage
      <4> QED
        BY <1>1, <2>2, <4>1, <4>3
    <3>2. bs'[a] = t
      BY <1>1, <3>1 DEF Finish
    <3> QED
      BY <1>3, <1>4, <1>5, <2>2, <3>1, <3>2
  <2> QED
    BY <2>1, <2>2
<1> QED
  BY <1>6, <1>7

\* Every step, in a network in which no node restarts.
LEMMA OrderInvNext ==
    ASSUME BlockersAreQuorums, MaxRestarts = 0, NetInv, OrderInv, [Next]_vars
    PROVE  OrderInv' /\ NewerSent
<1>1. /\ sent \in [Nodes -> Seq(Messages)] /\ restarts \in 0..MaxRestarts
      /\ \A n \in Nodes : bs[n].publicKey = n /\ StateInv(bs[n])
      /\ \A n \in Nodes : external[n] = Nil => Settled(bs[n])
  BY DEF NetInv, TypeOK, OrderInv
<1>2. CASE UNCHANGED <<bs, external, sent>>
  BY <1>2 DEF OrderInv, NewerSent, Latest
<1>3. ASSUME NEW n \in Nodes, Begin(n) PROVE OrderInv' /\ NewerSent
  <2>1. PICK cand \in Values : Finish(n, StartBallot(bs[n], cand))
    BY <1>3 DEF Begin
  <2>2. PICK t : t = StartBallot(bs[n], cand)
    OBVIOUS
  <2>3. StateInv(t) /\ t.publicKey = n
    BY <1>1, <2>2, BeginInv
  <2>4. external[n] = Nil /\ t = GoToNextBallot(bs[n], cand) /\ cand \in SlotValues
    BY <1>3, <2>2 DEF Begin, Running, StartBallot, SlotValues
  <2>5. Follows(bs[n], t) /\ Settled(t)
    BY <1>1, <2>4, NextBallotFollows
  <2> QED
    BY <2>1, <2>2, <2>3, <2>4, <2>5, FinishOrder
<1>4. ASSUME NEW n \in Nodes, Restart(n) PROVE FALSE
  BY <1>1, <1>4 DEF Restart
<1>5. ASSUME NEW n \in Nodes, NEW node \in Nodes \ {n}, ProcessDuplicate(n, node)
      PROVE  OrderInv' /\ NewerSent
  <2>1. PICK cand \in Candidates(bs[n]) :
          Finish(n, AssertValid(HandleDuplicate(bs[n], node, cand)))
    BY <1>5 DEF ProcessDuplicate
  <2>2. PICK t : t = AssertValid(HandleDuplicate(bs[n], node, cand))
    OBVIOUS
  <2>3. PICK s : s = bs[n]
    OBVIOUS
  <2>4. /\ StateInv(s) /\ s.publicKey = n /\ external[n] = Nil /\ Settled(s)
        /\ node \in Nodes /\ cand \in SlotValues
    BY <1>1, <1>5, <2>3, CandidatesAreValues DEF ProcessDuplicate, Running
  <2>5. StateInv(t) /\ t.publicKey = n
    BY <2>2, <2>3, <2>4, DuplicateInv, SMT
  <2>6. Follows(s, t) /\ Settled(t)
    BY <2>2, <2>3, <2>4, DuplicateFollows
  <2> QED
    BY <2>1, <2>2, <2>3, <2>4, <2>5, <2>6, FinishOrder
<1>6. ASSUME NEW n \in Nodes, NEW node \in Nodes \ {n}, NEW i \in 1..Len(sent[node]),
             ProcessNew(n, node, sent[node][i])
      PROVE  OrderInv' /\ NewerSent
  <2>1. PICK m : m = sent[node][i]
    OBVIOUS
  <2>2. m \in Messages
    BY <1>1, <2>1, SMTT(30)
  <2>3. PICK s : s = bs[n]
    OBVIOUS
  <2>4. PICK o \in Outcomes(s, node, m) :
          IF o.looping
          THEN stuck' = stuck \cup {n} /\ UNCHANGED <<bs, external, sent>>
          ELSE o.s.b.n <= MaxBallot /\ Finish(n, o.s) /\ UNCHANGED stuck
    BY <1>6, <2>1, <2>3 DEF ProcessNew
  <2>5. CASE o.looping
    BY <1>2, <2>4, <2>5
  <2>6. CASE ~o.looping
    <3>1. /\ StateInv(s) /\ s.publicKey = n /\ external[n] = Nil /\ Settled(s)
      BY <1>1, <1>6, <2>3 DEF ProcessNew, Running
    <3>2. StateInv(o.s) /\ o.s.publicKey = n
      BY <2>2, <3>1, OutcomeInv
    <3>3. Follows(s, o.s) /\ Settled(o.s)
      BY <2>2, <3>1, OutcomeFollows
    <3> QED
      BY <2>3, <2>4, <2>6, <3>1, <3>2, <3>3, FinishOrder
  <2> QED
    BY <2>5, <2>6
<1> QED
  BY <1>2, <1>3, <1>4, <1>5, <1>6 DEF Next, vars

\* Before the first step no node has said anything.
LEMMA OrderInvInit == Init => OrderInv
BY SMT DEF Init, OrderInv, NewBallotState, Settled

\* In every network in which the peers that block a node make a quorum with it
\* and no node restarts within the slot, whatever message a node sends after
\* another is newer by Compare, as Handle of the receiver needs it to be.
THEOREM MessagesInOrder ==
    ASSUME BlockersAreQuorums, MaxRestarts = 0
    PROVE  Spec => MessagesIncrease
<1>1. NetInv /\ OrderInv /\ [Next]_vars => OrderInv' /\ NewerSent
  BY OrderInvNext
<1>2. NewerSent => [\A n \in Nodes : sent[n] # <<>> /\ sent'[n] # sent[n] =>
                                       Newer(Latest(n), Latest(n)')]_vars
  BY DEF NewerSent
<1> QED
  BY <1>1, <1>2, NetInvariance, OrderInvInit, PTL DEF Spec, MessagesIncrease

\* The same of a network in which every node has all the nodes in its slice, with
\* a threshold of at most half of them and one more.
THEOREM ConfiguredMessagesInOrder ==
    ASSUME NEW T \in Nat \ {0}, Slice = ConfigSlice(T), 2 * T <= Cardinality(Nodes) + 2,
           MaxRestarts = 0
    PROVE  Spec => MessagesIncrease
<1>1. BlockersAreQuorums
  BY MajorityBlockersDecide DEF BlockersDecide, BlockersAreQuorums
<1> QED
  BY <1>1, MessagesInOrder

===============================================================================
