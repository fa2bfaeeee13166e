---------------------------- MODULE NominationProofs ----------------------------
(***************************************************************************)
(* Nomination, for any network, any slices and any values: the lists never *)
(* hold a value twice, no node unlearns what a peer said, and the lists of *)
(* all nodes move as federated voting allows.  What FederatedVotingProofs  *)
(* has of federated voting then holds of nomination.                       *)
(***************************************************************************)
EXTENDS Nomination, WellFoundedInduction, TLAPS

-------------------------------------------------------------------------------
(***************************************************************************)
(* Lists of values.                                                        *)
(***************************************************************************)

\* HasSlotValue looks for a member.
LEMMA HasIsMember ==
    ASSUME NEW list, NEW v
    PROVE  HasSlotValue(list, v) <=> v \in Members(list)
BY DEF HasSlotValue, Members

\* A list of values has values.
LEMMA MembersAreValues ==
    ASSUME NEW list \in Seq(Values)
    PROVE  Members(list) \subseteq Values
BY DEF Members

\* A prefix has fewer members, and prefixes of one list are comparable.
LEMMA PrefixMembers ==
    ASSUME NEW s \in Seq(Values), NEW t \in Seq(Values), Prefix(s, t)
    PROVE  Members(s) \subseteq Members(t)
BY DEF Prefix, Members

\* Prefixes are ordered.
LEMMA PrefixOrder ==
    ASSUME NEW s \in Seq(Values), NEW t \in Seq(Values), NEW u \in Seq(Values)
    PROVE  /\ Prefix(s, s)
           /\ Prefix(s, t) /\ Prefix(t, u) => Prefix(s, u)
           /\ Prefix(s, u) /\ Prefix(t, u) /\ Len(s) <= Len(t) => Prefix(s, t)
BY DEF Prefix

\* What Append does to the members.
LEMMA Appended ==
    ASSUME NEW s \in Seq(Values), NEW v \in Values, NEW t, t = Append(s, v)
    PROVE  /\ t \in Seq(Values) /\ Prefix(s, t) /\ Members(t) = Members(s) \cup {v}
           /\ NoDupes(s) /\ v \notin Members(s) => NoDupes(t)
<1>1. /\ t \in Seq(Values) /\ Len(t) = Len(s) + 1 /\ Len(s) \in Nat
      /\ \A i \in 1..Len(s) : t[i] = s[i]
      /\ t[Len(s) + 1] = v
  OBVIOUS
<1>2. \A i \in 1..Len(t) : i \in 1..Len(s) \/ i = Len(s) + 1
  BY <1>1
<1>3. Members(t) = Members(s) \cup {v}
  <2>1. Members(t) \subseteq Members(s) \cup {v}
    BY <1>1, <1>2 DEF Members
  <2>2. Members(s) \subseteq Members(t)
    BY <1>1 DEF Members
  <2>3. v \in Members(t)
    BY <1>1 DEF Members
  <2> QED
    BY <2>1, <2>2, <2>3
<1>4. Prefix(s, t)
  BY <1>1 DEF Prefix
<1>5. ASSUME NoDupes(s), v \notin Members(s) PROVE NoDupes(t)
  <2> SUFFICES ASSUME NEW i \in 1..Len(t), NEW j \in 1..Len(t), t[i] = t[j] PROVE i = j
    BY DEF NoDupes
  <2>1. \A k \in 1..Len(s) : s[k] # v
    BY <1>5 DEF Members
  <2>2. CASE i \in 1..Len(s) /\ j \in 1..Len(s)
    BY <1>1, <1>5, <2>2 DEF NoDupes
  <2> QED
    BY <1>1, <1>2, <2>1, <2>2
<1> QED
  BY <1>1, <1>3, <1>4, <1>5

-------------------------------------------------------------------------------
(***************************************************************************)
(* Loops over a list.  A set R that the body of a loop does not leave is   *)
(* not left by the loop.                                                   *)
(***************************************************************************)

\* Induction over the natural numbers, for a set of numbers.
LEMMA Induction ==
    ASSUME NEW S, 0 \in S, \A n \in Nat : n \in S => n + 1 \in S
    PROVE  Nat \subseteq S
<1> SUFFICES ASSUME Nat \ S # {} PROVE FALSE
  OBVIOUS
<1>1. PICK n \in Nat \ S : \A m \in Nat \ S : ~(<<m, n>> \in OpToRel(<, Nat))
  BY NatLessThanWellFounded, WFMin, Zenon
<1>2. \A m \in Nat \ S : ~(m < n)
  BY <1>1, Zenon DEF OpToRel
<1>3. n # 0 /\ n - 1 \in Nat /\ n - 1 < n /\ (n - 1) + 1 = n
  OBVIOUS
<1> QED
  BY <1>2, <1>3

\* f is what a loop of k rounds computes: G is the body, s the state before.
Loop(f, G, s, k) == f = [i \in 0..k |-> IF i = 0 THEN s ELSE G[<<f[i-1], i>>]]

\* That function exists, and stays in the set.
LEMMA LoopExists ==
    ASSUME NEW R, NEW s \in R, NEW k \in Nat, NEW G \in [R \X (1..k) -> R]
    PROVE  \E f \in [0..k -> R] : Loop(f, G, s, k)
<1> DEFINE Rec(f, h) == /\ f \in [0..h -> R]
                        /\ f = [i \in 0..h |-> IF i = 0 THEN s ELSE G[<<f[i-1], i>>]]
           S == {h \in Nat : h <= k => \E f : Rec(f, h)}
<1>0. \A t \in R, i \in 1..k : G[<<t, i>>] \in R
  OBVIOUS
<1>1. 0 \in S
  <2>1. Rec([i \in 0..0 |-> s], 0)
    OBVIOUS
  <2> HIDE DEF Rec
  <2> QED
    BY <2>1
<1>2. \A h \in Nat : h \in S => h + 1 \in S
  <2> SUFFICES ASSUME NEW h \in Nat, h \in S, h + 1 <= k PROVE \E f : Rec(f, h + 1)
    OBVIOUS
  <2>1. PICK f : Rec(f, h)
    OBVIOUS
  <2>2. PICK g : g = [i \in 0..(h+1) |-> IF i = h + 1 THEN G[<<f[h], i>>] ELSE f[i]]
    BY Zenon
  <2>3. f \in [0..h -> R] /\ f[h] \in R /\ G[<<f[h], h + 1>>] \in R
    BY <1>0, <2>1
  <2>4. g \in [0..(h+1) -> R]
    BY <2>2, <2>3
  <2>5. \A i \in 0..(h+1) : g[i] = IF i = 0 THEN s ELSE G[<<g[i-1], i>>]
    <3> SUFFICES ASSUME NEW i \in 0..(h+1)
                 PROVE  g[i] = IF i = 0 THEN s ELSE G[<<g[i-1], i>>]
      OBVIOUS
    <3>1. CASE i = h + 1
      BY <3>1, <2>2
    <3>2. CASE i # h + 1
      <4>1. i \in 0..h /\ g[i] = f[i] /\ (i # 0 => g[i-1] = f[i-1])
        BY <3>2, <2>2
      <4>2. f[i] = IF i = 0 THEN s ELSE G[<<f[i-1], i>>]
        BY <4>1, <2>1
      <4> QED
        BY <4>1, <4>2, Zenon
    <3> QED
      BY <3>1, <3>2
  <2>6. Rec(g, h + 1)
    BY <2>4, <2>5
  <2> QED
    BY <2>6, Zenon
<1>3. k \in S
  <2> HIDE DEF S
  <2> QED
    BY <1>1, <1>2, Induction
<1> QED
  BY <1>3 DEF Loop

\* Each round of g stays in R when it starts there.
Keeping(g, R, k) == g[0] \in R /\ \A i \in 1..k : g[i-1] \in R => g[i] \in R

\* Then so does the whole loop.
LEMMA LoopKeeps ==
    ASSUME NEW R, NEW k \in Nat, NEW g, Keeping(g, R, k)
    PROVE  g[k] \in R
<1> DEFINE S == {h \in Nat : h <= k => g[h] \in R}
<1>1. 0 \in S
  BY DEF Keeping
<1>2. \A h \in Nat : h \in S => h + 1 \in S
  <2> SUFFICES ASSUME NEW h \in Nat, h \in S, h + 1 <= k PROVE g[h + 1] \in R
    OBVIOUS
  <2>1. h + 1 \in 1..k /\ (h + 1) - 1 = h
    OBVIOUS
  <2> QED
    BY <2>1 DEF Keeping
<1>3. k \in S
  <2> HIDE DEF S
  <2> QED
    BY <1>1, <1>2, Induction
<1> QED
  BY <1>3

\* What AddNew makes of a list: it goes on with allowed values, none of them twice.
Extends(list, L, allowed) ==
    /\ L \in Seq(Values)
    /\ Prefix(list, L)
    /\ NoDupes(list) => NoDupes(L)
    /\ Members(L) \subseteq Members(list) \cup allowed

\* AddNew only adds what is new and allowed.
LEMMA AddNewExtends ==
    ASSUME NEW list \in Seq(Values), NEW new \in Seq(Values), NEW allowed
    PROVE  Extends(list, AddNew(list, new, allowed), allowed)
<1> DEFINE R == {L \in Seq(Values) : Extends(list, L, allowed)}
           k == Len(new)
           Round(L, i) == IF HasSlotValue(L, new[i]) \/ new[i] \notin allowed THEN L
                          ELSE Append(L, new[i])
           G == [p \in R \X (1..k) |-> Round(p[1], p[2])]
<1>1. k \in Nat /\ \A i \in 1..k : new[i] \in Values
  OBVIOUS
<1>2. list \in R
  BY PrefixOrder DEF Extends
<1>3. \A L \in R, i \in 1..k : Round(L, i) \in R
  <2> SUFFICES ASSUME NEW L \in R, NEW i \in 1..k, new[i] \notin Members(L), new[i] \in allowed
               PROVE  Append(L, new[i]) \in R
    BY HasIsMember
  <2>1. PICK M : M = Append(L, new[i])
    BY Zenon
  <2>2. /\ M \in Seq(Values) /\ Prefix(L, M) /\ Members(M) = Members(L) \cup {new[i]}
        /\ NoDupes(L) => NoDupes(M)
    BY <1>1, <2>1, Appended, Zenon
  <2>3. Prefix(list, M)
    BY <2>2, PrefixOrder DEF Extends
  <2> QED
    BY <2>1, <2>2, <2>3 DEF Extends
<1> HIDE DEF Round
<1>4. G \in [R \X (1..k) -> R]
  BY <1>3
<1>5. PICK f \in [0..k -> R] : Loop(f, G, list, k)
  <2> HIDE DEF G, R, k
  <2> QED
    BY <1>1, <1>2, <1>4, LoopExists, Zenon
<1>6. f = [i \in 0..k |-> IF i = 0 THEN list ELSE Round(f[i-1], i)]
  <2>1. \A i \in 0..k : i # 0 => G[<<f[i-1], i>>] = Round(f[i-1], i)
    <3> SUFFICES ASSUME NEW i \in 0..k, i # 0 PROVE G[<<f[i-1], i>>] = Round(f[i-1], i)
      BY Zenon
    <3>1. PICK L \in R : L = f[i-1]
      <4>1. i - 1 \in 0..k
        BY <1>1
      <4> QED
        BY <4>1, SMTT(30)
    <3>2. <<L, i>> \in R \X (1..k)
      BY <1>1
    <3>3. G[<<L, i>>] = Round(L, i)
      BY <3>2
    <3> QED
      BY <3>1, <3>3
  <2> HIDE DEF R, k, G
  <2> QED
    BY <1>5, <2>1, Zenon DEF Loop
<1> DEFINE g == CHOOSE u : u = [i \in 0..k |-> IF i = 0 THEN list ELSE Round(u[i-1], i)]
<1>7. g = [i \in 0..k |-> IF i = 0 THEN list ELSE Round(g[i-1], i)]
  BY <1>6, Zenon
<1>8. AddNew(list, new, allowed) = g[k]
  BY DEF AddNew, Round
<1> HIDE DEF g
<1>9. Keeping(g, R, k)
  <2> HIDE DEF R
  <2> QED
    BY <1>1, <1>2, <1>3, <1>7, SMTT(30) DEF Keeping
<1>10. g[k] \in R
  <2> HIDE DEF R, k
  <2> QED
    BY <1>1, <1>9, LoopKeeps, Zenon
<1> QED
  BY <1>8, <1>10

-------------------------------------------------------------------------------
(***************************************************************************)
(* Accepting and confirming.                                               *)
(***************************************************************************)

\* A set that contains a quorum of us contains one still when it grows.
LEMMA QuorumGrows ==
    ASSUME NEW us, NEW S, NEW T, S \subseteq T, MeetsQuorum(us, S)
    PROVE  MeetsQuorum(us, T)
BY DEF MeetsQuorum

\* The peers that accepted v, without ourselves.
PeersAccepting(s, v) == {n \in HeardFrom(s) : HasSlotValue(s.N[n].Acc, v)}

\* What has to hold of v before it is accepted.
Acceptable(s, v) ==
    \/ MeetsQuorum(s.publicKey, VotedOrAccepted(s, v))
    \/ BlockedBy(Slice[s.publicKey], PeersAccepting(s, v))

\* What MaybeAdvance, and a loop of it, may do to the state.
Advances(s, t) ==
    /\ t \in NominationStates
    /\ t.publicKey = s.publicKey /\ t.X = s.X /\ t.N = s.N
    /\ Prefix(s.Y, t.Y) /\ (NoDupes(s.Y) => NoDupes(t.Y))
    /\ Prefix(s.Z, t.Z) /\ (NoDupes(s.Z) => NoDupes(t.Z))
    /\ \A v \in Members(t.Y) \ Members(s.Y) : Acceptable(t, v)
    /\ \A v \in Members(t.Z) \ Members(s.Z) : MeetsQuorum(t.publicKey, Accepted(t, v))

\* Who is in favour does not depend on the lists Y and Z, and more are accepting
\* when Y is longer.
LEMMA ViewsGrow ==
    ASSUME NEW s \in NominationStates, NEW t \in NominationStates, NEW v,
           t.publicKey = s.publicKey, t.X = s.X, t.N = s.N, Prefix(s.Y, t.Y)
    PROVE  /\ Acceptable(t, v) <=> Acceptable(s, v)
           /\ Accepted(s, v) \subseteq Accepted(t, v)
<1>1. HeardFrom(t) = HeardFrom(s)
  BY DEF HeardFrom
<1>2. VotedOrAccepted(t, v) = VotedOrAccepted(s, v) /\ PeersAccepting(t, v) = PeersAccepting(s, v)
  BY <1>1 DEF VotedOrAccepted, PeersAccepting, Ourselves
<1>3. HasSlotValue(s.Y, v) => HasSlotValue(t.Y, v)
  <2>1. s.Y \in Seq(Values) /\ t.Y \in Seq(Values)
    BY DEF NominationStates
  <2> QED
    BY <2>1, PrefixMembers, HasIsMember
<1>4. Accepted(s, v) \subseteq Accepted(t, v)
  BY <1>1, <1>3 DEF Accepted, Ourselves
<1> QED
  BY <1>2, <1>4 DEF Acceptable

\* Two advances are one.
LEMMA AdvancesTwice ==
    ASSUME NEW s \in NominationStates, NEW t \in NominationStates, NEW u \in NominationStates,
           Advances(s, t), Advances(t, u)
    PROVE  Advances(s, u)
<1>1. /\ s.Y \in Seq(Values) /\ t.Y \in Seq(Values) /\ u.Y \in Seq(Values)
      /\ s.Z \in Seq(Values) /\ t.Z \in Seq(Values) /\ u.Z \in Seq(Values)
  BY DEF NominationStates
<1>2. Prefix(s.Y, u.Y) /\ Prefix(s.Z, u.Z)
  BY <1>1, PrefixOrder DEF Advances
<1>3. \A v \in Members(u.Y) \ Members(s.Y) : Acceptable(u, v)
  BY ViewsGrow DEF Advances
<1>4. \A v \in Members(u.Z) \ Members(s.Z) : MeetsQuorum(u.publicKey, Accepted(u, v))
  BY ViewsGrow, QuorumGrows DEF Advances
<1> QED
  BY <1>2, <1>3, <1>4 DEF Advances

\* A state that stays as it is advances.
LEMMA StaysPut ==
    ASSUME NEW s \in NominationStates
    PROVE  Advances(s, s)
<1>1. s.Y \in Seq(Values) /\ s.Z \in Seq(Values)
  BY DEF NominationStates
<1> QED
  BY <1>1, PrefixOrder DEF Advances

\* The first half of MaybeAdvance.
LEMMA MaybeAcceptAdvances ==
    ASSUME NEW s \in NominationStates, NEW v \in Values
    PROVE  Advances(s, MaybeAccept(s, v))
<1>1. CASE MaybeAccept(s, v) = s
  BY <1>1, StaysPut
<1>2. CASE MaybeAccept(s, v) # s
  <2>1. /\ ~HasSlotValue(s.Y, v)
        /\ \/ MeetsQuorum(s.publicKey, VotedOrAccepted(s, v))
           \/ BlockedBy(Slice[s.publicKey], Accepted(s, v))
        /\ MaybeAccept(s, v) = [s EXCEPT !.Y = Append(@, v)]
    BY <1>2 DEF MaybeAccept
  <2>2. Accepted(s, v) = PeersAccepting(s, v)
    BY <2>1 DEF Accepted, PeersAccepting, Ourselves
  <2>3. s.Y \in Seq(Values) /\ s.Z \in Seq(Values)
    BY DEF NominationStates
  <2>4. PICK L : L = Append(s.Y, v)
    BY Zenon
  <2>5. /\ L \in Seq(Values) /\ Prefix(s.Y, L) /\ Members(L) = Members(s.Y) \cup {v}
        /\ NoDupes(s.Y) => NoDupes(L)
    BY <2>1, <2>3, <2>4, Appended, HasIsMember, Zenon
  <2>6. PICK t : t = [s EXCEPT !.Y = L]
    BY Zenon
  <2>7. /\ t \in NominationStates /\ t.publicKey = s.publicKey /\ t.X = s.X /\ t.N = s.N
        /\ t.Y = L /\ t.Z = s.Z
    BY <2>5, <2>6, Zenon DEF NominationStates
  <2>8. Acceptable(t, v)
    BY <2>1, <2>2, <2>5, <2>7, ViewsGrow DEF Acceptable
  <2>9. Advances(s, t)
    BY <2>3, <2>5, <2>7, <2>8, PrefixOrder DEF Advances
  <2> QED
    BY <2>1, <2>4, <2>6, <2>9
<1> QED
  BY <1>1, <1>2

\* The second half of MaybeAdvance.
LEMMA MaybeConfirmAdvances ==
    ASSUME NEW s \in NominationStates, NEW v \in Values, ~HasSlotValue(s.Z, v)
    PROVE  Advances(s, MaybeConfirm(s, v))
<1>1. CASE ~MeetsQuorum(s.publicKey, Accepted(s, v))
  BY <1>1, StaysPut DEF MaybeConfirm
<1>2. CASE MeetsQuorum(s.publicKey, Accepted(s, v))
  <2>3. s.Y \in Seq(Values) /\ s.Z \in Seq(Values)
    BY DEF NominationStates
  <2>4. PICK L : L = Append(s.Z, v)
    BY Zenon
  <2>5. /\ L \in Seq(Values) /\ Prefix(s.Z, L) /\ Members(L) = Members(s.Z) \cup {v}
        /\ NoDupes(s.Z) => NoDupes(L)
    BY <2>3, <2>4, Appended, HasIsMember, Zenon
  <2>6. PICK t : t = [s EXCEPT !.Z = L]
    BY Zenon
  <2>7. /\ t \in NominationStates /\ t.publicKey = s.publicKey /\ t.X = s.X /\ t.N = s.N
        /\ t.Y = s.Y /\ t.Z = L
    BY <2>5, <2>6, Zenon DEF NominationStates
  <2>8. Prefix(s.Y, t.Y)
    BY <2>3, <2>7, PrefixOrder
  <2>9. MeetsQuorum(t.publicKey, Accepted(t, v))
    BY <1>2, <2>7, <2>8, ViewsGrow, QuorumGrows
  <2>10. Advances(s, t)
    BY <2>5, <2>7, <2>8, <2>9 DEF Advances
  <2> QED
    BY <1>2, <2>4, <2>6, <2>10 DEF MaybeConfirm
<1> QED
  BY <1>1, <1>2

\* Both halves.
LEMMA MaybeAdvanceAdvances ==
    ASSUME NEW s \in NominationStates, NEW v \in Values
    PROVE  Advances(s, MaybeAdvance(s, v))
<1>1. CASE HasSlotValue(s.Z, v)
  BY <1>1, StaysPut DEF MaybeAdvance
<1>2. CASE ~HasSlotValue(s.Z, v)
  <2>1. PICK t : t = MaybeAccept(s, v)
    OBVIOUS
  <2>2. Advances(s, t) /\ t \in NominationStates
    BY <2>1, MaybeAcceptAdvances DEF Advances
  <2>3. t.Z = s.Z
    BY <2>1 DEF MaybeAccept, NominationStates
  <2>4. PICK u : u = MaybeConfirm(t, v)
    OBVIOUS
  <2>5. Advances(t, u) /\ u \in NominationStates
    BY <1>2, <2>2, <2>3, <2>4, MaybeConfirmAdvances DEF Advances
  <2>6. Advances(s, u)
    BY <2>2, <2>5, AdvancesTwice
  <2> QED
    BY <1>2, <2>1, <2>4, <2>6 DEF MaybeAdvance
<1> QED
  BY <1>1, <1>2

\* The loop over the values that a message touched.
LEMMA AdvanceAllAdvances ==
    ASSUME NEW s \in NominationStates, NEW touched \in Seq(Values)
    PROVE  Advances(s, AdvanceAll(s, touched))
<1> DEFINE R == {t \in NominationStates : Advances(s, t)}
           k == Len(touched)
           G == [p \in R \X (1..k) |-> MaybeAdvance(p[1], touched[p[2]])]
<1>1. k \in Nat /\ \A i \in 1..k : touched[i] \in Values
  OBVIOUS
<1>2. s \in R
  BY StaysPut
<1>3. \A t \in R, i \in 1..k : MaybeAdvance(t, touched[i]) \in R
  <2> SUFFICES ASSUME NEW t \in R, NEW i \in 1..k PROVE MaybeAdvance(t, touched[i]) \in R
    OBVIOUS
  <2>1. PICK u : u = MaybeAdvance(t, touched[i])
    OBVIOUS
  <2>2. Advances(t, u) /\ u \in NominationStates
    BY <1>1, <2>1, MaybeAdvanceAdvances, SMTT(30) DEF Advances
  <2> QED
    BY <2>1, <2>2, AdvancesTwice
<1>4. G \in [R \X (1..k) -> R]
  BY <1>3
<1>5. PICK f \in [0..k -> R] : Loop(f, G, s, k)
  <2> HIDE DEF G, R, k
  <2> QED
    BY <1>1, <1>2, <1>4, LoopExists, Zenon
<1>6. f = [i \in 0..k |-> IF i = 0 THEN s ELSE MaybeAdvance(f[i-1], touched[i])]
  <2>1. \A i \in 0..k : i # 0 => G[<<f[i-1], i>>] = MaybeAdvance(f[i-1], touched[i])
    <3> SUFFICES ASSUME NEW i \in 0..k, i # 0
                 PROVE  G[<<f[i-1], i>>] = MaybeAdvance(f[i-1], touched[i])
      OBVIOUS
    <3>1. PICK t \in R : t = f[i-1]
      BY <1>1
    <3>2. <<t, i>> \in R \X (1..k)
      BY <1>1
    <3>3. G[<<t, i>>] = MaybeAdvance(t, touched[i])
      BY <3>2
    <3> QED
      BY <3>1, <3>3
  <2> HIDE DEF R, k, G
  <2> QED
    BY <1>5, <2>1 DEF Loop
<1> DEFINE g == CHOOSE u :
                  u = [i \in 0..k |-> IF i = 0 THEN s ELSE MaybeAdvance(u[i-1], touched[i])]
<1>7. g = [i \in 0..k |-> IF i = 0 THEN s ELSE MaybeAdvance(g[i-1], touched[i])]
  BY <1>6, SMTT(30)
<1>8. AdvanceAll(s, touched) = g[k]
  BY DEF AdvanceAll
<1> HIDE DEF g
<1>9. Keeping(g, R, k)
  <2> HIDE DEF R
  <2> QED
    BY <1>1, <1>2, <1>3, <1>7 DEF Keeping
<1>10. g[k] \in R
  <2> HIDE DEF R, k
  <2> QED
    BY <1>1, <1>9, LoopKeeps, Zenon
<1> QED
  BY <1>8, <1>10

-------------------------------------------------------------------------------
(***************************************************************************)
(* Handling a message, and nominating a value of our own.                  *)
(***************************************************************************)

\* How the state of a node with the valid values V may change in a step: N is
\* what the node has from its peers after it.
Responds(s, t, N, V) ==
    /\ t \in NominationStates
    /\ t.publicKey = s.publicKey
    /\ t.N = N
    /\ Prefix(s.X, t.X) /\ (NoDupes(s.X) => NoDupes(t.X))
    /\ Prefix(s.Y, t.Y) /\ (NoDupes(s.Y) => NoDupes(t.Y))
    /\ Prefix(s.Z, t.Z) /\ (NoDupes(s.Z) => NoDupes(t.Z))
    /\ Members(t.X) \subseteq Members(s.X) \cup V
    /\ \A v \in Members(t.Y) \ Members(s.Y) : Acceptable(t, v)
    /\ \A v \in Members(t.Z) \ Members(s.Z) : MeetsQuorum(t.publicKey, Accepted(t, v))

\* A message that is not new is counted.
LEMMA CountMessageResponds ==
    ASSUME NEW s \in NominationStates, NEW V
    PROVE  Responds(s, CountMessage(s), s.N, V)
<1>1. PICK k \in Nat : CountMessage(s) = [s EXCEPT !.received = k]
  <2>1. s.received \in Nat
    BY DEF NominationStates
  <2>2. CASE s.received < TurnComes(s.publicKey)
    BY <2>1, <2>2 DEF CountMessage
  <2>3. CASE ~(s.received < TurnComes(s.publicKey))
    BY <2>1, <2>3 DEF CountMessage
  <2> QED
    BY <2>2, <2>3
<1>2. PICK t : t = CountMessage(s)
  OBVIOUS
<1>3. /\ t \in NominationStates /\ t.publicKey = s.publicKey /\ t.N = s.N
      /\ t.X = s.X /\ t.Y = s.Y /\ t.Z = s.Z
  BY <1>1, <1>2 DEF NominationStates
<1>4. s.X \in Seq(Values) /\ s.Y \in Seq(Values) /\ s.Z \in Seq(Values)
  BY DEF NominationStates
<1> QED
  BY <1>2, <1>3, <1>4, PrefixOrder DEF Responds

\* A message that is new is stored and answered.
LEMMA HandleNominationResponds ==
    ASSUME NEW s \in NominationStates, NEW node \in Nodes, NEW m \in NominationMessages,
           NEW V, ~IsStale(Known(s, node), m)
    PROVE  Responds(s, HandleNomination(s, node, m, V), [s.N EXCEPT ![node] = m], V)
<1> DEFINE old == Known(s, node)
           newNom == SubSeq(m.Nom, Len(old.Nom) + 1, Len(m.Nom))
           newAcc == SubSeq(m.Acc, Len(old.Acc) + 1, Len(m.Acc))
           counted == CountMessage(s)
<1>1. old \in NominationMessages
  BY DEF Known, NoMessage, NominationMessages, NominationStates
<1>2. /\ Len(old.Nom) \in Nat /\ Len(old.Acc) \in Nat
      /\ m.Nom \in Seq(Values) /\ m.Acc \in Seq(Values)
  BY <1>1 DEF NominationMessages
<1> HIDE DEF old
<1>3. newNom \in Seq(Values) /\ newAcc \in Seq(Values)
  BY <1>2
<1> HIDE DEF newNom, newAcc
<1>4. /\ counted \in NominationStates /\ counted.publicKey = s.publicKey /\ counted.N = s.N
      /\ counted.X = s.X /\ counted.Y = s.Y /\ counted.Z = s.Z
  <2>1. Responds(s, counted, s.N, V)
    BY CountMessageResponds
  <2>2. counted.X = s.X /\ counted.Y = s.Y /\ counted.Z = s.Z
    BY DEF CountMessage, NominationStates
  <2> QED
    BY <2>1, <2>2 DEF Responds
<1>5. PICK N \in [Nodes -> NominationMessages \cup {Nil}] : N = [s.N EXCEPT ![node] = m]
  <2>1. s.N \in [Nodes -> NominationMessages \cup {Nil}]
    BY DEF NominationStates
  <2> QED
    BY <2>1, Zenon
<1>6. PICK stored : stored = [counted EXCEPT !.N = N]
  BY Zenon
<1>7. stored = [counted EXCEPT !.N[node] = m]
  BY <1>4, <1>5, <1>6 DEF NominationStates
<1>8. /\ stored \in NominationStates /\ stored.publicKey = s.publicKey /\ stored.N = N
      /\ stored.X = s.X /\ stored.Y = s.Y /\ stored.Z = s.Z
  <2> HIDE DEF counted
  <2> QED
    BY <1>4, <1>5, <1>6, Zenon DEF NominationStates
<1>9. s.X \in Seq(Values) /\ s.Y \in Seq(Values) /\ s.Z \in Seq(Values)
  BY DEF NominationStates
<1>10. PICK L \in Seq(Values) : L = AddNew(s.X, newNom, V) /\ Extends(s.X, L, V)
  BY <1>3, <1>9, AddNewExtends DEF Extends
<1>11. PICK w : w = [stored EXCEPT !.X = L]
  BY Zenon
<1>12. w = Support(stored, newNom, V)
  BY <1>8, <1>10, <1>11 DEF Support
<1>13. /\ w \in NominationStates /\ w.publicKey = s.publicKey /\ w.N = N
       /\ w.X = L /\ w.Y = s.Y /\ w.Z = s.Z
  BY <1>8, <1>11, Zenon DEF NominationStates
<1>14. Touched(newNom, newAcc) \in Seq(Values)
  <2>1. <<>> \in Seq(Values)
    OBVIOUS
  <2>2. AddNew(<<>>, newNom, Values) \in Seq(Values)
    BY <1>3, <2>1, AddNewExtends, Zenon DEF Extends
  <2> QED
    BY <1>3, <2>2, AddNewExtends DEF Extends, Touched
<1>15. PICK t : t = AdvanceAll(w, Touched(newNom, newAcc))
  OBVIOUS
<1>16. Advances(w, t)
  BY <1>13, <1>14, <1>15, AdvanceAllAdvances
<1>17. Responds(s, t, N, V)
  BY <1>10, <1>13, <1>16 DEF Responds, Advances, Extends
<1>18. t = HandleNomination(s, node, m, V)
  BY <1>7, <1>12, <1>15 DEF HandleNomination, old, newNom, newAcc
<1> QED
  BY <1>5, <1>17, <1>18

\* Nominating is one more vote, at most, and only for a value of the store.
LEMMA NominateResponds ==
    ASSUME NEW s \in NominationStates, NEW t \in NominationStates, NEW N, NEW V \in SUBSET Values,
           NEW n, NEW v \in Suggestions(n, V), Responds(s, t, N, V)
    PROVE  Responds(s, MaybeNominateNewValue(t, v), N, V)
<1>1. CASE MaybeNominateNewValue(t, v) = t
  BY <1>1
<1>2. CASE MaybeNominateNewValue(t, v) # t
  <2>1. t.X = <<>> /\ v # Nil /\ MaybeNominateNewValue(t, v) = [t EXCEPT !.X = <<v>>]
    BY <1>2 DEF MaybeNominateNewValue, HasNomination
  <2>2. v \in V /\ v \in Values
    BY <2>1 DEF Suggestions
  <2>3. PICK L : L = <<v>>
    BY Zenon
  <2>4. /\ L \in Seq(Values) /\ Len(L) = 1 /\ L[1] = v
        /\ Prefix(<<>>, L) /\ NoDupes(L) /\ Members(L) = {v}
    BY <2>2, <2>3 DEF Prefix, NoDupes, Members
  <2>5. PICK u : u = [t EXCEPT !.X = L]
    BY Zenon
  <2>6. /\ u \in NominationStates /\ u.publicKey = t.publicKey /\ u.N = t.N
        /\ u.X = L /\ u.Y = t.Y /\ u.Z = t.Z
    BY <2>4, <2>5, Zenon DEF NominationStates
  <2>7. Prefix(s.X, L)
    <3>1. s.X \in Seq(Values) /\ <<>> \in Seq(Values)
      BY DEF NominationStates
    <3>2. Prefix(s.X, <<>>)
      BY <2>1 DEF Responds
    <3> QED
      BY <2>4, <3>1, <3>2, PrefixOrder, Zenon
  <2>8. \A x : VotedOrAccepted(t, x) \subseteq VotedOrAccepted(u, x)
    BY <2>1, <2>6 DEF VotedOrAccepted, HeardFrom, Ourselves, HasSlotValue
  <2>9. \A x : Acceptable(t, x) => Acceptable(u, x)
    <3>1. \A x : PeersAccepting(u, x) = PeersAccepting(t, x)
      BY <2>6 DEF PeersAccepting, HeardFrom
    <3> QED
      BY <2>6, <2>8, <3>1, QuorumGrows DEF Acceptable
  <2>10. \A x : Accepted(u, x) = Accepted(t, x)
    BY <2>6 DEF Accepted, HeardFrom, Ourselves
  <2>11. Responds(s, u, N, V)
    BY <2>2, <2>4, <2>6, <2>7, <2>9, <2>10 DEF Responds
  <2> QED
    BY <2>1, <2>3, <2>5, <2>11
<1> QED
  BY <1>1, <1>2

\* To do nothing is a response.
LEMMA NothingResponds ==
    ASSUME NEW s \in NominationStates, NEW V
    PROVE  Responds(s, s, s.N, V)
<1>1. s.X \in Seq(Values) /\ s.Y \in Seq(Values) /\ s.Z \in Seq(Values)
  BY DEF NominationStates
<1> QED
  BY <1>1, PrefixOrder DEF Responds

-------------------------------------------------------------------------------
(***************************************************************************)
(* The network.                                                            *)
(***************************************************************************)

\* The node with the state s has said m: its lists only grew since.
Told(s, m) ==
    /\ m \in NominationMessages
    /\ Prefix(m.Nom, s.X)
    /\ Prefix(m.Acc, s.Y)

\* The inductive invariant: whatever a node sent, and whatever a peer has from it,
\* its lists go on from there, and it could validate all that it voted for.
NominationInv ==
    /\ TypeOK
    /\ ListsHaveNoDupes
    /\ \A k \in Nodes : sent[k] # <<>> /\ \A i \in 1..Len(sent[k]) : Told(ns[k], sent[k][i])
    /\ \A n, k \in Nodes : ns[n].N[k] # Nil => Told(ns[k], ns[n].N[k])
    /\ \A k \in Nodes : Members(ns[k].X) \subseteq valid[k]

\* The state of n becomes t, and n sends what it has to say now.
Step(n, t) ==
    /\ ns' = [ns EXCEPT ![n] = t]
    /\ Remember(n, NominationMessage(t))
    /\ valid' \in [Nodes -> SUBSET Values]
    /\ \A k \in Nodes : valid[k] \subseteq valid'[k]
    /\ Responds(ns[n], t, t.N, valid'[n])
    /\ \A k \in Nodes : t.N[k] = ns[n].N[k] \/ (t.N[k] # NoMessage /\ Told(ns[k], t.N[k]))

\* A step changes the state of one node, whose lists go on.
LEMMA StepStates ==
    ASSUME NominationInv, NEW n \in Nodes, NEW t, Step(n, t)
    PROVE  /\ ns' \in [Nodes -> NominationStates] /\ t \in NominationStates
           /\ ns'[n] = t /\ \A k \in Nodes : k # n => ns'[k] = ns[k]
           /\ \A k \in Nodes : /\ ns[k] \in NominationStates
                               /\ ns[k].X \in Seq(Values) /\ ns'[k].X \in Seq(Values)
                               /\ ns[k].Y \in Seq(Values) /\ ns'[k].Y \in Seq(Values)
                               /\ Prefix(ns[k].X, ns'[k].X) /\ Prefix(ns[k].Y, ns'[k].Y)
<1>1. /\ ns \in [Nodes -> NominationStates] /\ t \in NominationStates
      /\ ns' = [ns EXCEPT ![n] = t]
  BY DEF NominationInv, TypeOK, Step, Responds
<1>2. /\ ns' \in [Nodes -> NominationStates]
      /\ ns'[n] = t /\ \A k \in Nodes : k # n => ns'[k] = ns[k]
  BY <1>1
<1>3. \A k \in Nodes : /\ ns[k].X \in Seq(Values) /\ ns'[k].X \in Seq(Values)
                       /\ ns[k].Y \in Seq(Values) /\ ns'[k].Y \in Seq(Values)
  BY <1>1, <1>2 DEF NominationStates
<1>4. ASSUME NEW k \in Nodes PROVE Prefix(ns[k].X, ns'[k].X) /\ Prefix(ns[k].Y, ns'[k].Y)
  <2>1. CASE k = n
    BY <1>2, <2>1 DEF Step, Responds
  <2>2. CASE k # n
    BY <1>2, <1>3, <2>2, PrefixOrder
  <2> QED
    BY <2>1, <2>2
<1> QED
  BY <1>1, <1>2, <1>3, <1>4

\* What has been said stays true.
LEMMA ToldForGood ==
    ASSUME NominationInv, NEW n \in Nodes, NEW t, Step(n, t), NEW k \in Nodes, NEW m, Told(ns[k], m)
    PROVE  Told(ns'[k], m)
<1>1. m.Nom \in Seq(Values) /\ m.Acc \in Seq(Values)
  BY DEF Told, NominationMessages
<1> QED
  BY <1>1, StepStates, PrefixOrder DEF Told

\* What n sends is true of n, and so is what it sent before.
LEMMA SentIsTold ==
    ASSUME NominationInv, NEW n \in Nodes, NEW t, Step(n, t)
    PROVE  /\ sent' \in [Nodes -> Seq(NominationMessages)]
           /\ \A k \in Nodes : /\ sent'[k] # <<>>
                               /\ \A i \in 1..Len(sent'[k]) : Told(ns'[k], sent'[k][i])
<1>1. PICK m : m = NominationMessage(t)
  OBVIOUS
<1>2. m.Nom = t.X /\ m.Acc = t.Y /\ m \in NominationMessages
  BY <1>1, StepStates DEF NominationMessage, NominationMessages, NominationStates
<1>3. Told(ns'[n], m)
  BY <1>2, StepStates, PrefixOrder DEF Told
<1>4. /\ sent \in [Nodes -> Seq(NominationMessages)]
      /\ \A k \in Nodes : sent[k] # <<>> /\ \A i \in 1..Len(sent[k]) : Told(ns[k], sent[k][i])
  BY DEF NominationInv, TypeOK
<1>5. \A k \in Nodes : \A i \in 1..Len(sent[k]) : Told(ns'[k], sent[k][i])
  BY <1>4, ToldForGood, Zenon
<1>6. CASE UNCHANGED sent
  BY <1>4, <1>5, <1>6
<1>7. CASE sent' = [sent EXCEPT ![n] = Append(IF Len(@) < Backlog THEN @ ELSE Tail(@), m)]
  <2>1. PICK q : q = IF Len(sent[n]) < Backlog THEN sent[n] ELSE Tail(sent[n])
    BY Zenon
  <2>2. sent[n] \in Seq(NominationMessages) /\ sent[n] # <<>>
    BY <1>4
  <2>3. q \in Seq(NominationMessages) /\ \A i \in 1..Len(q) : Told(ns'[n], q[i])
    <3>1. CASE Len(sent[n]) < Backlog
      BY <1>5, <2>1, <2>2, <3>1
    <3>2. CASE ~(Len(sent[n]) < Backlog)
      <4>1. /\ q \in Seq(NominationMessages) /\ Len(q) = Len(sent[n]) - 1
            /\ \A i \in 1..Len(q) : i + 1 \in 1..Len(sent[n]) /\ q[i] = sent[n][i+1]
        BY <2>1, <2>2, <3>2
      <4> QED
        BY <1>5, <4>1
    <3> QED
      BY <3>1, <3>2
  <2>4. PICK r : r = Append(q, m)
    BY Zenon
  <2>5. /\ r \in Seq(NominationMessages) /\ r # <<>> /\ Len(r) = Len(q) + 1 /\ Len(q) \in Nat
        /\ \A i \in 1..Len(q) : r[i] = q[i]
        /\ r[Len(q) + 1] = m
    BY <1>2, <2>3, <2>4
  <2>6. \A i \in 1..Len(r) : Told(ns'[n], r[i])
    <3> SUFFICES ASSUME NEW i \in 1..Len(r) PROVE Told(ns'[n], r[i])
      OBVIOUS
    <3>1. CASE i \in 1..Len(q)
      BY <2>3, <2>5, <3>1
    <3>2. CASE i = Len(q) + 1
      BY <1>3, <2>5, <3>2
    <3> QED
      BY <2>5, <3>1, <3>2
  <2>7. sent' = [sent EXCEPT ![n] = r]
    BY <1>4, <1>7, <2>1, <2>4
  <2>8. sent' \in [Nodes -> Seq(NominationMessages)] /\ sent'[n] = r
        /\ \A k \in Nodes : k # n => sent'[k] = sent[k]
    BY <1>4, <2>5, <2>7
  <2>9. ASSUME NEW k \in Nodes
        PROVE  sent'[k] # <<>> /\ \A i \in 1..Len(sent'[k]) : Told(ns'[k], sent'[k][i])
    <3>1. CASE k = n
      BY <2>5, <2>6, <2>8, <3>1
    <3>2. CASE k # n
      BY <1>4, <1>5, <2>8, <3>2
    <3> QED
      BY <3>1, <3>2
  <2> QED
    BY <2>8, <2>9
<1> QED
  BY <1>1, <1>6, <1>7 DEF Step, Remember

\* A step of one node keeps the invariant.
LEMMA StepInv ==
    ASSUME NominationInv, NEW n \in Nodes, NEW t, Step(n, t)
    PROVE  NominationInv'
<1>1. /\ ns' \in [Nodes -> NominationStates] /\ ns'[n] = t
      /\ \A k \in Nodes : k # n => ns'[k] = ns[k]
  BY StepStates
<1>2. \A k \in Nodes : /\ ns[k].publicKey = k
                       /\ \A j \in Nodes : ns[k].N[j] # NoMessage
                       /\ NoDupes(ns[k].X) /\ NoDupes(ns[k].Y) /\ NoDupes(ns[k].Z)
                       /\ Members(ns[k].X) \subseteq valid[k]
  BY DEF NominationInv, TypeOK, ListsHaveNoDupes
<1>3. \A j \in Nodes : t.N[j] # NoMessage
  BY <1>2 DEF Step
<1>4. \A k \in Nodes : ns'[k].publicKey = k /\ \A j \in Nodes : ns'[k].N[j] # NoMessage
  BY <1>1, <1>2, <1>3 DEF Step, Responds
<1>5. TypeOK'
  BY <1>1, <1>4, SentIsTold, ZenonT(60) DEF TypeOK, Step
<1>6. ListsHaveNoDupes'
  BY <1>1, <1>2 DEF ListsHaveNoDupes, Step, Responds
<1>7. ASSUME NEW j \in Nodes, NEW k \in Nodes, ns'[j].N[k] # Nil
      PROVE  Told(ns'[k], ns'[j].N[k])
  <2>1. Told(ns[k], ns'[j].N[k])
    BY <1>1, <1>7 DEF NominationInv, Step
  <2> QED
    BY <2>1, ToldForGood
<1>8. \A k \in Nodes : Members(ns'[k].X) \subseteq valid'[k]
  <2> SUFFICES ASSUME NEW k \in Nodes PROVE Members(ns'[k].X) \subseteq valid'[k]
    OBVIOUS
  <2>1. valid[k] \subseteq valid'[k]
    BY DEF Step
  <2>2. CASE k = n
    BY <1>1, <1>2, <2>1, <2>2 DEF Step, Responds
  <2>3. CASE k # n
    BY <1>1, <1>2, <2>1, <2>3
  <2> QED
    BY <2>2, <2>3
<1>9. \A k \in Nodes : sent'[k] # <<>> /\ \A i \in 1..Len(sent'[k]) : Told(ns'[k], sent'[k][i])
  BY SentIsTold
<1> QED
  BY <1>5, <1>6, <1>7, <1>8, <1>9 DEF NominationInv

\* The end of every step: MaybeNominateNewValue, and the message that is sent.
LEMMA FinishSteps ==
    ASSUME NominationInv, NEW n \in Nodes, NEW s \in NominationStates, NEW w,
           valid' \in [Nodes -> SUBSET Values], \A k \in Nodes : valid[k] \subseteq valid'[k],
           w \in Suggestions(n, valid'[n]), Responds(ns[n], s, s.N, valid'[n]),
           Finish(n, MaybeNominateNewValue(s, w)),
           \A k \in Nodes : s.N[k] = ns[n].N[k] \/ (s.N[k] # NoMessage /\ Told(ns[k], s.N[k]))
    PROVE  \E t : Step(n, t) /\ t.N = s.N
<1>1. PICK t : t = MaybeNominateNewValue(s, w)
  OBVIOUS
<1>2. ns[n] \in NominationStates /\ valid'[n] \in SUBSET Values
  BY DEF NominationInv, TypeOK
<1>3. Responds(ns[n], t, s.N, valid'[n])
  BY <1>1, <1>2, NominateResponds
<1>4. t.N = s.N
  BY <1>3 DEF Responds
<1>5. Step(n, t)
  BY <1>1, <1>3, <1>4 DEF Step, Finish
<1> QED
  BY <1>4, <1>5

\* A message that is stale is counted, and nothing else.
LEMMA StaleSteps ==
    ASSUME NominationInv, NEW n \in Nodes, NEW node \in Nodes, NEW m \in NominationMessages,
           Process(n, node, m), IsStale(Known(ns[n], node), m)
    PROVE  \E t : Step(n, t) /\ t.N = ns[n].N
<1>1. PICK w \in Suggestions(n, valid[n]) :
         Finish(n, MaybeNominateNewValue(HandleNomination(ns[n], node, m, valid[n]), w))
  BY DEF Process
<1>2. PICK s : s = CountMessage(ns[n])
  OBVIOUS
<1>3. HandleNomination(ns[n], node, m, valid[n]) = s
  BY <1>2 DEF HandleNomination
<1>4. valid' = valid /\ valid \in [Nodes -> SUBSET Values] /\ ns[n] \in NominationStates
  BY DEF Process, NominationInv, TypeOK
<1>5. Responds(ns[n], s, ns[n].N, valid'[n])
  BY <1>2, <1>4, CountMessageResponds
<1>6. s \in NominationStates /\ s.N = ns[n].N
  BY <1>5 DEF Responds
<1>7. Responds(ns[n], s, s.N, valid'[n])
  BY <1>5, <1>6
<1>8. /\ \A k \in Nodes : valid[k] \subseteq valid'[k]
      /\ valid' \in [Nodes -> SUBSET Values]
      /\ w \in Suggestions(n, valid'[n])
      /\ Finish(n, MaybeNominateNewValue(s, w))
      /\ \A k \in Nodes : s.N[k] = ns[n].N[k] \/ (s.N[k] # NoMessage /\ Told(ns[k], s.N[k]))
  BY <1>1, <1>3, <1>4, <1>6
<1>9. \E t : Step(n, t) /\ t.N = s.N
  BY <1>6, <1>7, <1>8, FinishSteps
<1> QED
  BY <1>6, <1>9

\* A message that is not stale replaces the one that the node has.
LEMMA FreshSteps ==
    ASSUME NominationInv, NEW n \in Nodes, NEW node \in Nodes, NEW m, Told(ns[node], m),
           Process(n, node, m), ~IsStale(Known(ns[n], node), m)
    PROVE  \E t : Step(n, t) /\ t.N = [ns[n].N EXCEPT ![node] = m]
<1>1. PICK w \in Suggestions(n, valid[n]) :
         Finish(n, MaybeNominateNewValue(HandleNomination(ns[n], node, m, valid[n]), w))
  BY DEF Process
<1>2. PICK s : s = HandleNomination(ns[n], node, m, valid[n])
  OBVIOUS
<1>3. valid' = valid /\ valid \in [Nodes -> SUBSET Values] /\ ns[n] \in NominationStates
  BY DEF Process, NominationInv, TypeOK
<1>4. PICK N : N = [ns[n].N EXCEPT ![node] = m]
  BY Zenon
<1>5. m \in NominationMessages
  BY DEF Told
<1>6. Responds(ns[n], s, N, valid'[n])
  BY <1>2, <1>3, <1>4, <1>5, HandleNominationResponds
<1>7. s \in NominationStates /\ s.N = N
  BY <1>6 DEF Responds
<1>8. Responds(ns[n], s, s.N, valid'[n])
  BY <1>6, <1>7
<1>9. N[node] = m /\ \A k \in Nodes : k # node => N[k] = ns[n].N[k]
  <2>1. ns[n].N \in [Nodes -> NominationMessages \cup {Nil}]
    BY <1>3 DEF NominationStates
  <2> QED
    BY <1>4, <2>1
<1>10. m # NoMessage
  <2>1. Known(ns[n], node) \in NominationMessages
    BY <1>3 DEF Known, NoMessage, NominationMessages, NominationStates
  <2>2. /\ Len(Known(ns[n], node).Nom) \in Nat /\ Len(Known(ns[n], node).Acc) \in Nat
    BY <2>1 DEF NominationMessages
  <2>3. Len(NoMessage.Nom) = 0 /\ Len(NoMessage.Acc) = 0
    BY DEF NoMessage
  <2> QED
    BY <2>2, <2>3 DEF IsStale
<1>11. /\ \A k \in Nodes : valid[k] \subseteq valid'[k]
       /\ valid' \in [Nodes -> SUBSET Values]
       /\ w \in Suggestions(n, valid'[n])
       /\ Finish(n, MaybeNominateNewValue(s, w))
       /\ \A k \in Nodes : s.N[k] = ns[n].N[k] \/ (s.N[k] # NoMessage /\ Told(ns[k], s.N[k]))
  BY <1>1, <1>2, <1>3, <1>7, <1>9, <1>10
<1>12. \E t : Step(n, t) /\ t.N = s.N
  BY <1>7, <1>8, <1>11, FinishSteps
<1> QED
  BY <1>4, <1>7, <1>12

\* A new value in the store is at most one more vote.
LEMMA LearnSteps ==
    ASSUME NominationInv, NEW n \in Nodes, NEW v \in Values, Learn(n, v)
    PROVE  \E t : Step(n, t) /\ t.N = ns[n].N
<1>1. /\ ns[n] \in NominationStates
      /\ valid \in [Nodes -> SUBSET Values]
      /\ valid' = [valid EXCEPT ![n] = @ \cup {v}]
  BY DEF Learn, NominationInv, TypeOK
<1>2. valid' \in [Nodes -> SUBSET Values] /\ \A k \in Nodes : valid[k] \subseteq valid'[k]
  BY <1>1
<1>3. PICK w \in Suggestions(n, valid'[n]) : Finish(n, MaybeNominateNewValue(ns[n], w))
  BY DEF Learn
<1>4. Responds(ns[n], ns[n], ns[n].N, valid'[n])
  BY <1>1, NothingResponds
<1> QED
  BY <1>1, <1>2, <1>3, <1>4, FinishSteps, Zenon

\* What a step of the network is to the lists: one node moves, because of a message
\* of another node that is not stale, or without any.
LEMMA NextSteps ==
    ASSUME NominationInv, Next
    PROVE  \E n \in Nodes : \E t :
             /\ Step(n, t)
             /\ \/ t.N = ns[n].N
                \/ \E node \in Nodes \ {n} : \E m :
                     /\ Told(ns[node], m) /\ ~IsStale(Known(ns[n], node), m)
                     /\ t.N = [ns[n].N EXCEPT ![node] = m]
<1>1. PICK n \in Nodes :
        \/ \E node \in Nodes \ {n} : \E i \in 1..Len(sent[node]) :
             Process(n, node, sent[node][i])
        \/ \E v \in Values : Learn(n, v)
  BY DEF Next
<1>2. CASE \E v \in Values : Learn(n, v)
  BY <1>2, LearnSteps
<1>3. ASSUME NEW node \in Nodes \ {n}, NEW i \in 1..Len(sent[node]),
             Process(n, node, sent[node][i])
      PROVE  \E t : /\ Step(n, t)
                    /\ \/ t.N = ns[n].N
                       \/ \E k \in Nodes \ {n} : \E m :
                            /\ Told(ns[k], m) /\ ~IsStale(Known(ns[n], k), m)
                            /\ t.N = [ns[n].N EXCEPT ![k] = m]
  <2>1. PICK m : m = sent[node][i]
    OBVIOUS
  <2>2. Told(ns[node], m) /\ m \in NominationMessages
    BY <2>1 DEF NominationInv, Told
  <2>3. CASE IsStale(Known(ns[n], node), m)
    BY <1>3, <2>1, <2>2, <2>3, StaleSteps
  <2>4. CASE ~IsStale(Known(ns[n], node), m)
    <3>1. PICK t : Step(n, t) /\ t.N = [ns[n].N EXCEPT ![node] = m]
      BY <1>3, <2>1, <2>2, <2>4, FreshSteps
    <3> QED
      BY <2>2, <2>4, <3>1, Zenon
  <2> QED
    BY <2>3, <2>4
<1> QED
  BY <1>1, <1>2, <1>3, Zenon

\* NewBlock: a node has nothing from its peers, and at most one vote.
LEMMA InitStates ==
    ASSUME Init, NEW n \in Nodes
    PROVE  \E s \in NominationStates :
             /\ s.X = <<>> /\ s.Y = <<>> /\ s.Z = <<>> /\ s.publicKey = n
             /\ s.N = [k \in Nodes |-> Nil]
             /\ Responds(s, ns[n], s.N, valid[n]) /\ ns[n].Y = <<>> /\ ns[n].Z = <<>>
<1>1. PICK v \in [Nodes -> Values \cup {Nil}] :
         /\ \A k \in Nodes : v[k] \in Suggestions(k, valid[k])
         /\ ns = [k \in Nodes |-> MaybeNominateNewValue(NewNominationState(k), v[k])]
  BY DEF Init
<1>2. PICK s : s = NewNominationState(n)
  OBVIOUS
<1>3. /\ s \in NominationStates
      /\ s.X = <<>> /\ s.Y = <<>> /\ s.Z = <<>> /\ s.publicKey = n
      /\ s.N = [k \in Nodes |-> Nil]
  BY <1>2 DEF NewNominationState, NominationStates
<1>4. ns[n] = MaybeNominateNewValue(s, v[n]) /\ v[n] \in Suggestions(n, valid[n])
  BY <1>1, <1>2
<1>5. valid[n] \in SUBSET Values
  BY NetworkAssumption DEF Init
<1>6. Responds(s, ns[n], s.N, valid[n])
  <2>1. PICK N : N = s.N
    OBVIOUS
  <2>2. PICK V \in SUBSET Values : V = valid[n]
    BY <1>5
  <2>3. PICK w \in Suggestions(n, V) : w = v[n]
    BY <1>4, <2>2
  <2>4. Responds(s, s, N, V)
    BY <1>3, <2>1, NothingResponds
  <2>5. Responds(s, MaybeNominateNewValue(s, w), N, V)
    BY <1>3, <2>4, NominateResponds
  <2> QED
    BY <1>4, <2>1, <2>2, <2>3, <2>5
<1>7. ns[n].Y = <<>> /\ ns[n].Z = <<>>
  BY <1>3, <1>4 DEF MaybeNominateNewValue, NominationStates
<1> QED
  BY <1>3, <1>6, <1>7

\* The invariant holds at first.
LEMMA InitInv == Init => NominationInv
<1> SUFFICES ASSUME Init PROVE NominationInv
  OBVIOUS
<1>1. valid \in [Nodes -> SUBSET Values]
  BY NetworkAssumption DEF Init
<1>2. \A n \in Nodes : /\ ns[n] \in NominationStates /\ ns[n].publicKey = n
                       /\ ns[n].N = [k \in Nodes |-> Nil]
                       /\ NoDupes(ns[n].X) /\ NoDupes(ns[n].Y) /\ NoDupes(ns[n].Z)
                       /\ Members(ns[n].X) \subseteq valid[n]
  <2> SUFFICES ASSUME NEW n \in Nodes
               PROVE  /\ ns[n] \in NominationStates /\ ns[n].publicKey = n
                      /\ ns[n].N = [k \in Nodes |-> Nil]
                      /\ NoDupes(ns[n].X) /\ NoDupes(ns[n].Y) /\ NoDupes(ns[n].Z)
                      /\ Members(ns[n].X) \subseteq valid[n]
    OBVIOUS
  <2>1. PICK s \in NominationStates :
             /\ s.X = <<>> /\ s.Y = <<>> /\ s.Z = <<>> /\ s.publicKey = n
             /\ s.N = [k \in Nodes |-> Nil]
             /\ Responds(s, ns[n], s.N, valid[n])
    BY InitStates
  <2>2. NoDupes(<<>>) /\ Members(<<>>) = {}
    BY DEF NoDupes, Members
  <2> QED
    BY <2>1, <2>2 DEF Responds
<1>3. ns \in [Nodes -> NominationStates]
  <2>1. \E f : ns = [n \in Nodes |-> f[n]]
    <3>1. PICK v : ns = [k \in Nodes |-> MaybeNominateNewValue(NewNominationState(k), v[k])]
      BY DEF Init
    <3>2. PICK f : f = ns
      OBVIOUS
    <3>3. ns = [n \in Nodes |-> f[n]]
      BY <3>1, <3>2
    <3> QED
      BY <3>3
  <2> QED
    BY <1>2, <2>1
<1>4. \A n \in Nodes : \A k \in Nodes : ns[n].N[k] = Nil /\ Nil # NoMessage
  <2>1. NoMessage \in NominationMessages
    BY DEF NoMessage, NominationMessages
  <2> QED
    BY <1>2, <2>1, NilIsNoMessage
<1>5. /\ sent \in [Nodes -> Seq(NominationMessages)]
      /\ \A k \in Nodes : sent[k] # <<>> /\ \A i \in 1..Len(sent[k]) : Told(ns[k], sent[k][i])
  <2>1. \A k \in Nodes : /\ NominationMessage(ns[k]) \in NominationMessages
                         /\ Told(ns[k], NominationMessage(ns[k]))
    <3> SUFFICES ASSUME NEW k \in Nodes
                 PROVE  /\ NominationMessage(ns[k]) \in NominationMessages
                        /\ Told(ns[k], NominationMessage(ns[k]))
      OBVIOUS
    <3>1. ns[k].X \in Seq(Values) /\ ns[k].Y \in Seq(Values)
      BY <1>2 DEF NominationStates
    <3> QED
      BY <3>1, PrefixOrder DEF NominationMessage, NominationMessages, Told
  <2>2. sent = [n \in Nodes |-> <<NominationMessage(ns[n])>>]
    BY DEF Init
  <2>3. \A k \in Nodes : /\ sent[k] = <<NominationMessage(ns[k])>>
                         /\ sent[k] \in Seq(NominationMessages)
                         /\ Len(sent[k]) = 1 /\ sent[k][1] = NominationMessage(ns[k])
    BY <2>1, <2>2
  <2> QED
    BY <2>1, <2>2, <2>3
<1> QED
  BY <1>1, <1>2, <1>3, <1>4, <1>5 DEF NominationInv, TypeOK, ListsHaveNoDupes

\* So the invariant holds throughout.
LEMMA NominationInvariance == Spec => []NominationInv
<1>1. NominationInv /\ [Next]_vars => NominationInv'
  <2> SUFFICES ASSUME NominationInv, [Next]_vars PROVE NominationInv'
    OBVIOUS
  <2>1. CASE Next
    BY <2>1, NextSteps, StepInv
  <2>2. CASE UNCHANGED vars
    BY <2>2 DEF vars, NominationInv, TypeOK, ListsHaveNoDupes
  <2> QED
    BY <2>1, <2>2
<1> QED
  BY <1>1, InitInv, PTL DEF Spec

\* Every state has its type, and no node keeps a blank message (HandleNomination
\* drops those as stale).
THEOREM TypeCorrect == Spec => []TypeOK
<1>1. NominationInv => TypeOK
  BY DEF NominationInv
<1> QED
  BY <1>1, NominationInvariance, PTL

\* AssertNoDupes never panics: X, Y and Z get no value twice.
THEOREM NoDupesEver == Spec => []ListsHaveNoDupes
<1>1. NominationInv => ListsHaveNoDupes
  BY DEF NominationInv
<1> QED
  BY <1>1, NominationInvariance, PTL

(***************************************************************************)
(* A message that HandleNomination stores goes on where the stored one     *)
(* ended: both are beginnings of the sender's lists, and beginnings of one *)
(* list are ordered by their lengths.                                      *)
(***************************************************************************)
THEOREM NothingUnlearned == Spec => KnowledgeGrows
<1>1. ASSUME NominationInv, [Next]_vars
      PROVE  [\A n, k \in Nodes :
                ns[n].N[k] # Nil =>
                  /\ Prefix(ns[n].N[k].Nom, ns'[n].N[k].Nom)
                  /\ Prefix(ns[n].N[k].Acc, ns'[n].N[k].Acc)]_vars
  <2> SUFFICES ASSUME Next, NEW n \in Nodes, NEW k \in Nodes, ns[n].N[k] # Nil
               PROVE  /\ Prefix(ns[n].N[k].Nom, ns'[n].N[k].Nom)
                      /\ Prefix(ns[n].N[k].Acc, ns'[n].N[k].Acc)
    BY <1>1
  <2>0. PICK j \in Nodes : \E t :
             /\ Step(j, t)
             /\ \/ t.N = ns[j].N
                \/ \E node \in Nodes \ {j} : \E m :
                     /\ Told(ns[node], m) /\ ~IsStale(Known(ns[j], node), m)
                     /\ t.N = [ns[j].N EXCEPT ![node] = m]
    BY <1>1, NextSteps, Zenon
  <2>1. PICK t :
             /\ Step(j, t)
             /\ \/ t.N = ns[j].N
                \/ \E node \in Nodes \ {j} : \E m :
                     /\ Told(ns[node], m) /\ ~IsStale(Known(ns[j], node), m)
                     /\ t.N = [ns[j].N EXCEPT ![node] = m]
    BY <2>0
  <2>2. /\ ns'[j] = t /\ \A i \in Nodes : i # j => ns'[i] = ns[i]
        /\ ns[k].X \in Seq(Values) /\ ns[k].Y \in Seq(Values)
        /\ ns[n] \in NominationStates /\ ns[j] \in NominationStates
    BY <1>1, <2>1, StepStates
  <2>3. Told(ns[k], ns[n].N[k])
    BY <1>1 DEF NominationInv
  <2>4. ns[n].N[k].Nom \in Seq(Values) /\ ns[n].N[k].Acc \in Seq(Values)
    BY <2>3 DEF Told, NominationMessages
  <2>5. CASE ns'[n].N[k] = ns[n].N[k]
    BY <2>4, <2>5, PrefixOrder
  <2>6. ASSUME NEW node \in Nodes, NEW m, Told(ns[node], m),
               ~IsStale(Known(ns[j], node), m), t.N = [ns[j].N EXCEPT ![node] = m],
               ns'[n].N[k] # ns[n].N[k]
        PROVE  /\ Prefix(ns[n].N[k].Nom, ns'[n].N[k].Nom)
               /\ Prefix(ns[n].N[k].Acc, ns'[n].N[k].Acc)
    <3>1. ns[j].N \in [Nodes -> NominationMessages \cup {Nil}]
      BY <2>2 DEF NominationStates
    <3>2. n = j /\ k = node /\ ns'[n].N[k] = m
      BY <2>2, <2>6, <3>1
    <3>3. m.Nom \in Seq(Values) /\ m.Acc \in Seq(Values)
      BY <2>6 DEF Told, NominationMessages
    <3>4. Len(ns[n].N[k].Nom) <= Len(m.Nom) /\ Len(ns[n].N[k].Acc) <= Len(m.Acc)
      BY <2>4, <2>6, <3>2, <3>3 DEF IsStale, Known
    <3> QED
      BY <2>2, <2>3, <2>4, <2>6, <3>2, <3>3, <3>4, PrefixOrder, SMTT(30) DEF Told
  <2> QED
    BY <2>1, <2>2, <2>5, <2>6, Zenon
<1> QED
  BY <1>1, NominationInvariance, PTL DEF Spec, KnowledgeGrows

-------------------------------------------------------------------------------
(***************************************************************************)
(* Nomination is federated voting.                                         *)
(***************************************************************************)

\* The instance counts as we do: its quorums and blocking sets are ours.
LEMMA FederatedQuorums ==
    ASSUME NEW n, NEW S
    PROVE  /\ Federated!MeetsQuorum(n, S) <=> MeetsQuorum(n, S)
           /\ Federated!BlockedBy(Slice[n], S) <=> BlockedBy(Slice[n], S)
<1>1. \A T : Federated!Cardinality(T) = Cardinality(T)
  BY DEF Cardinality, Federated!Cardinality
<1> QED
  BY <1>1, Zenon DEF MeetsQuorum, Federated!MeetsQuorum, SelfSufficient, Federated!SelfSufficient,
              SatisfiedWith, Federated!SatisfiedWith, BlockedBy, Federated!BlockedBy,
              atLeast, Federated!atLeast

\* What the node with the state s has heard, as sets.
HeardBy(s) ==
    [k \in Nodes |-> [voted |-> Members(Known(s, k).Nom),
                      accepted |-> Members(Known(s, k).Acc)]]

\* What federated voting hears from a node is what N has of it.
LEMMA KnownMembers ==
    ASSUME NEW s \in NominationStates, NEW k \in Nodes, NEW v
    PROVE  /\ v \in HeardBy(s)[k].voted <=> k \in HeardFrom(s) /\ HasSlotValue(s.N[k].Nom, v)
           /\ v \in HeardBy(s)[k].accepted <=> k \in HeardFrom(s) /\ HasSlotValue(s.N[k].Acc, v)
<1>1. /\ HeardBy(s)[k].voted = Members(Known(s, k).Nom)
      /\ HeardBy(s)[k].accepted = Members(Known(s, k).Acc)
  BY DEF HeardBy
<1>2. CASE s.N[k] = Nil
  <2>1. Members(Known(s, k).Nom) = {} /\ Members(Known(s, k).Acc) = {}
    BY <1>2 DEF Known, NoMessage, Members
  <2> QED
    BY <1>1, <1>2, <2>1 DEF HeardFrom
<1>3. CASE s.N[k] # Nil
  BY <1>1, <1>3, HasIsMember DEF HeardFrom, Known
<1> QED
  BY <1>2, <1>3

\* Who is in favour and who is accepting, in the code and in federated voting.
LEMMA SameViews ==
    ASSUME NEW s \in NominationStates, NEW n, s.publicKey = n, NEW v
    PROVE  /\ Federated!InFavour(n, HeardBy(s), Members(s.X), v) = VotedOrAccepted(s, v)
           /\ Federated!Accepting(n, HeardBy(s), Members(s.Y), v) = Accepted(s, v)
           /\ \A A : v \notin A =>
                Federated!Accepting(n, HeardBy(s), A, v) = PeersAccepting(s, v)
<1>1. HeardFrom(s) \subseteq Nodes
  BY DEF HeardFrom
<1>2. {k \in Nodes : v \in HeardBy(s)[k].accepted} = PeersAccepting(s, v)
  BY <1>1, KnownMembers DEF PeersAccepting
<1>3. {k \in Nodes : v \in HeardBy(s)[k].voted \cup HeardBy(s)[k].accepted}
      = {k \in HeardFrom(s) : HasSlotValue(s.N[k].Acc, v) \/ HasSlotValue(s.N[k].Nom, v)}
  BY <1>1, KnownMembers
<1>4. {k \in {n} : v \in Members(s.X)} = Ourselves(s, HasSlotValue(s.X, v))
  BY HasIsMember DEF Ourselves
<1>5. {k \in {n} : v \in Members(s.Y)} = Ourselves(s, HasSlotValue(s.Y, v))
  BY HasIsMember DEF Ourselves
<1> QED
  BY <1>2, <1>3, <1>4, <1>5 DEF Federated!InFavour, Federated!Accepting, VotedOrAccepted,
                               Accepted, PeersAccepting

\* A step of node n is a response of n in federated voting.
LEMMA StepIsResponse ==
    ASSUME NominationInv, NEW n \in Nodes, NEW t, Step(n, t)
    PROVE  Federated!Respond(n)
<1>1. /\ t \in NominationStates /\ ns'[n] = t /\ ns[n] \in NominationStates
      /\ \A k \in Nodes : k # n => ns'[k] = ns[k]
      /\ Responds(ns[n], t, t.N, valid'[n]) /\ t.publicKey = n
  <2>1. /\ t \in NominationStates /\ ns'[n] = t
        /\ \A k \in Nodes : k # n => ns'[k] = ns[k]
        /\ \A k \in Nodes : ns[k] \in NominationStates
    BY StepStates
  <2>2. Responds(ns[n], t, t.N, valid'[n])
    BY DEF Step
  <2>3. ns[n].publicKey = n
    BY DEF NominationInv, TypeOK
  <2>4. t.publicKey = ns[n].publicKey
    BY <2>2 DEF Responds
  <2> QED
    BY <2>1, <2>2, <2>3, <2>4
<1>2. /\ \A k \in Nodes : Members(ns[k].X) \subseteq Values
      /\ \A k \in Nodes : Members(ns[k].Y) \subseteq Values
      /\ Members(t.X) \subseteq Values
      /\ Members(t.Y) \subseteq Values
      /\ Members(t.Z) \subseteq Values
  <2>1. ns \in [Nodes -> NominationStates]
    BY DEF NominationInv, TypeOK
  <2> QED
    BY <1>1, <2>1, MembersAreValues DEF NominationStates
<1>3. /\ Members(ns[n].X) \subseteq Members(t.X)
      /\ Members(ns[n].Y) \subseteq Members(t.Y)
      /\ Members(ns[n].Z) \subseteq Members(t.Z)
  BY <1>1, PrefixMembers DEF Responds, NominationStates
<1> DEFINE voted == [k \in Nodes |-> Members(ns[k].X)]
           accepted == [k \in Nodes |-> Members(ns[k].Y)]
           confirmed == [k \in Nodes |-> Members(ns[k].Z)]
           heard == [j \in Nodes |-> [k \in Nodes |->
                       [voted |-> Members(Known(ns[j], k).Nom),
                        accepted |-> Members(Known(ns[j], k).Acc)]]]
           V == Members(t.X) \ Members(ns[n].X)
           A == Members(t.Y) \ Members(ns[n].Y)
           C == Members(t.Z) \ Members(ns[n].Z)
<1>4. heard'[n] = HeardBy(t)
  BY <1>1 DEF HeardBy
<1>5. voted' = [voted EXCEPT ![n] = @ \cup V]
  BY <1>1, <1>3, Zenon
<1>6. accepted' = [accepted EXCEPT ![n] = @ \cup A]
  BY <1>1, <1>3, Zenon
<1>7. confirmed' = [confirmed EXCEPT ![n] = @ \cup C]
  BY <1>1, <1>3, Zenon
<1>8. V \in SUBSET (Values \ voted[n]) /\ Federated!MayVote(n, V)
  <2>1. V \in SUBSET (Values \ voted[n])
    BY <1>2
  <2>2. \A v \in voted[n] \cup V : v \in Values
    BY <1>2
  <2> QED
    BY <2>1, <2>2 DEF Federated!MayVote
<1>9. ASSUME NEW v \in A
      PROVE  v \in Values \ accepted[n]
             /\ Federated!CanAccept(n, heard'[n], voted'[n], accepted[n], v)
  <2>1. v \in Values \ accepted[n] /\ accepted[n] = Members(ns[n].Y)
        /\ voted'[n] = Members(t.X)
    BY <1>1, <1>2, <1>9
  <2>2. Acceptable(t, v)
    BY <1>1, <1>9 DEF Responds
  <2>3. /\ Federated!InFavour(n, heard'[n], voted'[n], v) = VotedOrAccepted(t, v)
        /\ Federated!Accepting(n, heard'[n], accepted[n], v) = PeersAccepting(t, v)
    <3> HIDE DEF voted, accepted, heard, A
    <3> QED
      BY <1>1, <1>4, <2>1, SameViews
  <2> HIDE DEF voted, accepted, heard, A
  <2> QED
    BY <1>1, <2>1, <2>2, <2>3, FederatedQuorums DEF Acceptable, Federated!CanAccept
<1>10. ASSUME NEW v \in C
       PROVE  v \in Values \ confirmed[n]
              /\ Federated!CanConfirm(n, heard'[n], voted'[n], accepted'[n], v)
  <2>1. v \in Values \ confirmed[n] /\ accepted'[n] = Members(t.Y)
    BY <1>1, <1>2, <1>10
  <2>2. MeetsQuorum(n, Accepted(t, v))
    BY <1>1, <1>10 DEF Responds
  <2>3. Federated!Accepting(n, heard'[n], accepted'[n], v) = Accepted(t, v)
    <3> HIDE DEF voted, accepted, heard, C
    <3> QED
      BY <1>1, <1>4, <2>1, SameViews
  <2> HIDE DEF voted, accepted, heard, confirmed, C
  <2> QED
    BY <2>1, <2>2, <2>3, FederatedQuorums DEF Federated!CanConfirm
<1>11. A \in SUBSET {v \in Values \ accepted[n] :
                       Federated!CanAccept(n, heard'[n], voted'[n], accepted[n], v)}
  <2> HIDE DEF voted, accepted, heard, A
  <2> QED
    BY <1>9
<1>12. C \in SUBSET {v \in Values \ confirmed[n] :
                       Federated!CanConfirm(n, heard'[n], voted'[n], accepted'[n], v)}
  <2> HIDE DEF voted, accepted, confirmed, heard, C
  <2> QED
    BY <1>10
<1>13. /\ \E W \in SUBSET (Values \ voted[n]) :
            Federated!MayVote(n, W) /\ voted' = [voted EXCEPT ![n] = @ \cup W]
       /\ \E W \in SUBSET {v \in Values \ accepted[n] :
                       Federated!CanAccept(n, heard'[n], voted'[n], accepted[n], v)} :
            accepted' = [accepted EXCEPT ![n] = @ \cup W]
       /\ \E W \in SUBSET {v \in Values \ confirmed[n] :
                       Federated!CanConfirm(n, heard'[n], voted'[n], accepted'[n], v)} :
            confirmed' = [confirmed EXCEPT ![n] = @ \cup W]
  <2> HIDE DEF voted, accepted, confirmed, heard, V, A, C
  <2> QED
    BY <1>5, <1>6, <1>7, <1>8, <1>11, <1>12, Zenon
<1> QED
  BY <1>13, Zenon DEF Federated!Respond

\* A step that leaves the messages alone is one without a message in federated
\* voting, any other one processes a message that says what the peer still holds.
LEMMA StepIsVoting ==
    ASSUME NominationInv, Next
    PROVE  Federated!Next
<1> DEFINE heard == [j \in Nodes |-> [k \in Nodes |->
                       [voted |-> Members(Known(ns[j], k).Nom),
                        accepted |-> Members(Known(ns[j], k).Acc)]]]
<1>1. PICK n \in Nodes : \E t :
        /\ Step(n, t)
        /\ \/ t.N = ns[n].N
           \/ \E node \in Nodes \ {n} : \E m :
                /\ Told(ns[node], m) /\ ~IsStale(Known(ns[n], node), m)
                /\ t.N = [ns[n].N EXCEPT ![node] = m]
  BY NextSteps, Zenon
<1>2. PICK t :
        /\ Step(n, t)
        /\ \/ t.N = ns[n].N
           \/ \E node \in Nodes \ {n} : \E m :
                /\ Told(ns[node], m) /\ ~IsStale(Known(ns[n], node), m)
                /\ t.N = [ns[n].N EXCEPT ![node] = m]
  BY <1>1, Zenon
<1>3. /\ t \in NominationStates /\ ns'[n] = t /\ ns[n] \in NominationStates
      /\ \A k \in Nodes : k # n => ns'[k] = ns[k]
  BY <1>2, StepStates
<1>4. Federated!Respond(n)
  BY <1>2, StepIsResponse
<1>5. CASE t.N = ns[n].N
  <2>1. \A j, k \in Nodes : Known(ns'[j], k) = Known(ns[j], k)
    BY <1>3, <1>5 DEF Known
  <2>2. heard' = heard
    BY <2>1
  <2>3. Federated!Act(n)
    BY <1>4, <2>2 DEF Federated!Act
  <2> QED
    BY <2>3 DEF Federated!Next
<1>6. ASSUME NEW node \in Nodes \ {n}, NEW m, Told(ns[node], m),
             t.N = [ns[n].N EXCEPT ![node] = m]
      PROVE  Federated!Next
  <2>1. ns[n].N \in [Nodes -> NominationMessages \cup {Nil}]
    BY <1>3 DEF NominationStates
  <2>2. t.N[node] = m /\ \A k \in Nodes : k # node => t.N[k] = ns[n].N[k]
    BY <1>6, <2>1
  <2>3. \A j, k \in Nodes : j # n \/ k # node => Known(ns'[j], k) = Known(ns[j], k)
    BY <1>3, <2>2 DEF Known
  <2>4. PICK V, A : V = Members(Known(t, node).Nom) /\ A = Members(Known(t, node).Acc)
    OBVIOUS
  <2>5. V \subseteq Members(ns[node].X) /\ A \subseteq Members(ns[node].Y)
    <3>1. CASE m = Nil
      BY <2>2, <2>4, <3>1 DEF Known, NoMessage, Members
    <3>2. CASE m # Nil
      <4>1. Known(t, node) = m
        BY <2>2, <3>2 DEF Known
      <4>2. /\ m.Nom \in Seq(Values) /\ m.Acc \in Seq(Values)
            /\ ns[node].X \in Seq(Values) /\ ns[node].Y \in Seq(Values)
        BY <1>2, <1>6, StepStates DEF Told, NominationMessages
      <4> QED
        BY <1>6, <2>4, <4>1, <4>2, PrefixMembers DEF Told
    <3> QED
      BY <3>1, <3>2
  <2>6. heard' = [heard EXCEPT ![n][node] = [voted |-> V, accepted |-> A]]
    <3>1. PICK r : r = [voted |-> V, accepted |-> A]
      BY Zenon
    <3>2. heard'[n][node] = r
      BY <1>3, <2>4, <3>1
    <3>3. \A j, k \in Nodes : j # n \/ k # node => heard'[j][k] = heard[j][k]
      BY <2>3
    <3>4. /\ heard = [j \in Nodes |-> [k \in Nodes |-> heard[j][k]]]
          /\ heard' = [j \in Nodes |-> [k \in Nodes |-> heard'[j][k]]]
      OBVIOUS
    <3> HIDE DEF heard
    <3>5. heard' = [heard EXCEPT ![n][node] = r]
      BY <3>2, <3>3, <3>4
    <3> QED
      BY <3>1, <3>5
  <2>7. Federated!Process(n, node)
    <3>1. V \in SUBSET [k \in Nodes |-> Members(ns[k].X)][node]
          /\ A \in SUBSET [k \in Nodes |-> Members(ns[k].Y)][node]
      BY <2>5
    <3> QED
      BY <1>4, <2>6, <3>1, Zenon DEF Federated!Process
  <2> QED
    BY <2>7 DEF Federated!Next
<1> QED
  BY <1>2, <1>5, <1>6, Zenon

\* Nomination starts where federated voting does.
LEMMA InitIsVoting == Init => Federated!Init
<1> SUFFICES ASSUME Init PROVE Federated!Init
  OBVIOUS
<1>1. \A n \in Nodes : /\ Members(ns[n].X) \subseteq Values
                       /\ Members(ns[n].Y) = {} /\ Members(ns[n].Z) = {}
                       /\ ns[n].N = [k \in Nodes |-> Nil]
  <2> SUFFICES ASSUME NEW n \in Nodes
               PROVE  /\ Members(ns[n].X) \subseteq Values
                      /\ Members(ns[n].Y) = {} /\ Members(ns[n].Z) = {}
                      /\ ns[n].N = [k \in Nodes |-> Nil]
    OBVIOUS
  <2>1. /\ ns[n] \in NominationStates /\ ns[n].Y = <<>> /\ ns[n].Z = <<>>
        /\ ns[n].N = [k \in Nodes |-> Nil]
    BY InitStates DEF Responds
  <2>2. ns[n].X \in Seq(Values)
    BY <2>1 DEF NominationStates
  <2> QED
    BY <2>1, <2>2, MembersAreValues DEF Members
<1>2. \A n, k \in Nodes : /\ Members(Known(ns[n], k).Nom) = {}
                          /\ Members(Known(ns[n], k).Acc) = {}
  BY <1>1 DEF Known, NoMessage, Members
<1>3. Federated!VotesConsistent
  BY <1>1 DEF Federated!VotesConsistent
<1> QED
  BY <1>1, <1>2, <1>3, Zenon DEF Federated!Init, Federated!Nothing

(***************************************************************************)
(* Nomination implements federated voting: HandleNomination, with its loop *)
(* of MaybeAdvance over the touched values, supports, accepts and confirms *)
(* only what federated voting allows.                                      *)
(***************************************************************************)
THEOREM NominationIsFederatedVoting == Spec => IsFederatedVoting
<1>1. NominationInv /\ [Next]_vars => [Federated!Next]_(Federated!vars)
  <2> SUFFICES ASSUME NominationInv, [Next]_vars PROVE [Federated!Next]_(Federated!vars)
    OBVIOUS
  <2>1. CASE Next
    BY <2>1, StepIsVoting
  <2>2. CASE UNCHANGED vars
    <3>1. UNCHANGED Federated!vars
      BY <2>2 DEF vars, Federated!vars
    <3> QED
      BY <3>1
  <2> QED
    BY <2>1, <2>2
<1> QED
  BY <1>1, InitIsVoting, NominationInvariance, PTL DEF Spec, IsFederatedVoting, Federated!Spec

-------------------------------------------------------------------------------
(***************************************************************************)
(* What is proved of federated voting holds of nomination.                 *)
(***************************************************************************)
Voting ==
    INSTANCE FederatedVotingProofs WITH
        Statements <- Values,
        Against <- [v \in Values |-> {}],
        voted <- [n \in Nodes |-> Members(ns[n].X)],
        accepted <- [n \in Nodes |-> Members(ns[n].Y)],
        confirmed <- [n \in Nodes |-> Members(ns[n].Z)],
        heard <- [n \in Nodes |-> [k \in Nodes |->
                    [voted |-> Members(Known(ns[n], k).Nom),
                     accepted |-> Members(Known(ns[n], k).Acc)]]]

\* The two instances are the same specification.
LEMMA SameVoting ==
    /\ Federated!Init <=> Voting!Init
    /\ [Federated!Next]_(Federated!vars) <=> [Voting!Next]_(Voting!vars)
<1>1. \A S : Federated!Cardinality(S) = Voting!Cardinality(S)
  BY DEF Federated!Cardinality, Voting!Cardinality
<1>2. \A n, S : Federated!MeetsQuorum(n, S) <=> Voting!MeetsQuorum(n, S)
  BY <1>1 DEF Federated!MeetsQuorum, Voting!MeetsQuorum, Federated!SelfSufficient,
              Voting!SelfSufficient, Federated!SatisfiedWith, Voting!SatisfiedWith,
              Federated!atLeast, Voting!atLeast
<1>3. \A s, S : Federated!BlockedBy(s, S) <=> Voting!BlockedBy(s, S)
  BY <1>1 DEF Federated!BlockedBy, Voting!BlockedBy, Federated!atLeast, Voting!atLeast
<1>4. /\ \A n, h, V, v : Federated!InFavour(n, h, V, v) = Voting!InFavour(n, h, V, v)
      /\ \A n, h, A, v : Federated!Accepting(n, h, A, v) = Voting!Accepting(n, h, A, v)
  BY DEF Federated!InFavour, Voting!InFavour, Federated!Accepting, Voting!Accepting
<1>5. \A n, h, V, A, v :
        /\ Federated!CanAccept(n, h, V, A, v) <=> Voting!CanAccept(n, h, V, A, v)
        /\ Federated!CanConfirm(n, h, V, A, v) <=> Voting!CanConfirm(n, h, V, A, v)
  BY <1>2, <1>3, <1>4 DEF Federated!CanAccept, Voting!CanAccept, Federated!CanConfirm,
                          Voting!CanConfirm
<1>6. \A n, V : Federated!MayVote(n, V) <=> Voting!MayVote(n, V)
  BY DEF Federated!MayVote, Voting!MayVote
<1>7. \A n : Federated!Respond(n) <=> Voting!Respond(n)
  BY <1>5, <1>6, Zenon DEF Federated!Respond, Voting!Respond
<1>8. Federated!Next <=> Voting!Next
  BY <1>7, Zenon DEF Federated!Next, Voting!Next, Federated!Act, Voting!Act, Federated!Process,
                     Voting!Process
<1>9. Federated!Init <=> Voting!Init
  BY Zenon DEF Federated!Init, Voting!Init, Federated!VotesConsistent, Voting!VotesConsistent,
         Federated!Nothing, Voting!Nothing
<1>10. Federated!vars' = Federated!vars <=> Voting!vars' = Voting!vars
  BY Zenon DEF Federated!vars, Voting!vars
<1> QED
  BY <1>8, <1>9, <1>10

\* So nomination satisfies the specification whose theorems are proved.
LEMMA NominationVotes == Spec => Voting!Spec
<1>1. Federated!Spec => Voting!Spec
  BY SameVoting, PTL DEF Federated!Spec, Voting!Spec
<1> QED
  BY <1>1, NominationIsFederatedVoting, PTL DEF IsFederatedVoting

\* The assumptions of federated voting are met by the slices and values here.
LEMMA VotingAssumptions == Voting!SliceAssumption /\ Voting!StatementsAssumption
<1>1. \A S : Voting!IsFiniteSet(S) <=> IsFiniteSet(S)
  BY DEF IsFiniteSet, Voting!IsFiniteSet
<1> QED
  BY <1>1, SliceAssumption DEF QuorumSlice, Voting!QuorumSlice

\* The instance counts as we do.
LEMMA VotingQuorums ==
    ASSUME NEW n, NEW S
    PROVE  Voting!MeetsQuorum(n, S) <=> MeetsQuorum(n, S)
<1>1. \A T : Voting!Cardinality(T) = Cardinality(T)
  BY DEF Cardinality, Voting!Cardinality
<1> QED
  BY <1>1 DEF MeetsQuorum, Voting!MeetsQuorum, SelfSufficient, Voting!SelfSufficient,
              SatisfiedWith, Voting!SatisfiedWith, atLeast, Voting!atLeast

\* Behind every value that a node accepts stands a quorum whose members could all
\* validate it and voted for it, though MaybeAccept believes a blocking set.
THEOREM AcceptanceIsValidated == Spec => []AcceptedWasValidated
<1>1. NominationInv /\ Voting!AcceptedHasVotingQuorum => AcceptedWasValidated
  <2> SUFFICES ASSUME NominationInv, Voting!AcceptedHasVotingQuorum,
                      NEW n \in Nodes, NEW v \in Members(ns[n].Y)
               PROVE  LET voters == {k \in Nodes : v \in Members(ns[k].X) /\ v \in valid[k]}
                      IN \E k \in voters : MeetsQuorum(k, voters)
    BY DEF AcceptedWasValidated
  <2> DEFINE voters == {k \in Nodes : v \in Members(ns[k].X) /\ v \in valid[k]}
  <2>1. voters = Voting!Voters(v)
    BY DEF Voting!Voters, NominationInv
  <2>2. PICK k \in Nodes : Voting!MeetsQuorum(k, Voting!Voters(v))
    BY DEF Voting!AcceptedHasVotingQuorum
  <2>3. MeetsQuorum(k, voters)
    <3> HIDE DEF voters
    <3> QED
      BY <2>1, <2>2, VotingQuorums
  <2>4. k \in voters
    BY <2>3 DEF MeetsQuorum
  <2> QED
    BY <2>3, <2>4, Zenon
<1>2. Voting!Spec => []Voting!AcceptedHasVotingQuorum
  BY VotingAssumptions, Voting!AcceptanceIsVoted, PTL
<1> QED
  BY <1>1, <1>2, NominationVotes, NominationInvariance, PTL

\* A value that a node confirms is accepted by a quorum it belongs to.
ConfirmedIsAccepted ==
    \A n \in Nodes : \A v \in Members(ns[n].Z) :
        MeetsQuorum(n, {k \in Nodes : v \in Members(ns[k].Y)})

\* What MaybeConfirm counted, from messages that may be old, is true of the peers:
\* a quorum has accepted what a node puts into Z, which is what it will put to the
\* ballot.
THEOREM ConfirmationIsShared == Spec => []ConfirmedIsAccepted
<1>1. Voting!ConfirmedHasAcceptingQuorum => ConfirmedIsAccepted
  <2> SUFFICES ASSUME Voting!ConfirmedHasAcceptingQuorum,
                      NEW n \in Nodes, NEW v \in Members(ns[n].Z)
               PROVE  MeetsQuorum(n, {k \in Nodes : v \in Members(ns[k].Y)})
    BY DEF ConfirmedIsAccepted
  <2>1. Voting!Accepters(v) = {k \in Nodes : v \in Members(ns[k].Y)}
    BY DEF Voting!Accepters
  <2>2. Voting!MeetsQuorum(n, Voting!Accepters(v))
    BY DEF Voting!ConfirmedHasAcceptingQuorum
  <2> QED
    BY <2>1, <2>2, VotingQuorums
<1>2. Voting!Spec => []Voting!ConfirmedHasAcceptingQuorum
  BY VotingAssumptions, Voting!ConfirmationIsAccepted, PTL
<1> QED
  BY <1>1, <1>2, NominationVotes, PTL

===============================================================================
