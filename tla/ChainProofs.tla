----------------------------- MODULE ChainProofs -----------------------------
(***************************************************************************)
(* Proofs about Chain, for any nodes, slices, values and numbers of slots  *)
(* and restarts.                                                           *)
(*                                                                         *)
(* ChainInv ties what each node has, in memory and saved, to the values    *)
(* that the votes on the slots have ended with, and needs nothing of the   *)
(* quorums.  VoteInv says who voted for two values.  That a slot is        *)
(* decided on one value follows when any two quorums share more nodes than *)
(* start again within a slot (QuorumsOverlap), and with it that the        *)
(* databases agree, that they implement one log, and that no chunk of a    *)
(* decided value is lost (ChunkInv).                                       *)
(*                                                                         *)
(* The last part is about MeetsQuorum, which Chain and the modules of the  *)
(* slots take as one step: the search for a quorum, pass by pass.          *)
(***************************************************************************)
EXTENDS Chain, NetworkConfig, QuorumSearch, SequenceTheorems, FiniteSetTheorems, TLAPS

\* A vote on slot s has ended with v.
DecidedOn(s, v) == s \in 1..MaxSlot /\ v \in Decided(s)

\* The chain of n is made of decided values.
FollowsDecided(n) == \A i \in 1..Len(history[n]) : DecidedOn(i, history[n][i])

\* So is what the current block has externalized, and what it has heard.
ExternalDecided(n) == external[n] # Nil => DecidedOn(Slot(n), external[n])

AllDecided(h, s) == \A k \in Nodes : h[k] # Nil => DecidedOn(s, h[k])

\* The inductive invariant.
ChainInv ==
    /\ TypeOK
    /\ failed = {}
    /\ db = history
    /\ \A n \in Nodes :
         FollowsDecided(n) /\ ExternalDecided(n) /\ AllDecided(heard[n], Slot(n))

-------------------------------------------------------------------------------
(***************************************************************************)
(* The operators.                                                          *)
(***************************************************************************)

\* A chain is loaded as it is: a sequence of decided values has no gap.
LEMMA LoadsChain ==
    ASSUME NEW n \in Nodes, ChainInv
    PROVE  ~MissingBlock(db[n]) /\ Len(history[n]) \in 0..MaxSlot
<1>1. history[n] \in Seq(Values) /\ MaxSlot \in Nat
  BY ChainAssumption DEF ChainInv, TypeOK
<1>2. Len(history[n]) \in 0..MaxSlot
  <2>1. CASE Len(history[n]) = 0
    BY <1>1, <2>1
  <2>2. CASE Len(history[n]) # 0
    <3>1. Len(history[n]) \in 1..Len(history[n])
      BY <1>1, <2>2
    <3>2. DecidedOn(Len(history[n]), history[n][Len(history[n])])
      BY <3>1 DEF ChainInv, FollowsDecided
    <3> QED BY <1>1, <3>2 DEF DecidedOn
  <2> QED BY <2>1, <2>2
<1>3. DOMAIN db[n] = 1..Len(history[n])
  BY <1>1 DEF ChainInv
<1> QED BY <1>2, <1>3 DEF MissingBlock

\* InsertBlock of the next slot appends to a table that is a sequence.
LEMMA InsertAppends ==
    ASSUME NEW seq \in Seq(Values), NEW v \in Values
    PROVE  /\ ~IsUniquenessError(seq, Len(seq) + 1)
           /\ InsertBlock(seq, Len(seq) + 1, v) = Append(seq, v)
<1> DEFINE next == Len(seq) + 1
<1>1. DOMAIN seq = 1..Len(seq) /\ Len(seq) \in Nat
  OBVIOUS
<1>2. next \notin DOMAIN seq /\ DOMAIN seq \cup {next} = 1..next
  BY <1>1
<1> HIDE DEF next
<1>3. InsertBlock(seq, next, v) \in [1..next -> Values]
  BY <1>1, <1>2, ElementOfSeq DEF InsertBlock
<1>4. InsertBlock(seq, next, v) \in Seq(Values) /\ Len(InsertBlock(seq, next, v)) = next
  BY <1>1, <1>3, SeqDef DEF next
<1>5. Append(seq, v) \in Seq(Values) /\ Len(Append(seq, v)) = next
  BY DEF next
<1>6. ASSUME NEW i \in 1..next PROVE InsertBlock(seq, next, v)[i] = Append(seq, v)[i]
  BY <1>1, <1>2 DEF InsertBlock, next
<1>7. InsertBlock(seq, next, v) = Append(seq, v)
  BY <1>4, <1>5, <1>6, SeqEqual
<1> QED BY <1>2, <1>7 DEF IsUniquenessError, next

\* A value that a block is made to externalize is one that it has heard.
LEMMA ForcedHeard ==
    ASSUME NEW n \in Nodes, NEW h, NEW v \in Forced(n, h)
    PROVE  \E k \in Nodes : h[k] = v
<1>1. BlockedBy(Slice[n], Saying(h, v))
  BY DEF Forced
<1>2. Cardinality(Slice[n].Members \cap Saying(h, v)) > 0
  BY <1>1 DEF BlockedBy, atLeast
<1>3. Saying(h, v) # {}
  <2> SUFFICES ASSUME Saying(h, v) = {} PROVE FALSE
    OBVIOUS
  <2>1. Slice[n].Members \cap Saying(h, v) = {}
    OBVIOUS
  <2> QED BY <1>2, <2>1, FS_EmptySet
<1> QED BY <1>3 DEF Saying

\* What a block externalizes is a value that the slot is decided on.
LEMMA ExternalsDecided ==
    ASSUME ChainInv, NEW n \in Nodes, Slot(n) \in 1..MaxSlot, NEW h, AllDecided(h, Slot(n)),
           NEW v \in Externals(n, h), v # Nil
    PROVE  v \in Values /\ DecidedOn(Slot(n), v)
<1>1. CASE external[n] # Nil
  <2>1. v = external[n]
    BY <1>1 DEF Externals
  <2> QED BY <1>1, <2>1 DEF ChainInv, ExternalDecided, TypeOK
<1>2. CASE external[n] = Nil /\ Forced(n, h) # {}
  <2>1. v \in Forced(n, h)
    BY <1>2 DEF Externals
  <2>2. \E k \in Nodes : h[k] = v
    BY <2>1, ForcedHeard
  <2> QED BY <2>1, <2>2 DEF AllDecided, Forced
<1>3. CASE external[n] = Nil /\ Forced(n, h) = {}
  BY <1>3 DEF Externals, DecidedOn, Decided
<1> QED BY <1>1, <1>2, <1>3

-------------------------------------------------------------------------------
(***************************************************************************)
(* The steps.                                                              *)
(***************************************************************************)

\* A step that changes no chain, and makes external and heard Nil if it changes them.
LEMMA QuietStep ==
    ASSUME ChainInv, TypeOK', UNCHANGED <<failed, db, history>>,
           \A s \in 1..MaxSlot : Decided(s) \subseteq Decided(s)',
           \A n \in Nodes : external'[n] \in {external[n], Nil},
           \A n \in Nodes, k \in Nodes : heard'[n][k] \in {heard[n][k], Nil}
    PROVE  ChainInv'
<1>1. \A s, v : DecidedOn(s, v) => DecidedOn(s, v)'
  BY DEF DecidedOn
<1>2. \A n \in Nodes : Slot(n)' = Slot(n)
  BY DEF Slot
<1>3. \A n \in Nodes : FollowsDecided(n)'
  BY <1>1 DEF ChainInv, FollowsDecided
<1>4. \A n \in Nodes : ExternalDecided(n)'
  BY <1>1, <1>2 DEF ChainInv, ExternalDecided
<1>5. \A n \in Nodes : AllDecided(heard[n], Slot(n))'
  BY <1>1, <1>2 DEF ChainInv, AllDecided
<1> QED BY <1>3, <1>4, <1>5 DEF ChainInv

\* A block that is not finalized, whose external is v.
LEMMA KeepStep ==
    ASSUME ChainInv, NEW n \in Nodes, Running(n),
           NEW h \in [Nodes -> Values \cup {Nil}], AllDecided(h, Slot(n)),
           NEW known \in SUBSET Values, NEW v \in Values \cup {Nil},
           v # Nil => DecidedOn(Slot(n), v), Keep(n, v, h, known), UNCHANGED <<votes, forgot>>
    PROVE  ChainInv'
<1>1. TypeOK'
  BY DEF Keep, ChainInv, TypeOK
<1>2. \A s, w : DecidedOn(s, w)' = DecidedOn(s, w)
  BY DEF DecidedOn, Decided
<1>3. \A m \in Nodes : Slot(m)' = Slot(m) /\ FollowsDecided(m)'
  BY <1>2 DEF Keep, Slot, ChainInv, FollowsDecided
<1>4. \A m \in Nodes : ExternalDecided(m)'
  <2> SUFFICES ASSUME NEW m \in Nodes, external'[m] # Nil PROVE DecidedOn(Slot(m), external[m])'
    BY DEF ExternalDecided
  <2>1. CASE m = n
    <3>1. external'[m] = v
      BY <2>1 DEF Keep, ChainInv, TypeOK
    <3> QED BY <1>2, <1>3, <2>1, <3>1
  <2>2. CASE m # n
    <3>1. external'[m] = external[m]
      BY <2>2 DEF Keep, ChainInv, TypeOK
    <3> QED BY <1>2, <1>3, <3>1 DEF ChainInv, ExternalDecided
  <2> QED BY <2>1, <2>2
<1>5. \A m \in Nodes : AllDecided(heard[m], Slot(m))'
  <2> SUFFICES ASSUME NEW m \in Nodes, NEW k \in Nodes, heard'[m][k] # Nil
               PROVE  DecidedOn(Slot(m), heard[m][k])'
    BY DEF AllDecided
  <2>1. CASE m = n
    <3>1. heard'[m] = h
      BY <2>1 DEF Keep, ChainInv, TypeOK
    <3> QED BY <1>2, <1>3, <2>1, <3>1 DEF AllDecided
  <2>2. CASE m # n
    <3>1. heard'[m] = heard[m]
      BY <2>2 DEF Keep, ChainInv, TypeOK
    <3> QED BY <1>2, <1>3, <3>1 DEF ChainInv, AllDecided
  <2> QED BY <2>1, <2>2
<1> QED BY <1>1, <1>3, <1>4, <1>5 DEF ChainInv, Keep

\* A block that is finalized with the value v.
LEMMA FinalizeStep ==
    ASSUME ChainInv, NEW n \in Nodes, Running(n), NEW v \in Values,
           DecidedOn(Slot(n), v), Finalize(n, v), UNCHANGED <<votes, forgot>>
    PROVE  ChainInv' /\ db' = [db EXCEPT ![n] = Append(@, v)]
<1>1. Slot(n) \in 1..MaxSlot /\ history[n] \in Seq(Values) /\ history \in [Nodes -> Seq(Values)]
  BY ChainAssumption DEF Running, Slot, ChainInv, TypeOK
<1>2. \A s, w : DecidedOn(s, w)' = DecidedOn(s, w)
  BY DEF DecidedOn, Decided
<1>3. history' = [history EXCEPT ![n] = Append(@, v)]
  BY DEF Finalize, Begin
<1>4. db' = [db EXCEPT ![n] = Append(@, v)] /\ failed' = failed
  <2>1. db = history
    BY DEF ChainInv
  <2>2. InsertBlock(db[n], Slot(n), v) = Append(db[n], v) /\ ~IsUniquenessError(db[n], Slot(n))
    BY <1>1, <2>1, InsertAppends DEF Slot
  <2> QED BY <2>2 DEF Finalize
<1>5. \A m \in Nodes : FollowsDecided(m)'
  <2> SUFFICES ASSUME NEW m \in Nodes, NEW i \in 1..Len(history'[m])
               PROVE  DecidedOn(i, history'[m][i])
    BY <1>2 DEF FollowsDecided
  <2>1. CASE m = n /\ i = Slot(n)
    <3>1. history'[m][i] = v
      BY <1>1, <1>3, <2>1 DEF Slot
    <3> QED BY <2>1, <3>1
  <2>2. CASE ~(m = n /\ i = Slot(n))
    <3>1. i \in 1..Len(history[m]) /\ history'[m][i] = history[m][i]
      BY <1>1, <1>3, <2>2 DEF Slot
    <3> QED BY <3>1 DEF ChainInv, FollowsDecided
  <2> QED BY <2>1, <2>2
<1>6. \A m \in Nodes \ {n} : Slot(m)' = Slot(m) /\ external'[m] = external[m] /\ heard'[m] = heard[m]
  BY <1>3 DEF Finalize, Begin, Slot, ChainInv, TypeOK
<1>7. external'[n] = Nil /\ \A k \in Nodes : heard'[n][k] = Nil
  BY DEF Finalize, Begin, ChainInv, TypeOK
<1>8. \A m \in Nodes : ExternalDecided(m)'
  BY <1>2, <1>6, <1>7 DEF ChainInv, ExternalDecided
<1>9. \A m \in Nodes : AllDecided(heard[m], Slot(m))'
  <2> SUFFICES ASSUME NEW m \in Nodes, NEW k \in Nodes, heard'[m][k] # Nil
               PROVE  DecidedOn(Slot(m), heard[m][k])'
    BY DEF AllDecided
  <2>1. m # n
    BY <1>7
  <2> QED BY <1>2, <1>6, <2>1 DEF ChainInv, AllDecided
<1>10. TypeOK'
  <2>1. history' \in [Nodes -> Seq(Values)]
    BY <1>1, <1>3
  <2>2. /\ external' \in [Nodes -> Values \cup {Nil}] /\ chunks' \in [Nodes -> SUBSET Values]
        /\ heard' \in [Nodes -> [Nodes -> Values \cup {Nil}]]
    BY DEF Finalize, Begin, ChainInv, TypeOK
  <2>3. db' = history'
    BY <1>3, <1>4 DEF ChainInv
  <2>4. \A m \in Nodes : \A s \in DOMAIN db'[m] : s \in 1..MaxSlot /\ db'[m][s] \in Values
    <3> SUFFICES ASSUME NEW m \in Nodes, NEW s \in 1..Len(history'[m])
                 PROVE  s \in 1..MaxSlot /\ history'[m][s] \in Values
      BY <2>1, <2>3
    <3> QED BY <1>5, <2>1, ElementOfSeq DEF FollowsDecided, DecidedOn
  <2> QED BY <1>4, <2>1, <2>2, <2>4 DEF ChainInv, TypeOK
<1> QED BY <1>3, <1>4, <1>5, <1>8, <1>9, <1>10 DEF ChainInv

\* Chain.Handle keeps the invariant, and saves nothing or the value of the slot.
LEMMA HandleStep ==
    ASSUME ChainInv, NEW n \in Nodes, NEW h \in [Nodes -> Values \cup {Nil}],
           AllDecided(h, Slot(n)), NEW known \in SUBSET Values, Handle(n, h, known)
    PROVE  /\ ChainInv'
           /\ \/ UNCHANGED db
              \/ \E v \in Values : DecidedOn(Slot(n), v) /\ db' = [db EXCEPT ![n] = Append(@, v)]
<1>1. Running(n) /\ UNCHANGED <<votes, forgot>>
  BY DEF Handle
<1>2. Slot(n) \in 1..MaxSlot
  BY <1>1, ChainAssumption DEF Running, Slot, ChainInv, TypeOK
<1>3. PICK v \in Externals(n, h) : IF v \in known THEN Finalize(n, v) ELSE Keep(n, v, h, known)
  BY DEF Handle
<1>4. v # Nil => v \in Values /\ DecidedOn(Slot(n), v)
  BY <1>2, ExternalsDecided
<1>5. CASE v \in known
  BY <1>1, <1>3, <1>4, <1>5, FinalizeStep, ChainAssumption
<1>6. CASE v \notin known
  <2>1. Keep(n, v, h, known)
    BY <1>3, <1>6
  <2>2. ChainInv'
    BY <1>1, <1>4, <2>1, KeepStep
  <2> QED BY <2>1, <2>2 DEF Keep
<1> QED BY <1>5, <1>6

\* Chunks come for values.
LEMMA SharedValues ==
    ASSUME ChainInv, NEW k \in Nodes, NEW s \in Nat \ {0}
    PROVE  Shared(k, s) \subseteq Values
<1>1. history[k] \in Seq(Values) /\ chunks[k] \subseteq Values
  BY DEF ChainInv, TypeOK
<1>2. CASE Slot(k) > s
  <2>1. s \in 1..Len(history[k])
    BY <1>1, <1>2 DEF Slot
  <2> QED BY <1>1, <1>2, <2>1, ElementOfSeq DEF Shared, Slot
<1>3. CASE ~(Slot(k) > s)
  BY <1>1, <1>3 DEF Shared
<1> QED BY <1>2, <1>3

\* The block of another slot, or of this one, of k is one that the slot is decided on.
LEMMA HearsDecided ==
    ASSUME ChainInv, NEW n \in Nodes, NEW k \in Nodes, NEW v,
           DecidedOn(Slot(n), v)
    PROVE  /\ v \in Values
           /\ Hear(n, k, v) \in [Nodes -> Values \cup {Nil}]
           /\ AllDecided(Hear(n, k, v), Slot(n))
<1>1. v \in Values /\ heard[n] \in [Nodes -> Values \cup {Nil}] /\ AllDecided(heard[n], Slot(n))
  BY DEF DecidedOn, Decided, ChainInv, TypeOK
<1>2. Hear(n, k, v) \in [Nodes -> Values \cup {Nil}]
  BY <1>1 DEF Hear
<1>3. \A m \in Nodes : Hear(n, k, v)[m] \in {heard[n][m], v}
  BY <1>1 DEF Hear
<1> QED BY <1>1, <1>2, <1>3 DEF AllDecided

LEMMA ExternalizedDecided ==
    ASSUME ChainInv, NEW n \in Nodes, NEW k \in Nodes, ExternalizedBy(k, Slot(n)) # Nil
    PROVE  DecidedOn(Slot(n), ExternalizedBy(k, Slot(n)))
<1>1. history \in [Nodes -> Seq(Values)]
  BY DEF ChainInv, TypeOK
<1>2. CASE Slot(k) > Slot(n)
  <2>1. Slot(n) \in 1..Len(history[k])
    BY <1>1, <1>2 DEF Slot
  <2> QED BY <1>2, <2>1 DEF ExternalizedBy, ChainInv, FollowsDecided
<1>3. CASE ~(Slot(k) > Slot(n))
  BY <1>3 DEF ExternalizedBy, ChainInv, ExternalDecided
<1> QED BY <1>2, <1>3

\* The end of a vote adds a value that the slot is decided on.
LEMMA VoteDecides ==
    ASSUME TypeOK, NEW s \in 1..MaxSlot, NEW v \in Values, NEW Q \in Quorums, Vote(s, v, Q)
    PROVE  /\ votes' \in [1..MaxSlot -> [Values -> {{}} \cup Quorums]]
           /\ \A t \in 1..MaxSlot, w \in Values :
                votes'[t][w] = IF t = s /\ w = v THEN Q ELSE votes[t][w]
           /\ \A t \in 1..MaxSlot : Decided(t)' = IF t = s THEN Decided(t) \cup {v} ELSE Decided(t)
           /\ v \notin Decided(s)
<1>1. votes \in [1..MaxSlot -> [Values -> {{}} \cup Quorums]] /\ Q # {}
  BY DEF TypeOK, Quorums
<1>2. votes' = [votes EXCEPT ![s][v] = Q] /\ votes[s][v] = {}
  BY DEF Vote
<1>3. votes' \in [1..MaxSlot -> [Values -> {{}} \cup Quorums]]
  BY <1>1, <1>2
<1>4. \A t \in 1..MaxSlot, w \in Values :
        votes'[t][w] = IF t = s /\ w = v THEN Q ELSE votes[t][w]
  BY <1>1, <1>2
<1> QED BY <1>1, <1>2, <1>3, <1>4 DEF Decided

\* What the steps other than Vote and Restart share.
SlotStep ==
    /\ UNCHANGED <<votes, forgot>>
    /\ \/ UNCHANGED db
       \/ \E n \in Nodes, v \in Values :
            DecidedOn(Slot(n), v) /\ db' = [db EXCEPT ![n] = Append(@, v)]

AVote == \E s \in 1..MaxSlot, v \in Values, Q \in Quorums : Vote(s, v, Q)

ARestart == \E n \in Nodes : Restart(n)

\* A restart changes neither chain nor database, and is counted.
LEMMA RestartStep ==
    ASSUME ChainInv, NEW n \in Nodes, Restart(n)
    PROVE  /\ ChainInv' /\ UNCHANGED <<db, history, votes>>
           /\ Slot(n) \in 1..MaxSlot
           /\ forgot' = [forgot EXCEPT ![Slot(n)] = @ \cup {n}]
           /\ forgot' \in [1..MaxSlot -> SUBSET Nodes]
<1>1. ~MissingBlock(db[n]) /\ db = history /\ failed = {}
  BY LoadsChain DEF ChainInv
<1>2. history' = history /\ failed' = failed /\ UNCHANGED <<db, votes>>
  BY <1>1 DEF Restart, ChainInv, TypeOK
<1>3. Slot(n) \in 1..MaxSlot
  BY ChainAssumption DEF Restart, Slot, ChainInv, TypeOK
<1>4. forgot' = [forgot EXCEPT ![Slot(n)] = @ \cup {n}] /\ forgot' \in [1..MaxSlot -> SUBSET Nodes]
  BY <1>3 DEF Restart, ChainInv, TypeOK
<1>5. TypeOK'
  BY <1>2, <1>4 DEF Restart, ChainInv, TypeOK
<1>6. \A m \in Nodes : external'[m] \in {external[m], Nil}
  BY DEF Restart, ChainInv, TypeOK
<1>7. \A m, k \in Nodes : heard'[m][k] \in {heard[m][k], Nil}
  BY DEF Restart, ChainInv, TypeOK
<1>8. \A s \in 1..MaxSlot : Decided(s)' = Decided(s)
  BY <1>2 DEF Decided
<1> QED BY <1>2, <1>3, <1>4, <1>5, <1>6, <1>7, <1>8, QuietStep

\* A step that changes only chunks.
LEMMA ChunkOnlyStep ==
    ASSUME ChainInv, UNCHANGED <<history, external, heard, db, failed, votes, forgot>>,
           chunks' \in [Nodes -> SUBSET Values]
    PROVE  ChainInv' /\ SlotStep
<1>1. TypeOK'
  BY DEF ChainInv, TypeOK
<1>2. \A s \in 1..MaxSlot : Decided(s)' = Decided(s)
  BY DEF Decided
<1> QED BY <1>1, <1>2, QuietStep DEF SlotStep

\* Every step keeps the invariant, and saves nothing but decided values.
LEMMA NextStep ==
    ASSUME ChainInv, [Next]_vars
    PROVE  ChainInv' /\ (AVote \/ ARestart \/ SlotStep)
<1>1. CASE UNCHANGED vars
  BY <1>1, ChunkOnlyStep DEF vars, ChainInv, TypeOK
<1>2. ASSUME NEW n \in Nodes, NEW v \in Values, Suggest(n, v)
      PROVE  ChainInv' /\ SlotStep
  BY <1>2, ChunkOnlyStep DEF Suggest, ChainInv, TypeOK
<1>3. ASSUME NEW n \in Nodes, NEW k \in Nodes \ {n}, ReceiveChunks(n, k)
      PROVE  ChainInv' /\ SlotStep
  <2>1. Shared(k, Slot(n)) \subseteq Values
    BY SharedValues DEF Slot, ChainInv, TypeOK
  <2> QED BY <1>3, <2>1, ChunkOnlyStep DEF ReceiveChunks, ChainInv, TypeOK
<1>4. ASSUME NEW n \in Nodes, NEW h \in [Nodes -> Values \cup {Nil}],
             AllDecided(h, Slot(n)), NEW known \in SUBSET Values, Handle(n, h, known)
      PROVE  ChainInv' /\ SlotStep
  <2>1. UNCHANGED <<votes, forgot>>
    BY <1>4 DEF Handle
  <2> QED BY <1>4, <2>1, HandleStep DEF SlotStep
<1>5. ASSUME NEW n \in Nodes, NEW k \in Nodes \ {n}, ReceiveBallot(n, k)
      PROVE  ChainInv' /\ SlotStep
  <2>1. /\ heard[n] \in [Nodes -> Values \cup {Nil}] /\ AllDecided(heard[n], Slot(n))
        /\ chunks[n] \in SUBSET Values
    BY DEF ChainInv, TypeOK
  <2> QED BY <1>4, <1>5, <2>1 DEF ReceiveBallot
<1>6. ASSUME NEW n \in Nodes, NEW k \in Nodes \ {n}, ReceiveExternalize(n, k)
      PROVE  ChainInv' /\ SlotStep
  <2>1. PICK v : v = ExternalizedBy(k, Slot(n))
    OBVIOUS
  <2>2. DecidedOn(Slot(n), v) /\ Handle(n, Hear(n, k, v), chunks[n])
    BY <1>6, <2>1, ExternalizedDecided DEF ReceiveExternalize
  <2>3. chunks[n] \in SUBSET Values
    BY DEF ChainInv, TypeOK
  <2> QED BY <1>4, <2>2, <2>3, HearsDecided
<1>7. ASSUME NEW n \in Nodes, NEW k \in Nodes \ {n}, ReceiveHistory(n, k)
      PROVE  ChainInv' /\ SlotStep
  <2>1. PICK v : v = history[k][Slot(n)]
    OBVIOUS
  <2>2. Slot(n) \in 1..Len(history[k])
    BY <1>7 DEF ReceiveHistory, Slot, ChainInv, TypeOK
  <2>3. DecidedOn(Slot(n), v) /\ Handle(n, Hear(n, k, v), chunks[n] \cup {v})
    BY <1>7, <2>1, <2>2 DEF ReceiveHistory, ChainInv, FollowsDecided
  <2>4. v \in Values /\ chunks[n] \cup {v} \in SUBSET Values
    BY <2>3 DEF DecidedOn, Decided, ChainInv, TypeOK
  <2> QED BY <1>4, <2>3, <2>4, HearsDecided
<1>8. ASSUME NEW s \in 1..MaxSlot, NEW v \in Values, NEW Q \in Quorums, Vote(s, v, Q)
      PROVE  ChainInv' /\ AVote
  <2>1. UNCHANGED <<history, external, heard, chunks, db, failed, forgot>>
    BY <1>8 DEF Vote
  <2>2. /\ votes' \in [1..MaxSlot -> [Values -> {{}} \cup Quorums]]
        /\ \A t \in 1..MaxSlot : Decided(t) \subseteq Decided(t)'
    BY <1>8, VoteDecides DEF ChainInv
  <2>3. TypeOK'
    BY <2>1, <2>2 DEF ChainInv, TypeOK
  <2> QED BY <1>8, <2>1, <2>2, <2>3, QuietStep DEF AVote
<1>9. ASSUME NEW n \in Nodes, Restart(n)
      PROVE  ChainInv' /\ ARestart
  BY <1>9, RestartStep DEF ARestart
<1> QED BY <1>1, <1>2, <1>3, <1>5, <1>6, <1>7, <1>8, <1>9 DEF Next

-------------------------------------------------------------------------------
(***************************************************************************)
(* What holds whatever the quorums are.                                    *)
(***************************************************************************)

\* The inductive invariant holds: memory, database and decided values go together.
THEOREM ChainInvariance == Spec => []ChainInv
<1>1. Init => ChainInv
  <2> SUFFICES ASSUME Init PROVE ChainInv
    OBVIOUS
  <2>1. TypeOK
    BY ChainAssumption DEF Init, TypeOK
  <2>2. \A n \in Nodes : external[n] = Nil /\ Len(history[n]) = 0 /\ \A k \in Nodes : heard[n][k] = Nil
    BY DEF Init
  <2> QED BY <2>1, <2>2 DEF Init, ChainInv, FollowsDecided, ExternalDecided, AllDecided
<1>2. ChainInv /\ [Next]_vars => ChainInv'
  BY NextStep
<1> QED BY <1>1, <1>2, PTL DEF Spec

\* Whatever the network, the number of slots and the restarts: the state keeps its
\* types, and no node has a chain for which an old chunk is missing.
THEOREM ChainTypes == Spec => []TypeOK
<1>1. ChainInv => TypeOK
  BY DEF ChainInv
<1> QED BY <1>1, ChainInvariance, PTL

\* handleChainMessage and NewNodeWithMint keep memory and database the same chain,
\* and InsertBlock and ForBlocks never end the node.
THEOREM ChainSaved == Spec => []ChainIsSaved
<1>1. ChainInv => ChainIsSaved
  BY DEF ChainInv, ChainIsSaved
<1> QED BY <1>1, ChainInvariance, PTL

-------------------------------------------------------------------------------
(***************************************************************************)
(* Agreement.  Only a node that has started again votes for two values of  *)
(* a slot, so two values cannot both have a quorum when there are fewer of *)
(* those than any two quorums share.                                       *)
(***************************************************************************)
VoteInv ==
    /\ \A s \in 1..MaxSlot : Cardinality(forgot[s]) <= MaxRestarts
    /\ \A s \in 1..MaxSlot : \A v, w \in Values :
         v # w => votes[s][v] \cap votes[s][w] \subseteq forgot[s]

OneDecided == \A s \in 1..MaxSlot : \A v, w \in Decided(s) : v = w

QuorumsOverlap == \A P, Q \in Quorums : Cardinality(P \cap Q) > MaxRestarts

\* A quorum, or what two of them share, is not all nodes that have started again.
LEMMA NotAllForgot ==
    ASSUME VoteInv, QuorumsOverlap, NEW s \in 1..MaxSlot, forgot[s] \in SUBSET Nodes,
           NEW P \in Quorums, NEW Q \in Quorums
    PROVE  ~(P \cap Q \subseteq forgot[s])
<1> SUFFICES ASSUME P \cap Q \subseteq forgot[s] PROVE FALSE
  OBVIOUS
<1>1. IsFiniteSet(forgot[s])
  BY SliceAssumption, FS_Subset
<1>2. IsFiniteSet(P \cap Q) /\ Cardinality(P \cap Q) <= Cardinality(forgot[s])
  BY <1>1, FS_Subset
<1>3. Cardinality(P \cap Q) \in Nat /\ Cardinality(forgot[s]) \in Nat
  BY <1>1, <1>2, FS_CardinalityType
<1> QED BY <1>2, <1>3, ChainAssumption DEF VoteInv, QuorumsOverlap

\* VoteInv, with enough overlap, leaves one value to a slot.
LEMMA VotesAgree ==
    ASSUME TypeOK, VoteInv, QuorumsOverlap
    PROVE  OneDecided
<1> SUFFICES ASSUME NEW s \in 1..MaxSlot, NEW v \in Decided(s), NEW w \in Decided(s), v # w
             PROVE  FALSE
  BY DEF OneDecided
<1>1. v \in Values /\ w \in Values /\ votes[s][v] \in Quorums /\ votes[s][w] \in Quorums
  BY DEF TypeOK, Decided
<1>2. votes[s][v] \cap votes[s][w] \subseteq forgot[s] /\ forgot[s] \in SUBSET Nodes
  BY <1>1 DEF TypeOK, VoteInv
<1> QED BY <1>1, <1>2, NotAllForgot

\* Every step keeps VoteInv.
LEMMA VoteStep == ChainInv /\ VoteInv /\ [Next]_vars => VoteInv'
<1> SUFFICES ASSUME ChainInv, VoteInv, [Next]_vars PROVE VoteInv'
  OBVIOUS
<1>1. TypeOK
  BY DEF ChainInv
<1>2. ASSUME NEW s \in 1..MaxSlot, NEW v \in Values, NEW Q \in Quorums, Vote(s, v, Q)
      PROVE  VoteInv'
  <2>1. forgot' = forgot /\ Q \subseteq Committers(s, v)
    BY <1>2 DEF Vote
  <2>2. \A t \in 1..MaxSlot, w \in Values :
          votes'[t][w] = IF t = s /\ w = v THEN Q ELSE votes[t][w]
    BY <1>1, <1>2, VoteDecides
  <2>3. \A w \in Values \ {v} : Q \cap votes[s][w] \subseteq forgot[s]
    BY <2>1 DEF Committers
  <2>4. ASSUME NEW t \in 1..MaxSlot, NEW w \in Values, NEW x \in Values, w # x
        PROVE  votes'[t][w] \cap votes'[t][x] \subseteq forgot'[t]
    <3>1. CASE t = s /\ w = v
      BY <2>1, <2>2, <2>3, <2>4, <3>1
    <3>2. CASE t = s /\ x = v
      BY <2>1, <2>2, <2>3, <2>4, <3>2
    <3>3. CASE ~(t = s /\ w = v) /\ ~(t = s /\ x = v)
      BY <2>1, <2>2, <2>4, <3>3 DEF VoteInv
    <3> QED BY <3>1, <3>2, <3>3
  <2> QED BY <2>1, <2>4 DEF VoteInv
<1>3. ASSUME NEW n \in Nodes, Restart(n) PROVE VoteInv'
  <2>1. /\ votes' = votes /\ Slot(n) \in 1..MaxSlot
        /\ forgot' = [forgot EXCEPT ![Slot(n)] = @ \cup {n}]
    BY <1>3, RestartStep
  <2>2. \A t \in 1..MaxSlot : forgot'[t] = IF t = Slot(n) THEN forgot[t] \cup {n} ELSE forgot[t]
    BY <1>1, <2>1 DEF TypeOK
  <2>3. Cardinality(forgot[Slot(n)] \cup {n}) <= MaxRestarts
    BY <1>3 DEF Restart
  <2> QED BY <2>1, <2>2, <2>3 DEF VoteInv
<1>4. CASE UNCHANGED <<votes, forgot>>
  BY <1>4 DEF VoteInv
<1> QED BY <1>2, <1>3, <1>4, NextStep DEF AVote, ARestart, SlotStep

\* At most as many nodes as MaxRestarts forget a slot, and only they vote twice.
THEOREM VoteInvariance == Spec => []VoteInv
<1>1. Init => VoteInv
  BY FS_EmptySet, ChainAssumption DEF Init, VoteInv
<1> QED BY <1>1, VoteStep, ChainInvariance, PTL DEF Spec

\* Where quorums overlap enough, every slot is decided on one value.
LEMMA SlotsAgree == ASSUME QuorumsOverlap PROVE Spec => []OneDecided
<1>1. ChainInv /\ VoteInv => OneDecided
  BY VotesAgree DEF ChainInv
<1> QED BY <1>1, ChainInvariance, VoteInvariance, PTL

\* Two databases that have a block for a slot have the same one.
DatabasesAgree ==
    \A n, m \in Nodes : \A s \in DOMAIN db[n] \cap DOMAIN db[m] : db[n][s] = db[m][s]

(***************************************************************************)
(* The databases of all nodes are prefixes of one chain (InsertBlock), if  *)
(* any two quorums share more nodes than start again within a slot.  With  *)
(* less overlap they need not be: a node that has voted, and starts again  *)
(* before it has saved the block, votes for another value.                 *)
(***************************************************************************)
THEOREM DatabaseAgreement == ASSUME QuorumsOverlap PROVE Spec => []DatabasesAgree
<1>1. ChainInv /\ OneDecided => DatabasesAgree
  <2> SUFFICES ASSUME ChainInv, OneDecided, NEW n \in Nodes, NEW m \in Nodes,
                      NEW s \in DOMAIN db[n] \cap DOMAIN db[m]
               PROVE  db[n][s] = db[m][s]
    BY DEF DatabasesAgree
  <2>1. db = history /\ s \in 1..Len(history[n]) /\ s \in 1..Len(history[m])
    BY DEF ChainInv, TypeOK
  <2>2. DecidedOn(s, history[n][s]) /\ DecidedOn(s, history[m][s])
    BY <2>1 DEF ChainInv, FollowsDecided
  <2> QED BY <2>1, <2>2 DEF DecidedOn, OneDecided
<1> QED BY <1>1, ChainInvariance, SlotsAgree, PTL

\* Chosen is the one value that a slot is decided on.
LEMMA ChosenDecided ==
    ASSUME TypeOK, OneDecided
    PROVE  /\ Chosen \in [1..MaxSlot -> Values \cup {Nil}]
           /\ \A s \in 1..MaxSlot : /\ Decided(s) = {} => Chosen[s] = Nil
                                    /\ \A v \in Decided(s) : Chosen[s] = v
<1>1. \A s \in 1..MaxSlot : Decided(s) \subseteq Values
  BY DEF Decided
<1>2. \A s \in 1..MaxSlot : \A v \in Decided(s) : (CHOOSE w \in Decided(s) : TRUE) = v
  BY DEF OneDecided
<1> HIDE DEF Decided
<1> QED BY <1>1, <1>2 DEF Chosen

\* A step is one of the log, or changes none of it.
LEMMA LogStep ==
    ASSUME ChainInv, ChainInv', OneDecided, OneDecided', [Next]_vars
    PROVE  [Log!Next]_(Log!vars)
<1>1. TypeOK /\ TypeOK' /\ MaxSlot \in Nat
  BY ChainAssumption DEF ChainInv
<1>2. /\ Chosen \in [1..MaxSlot -> Values \cup {Nil}]
      /\ \A s \in 1..MaxSlot : /\ Decided(s) = {} => Chosen[s] = Nil
                               /\ \A v \in Decided(s) : Chosen[s] = v
  BY <1>1, ChosenDecided
<1>3. ASSUME NEW s \in 1..MaxSlot, NEW v \in Values, NEW Q \in Quorums, Vote(s, v, Q)
      PROVE  Log!Choose(s, v)
  <2>1. /\ \A t \in 1..MaxSlot : Decided(t)' = IF t = s THEN Decided(t) \cup {v} ELSE Decided(t)
        /\ v \notin Decided(s)
    BY <1>1, <1>3, VoteDecides
  <2>2. Decided(s) = {}
    BY <2>1 DEF OneDecided
  <2>3. Chosen' = [Chosen EXCEPT ![s] = v]
    <3>1. ASSUME NEW t \in 1..MaxSlot
          PROVE  Chosen'[t] = IF t = s THEN v ELSE Chosen[t]
      <4>1. Chosen'[t] = IF Decided(t)' = {} THEN Nil ELSE CHOOSE w \in Decided(t)' : TRUE
        BY DEF Chosen
      <4>2. CASE t = s
        <5>1. Decided(t)' = {v}
          BY <2>1, <2>2, <4>2
        <5> QED BY <4>1, <4>2, <5>1
      <4>3. CASE t # s
        <5>1. Decided(t)' = Decided(t)
          BY <2>1, <4>3
        <5>2. Chosen[t] = IF Decided(t) = {} THEN Nil ELSE CHOOSE w \in Decided(t) : TRUE
          BY DEF Chosen
        <5> QED BY <4>1, <4>3, <5>1, <5>2
      <4> QED BY <4>2, <4>3
    <3>2. Chosen' = [t \in 1..MaxSlot |-> Chosen'[t]]
      BY DEF Chosen
    <3> QED BY <1>2, <3>1, <3>2
  <2>4. Chosen[s] = Nil /\ db' = db
    BY <1>2, <1>3, <2>2 DEF Vote
  <2> QED BY <2>3, <2>4 DEF Log!Choose
<1>4. CASE UNCHANGED votes
  <2>1. Chosen' = Chosen
    BY <1>4 DEF Chosen, Decided
  <2>2. CASE UNCHANGED db
    BY <2>1, <2>2 DEF Log!vars
  <2>3. ASSUME NEW n \in Nodes, NEW v \in Values, DecidedOn(Slot(n), v),
               db' = [db EXCEPT ![n] = Append(@, v)]
        PROVE  Log!Learn(n)
    <3>1. Chosen[Slot(n)] = v /\ Slot(n) \in 1..MaxSlot
      BY <1>2, <2>3 DEF DecidedOn
    <3>2. Slot(n) = Len(db[n]) + 1
      BY DEF Slot, ChainInv
    <3>3. v # Nil /\ Len(db[n]) + 1 <= MaxSlot
      BY <1>1, <3>1, <3>2, ChainAssumption
    <3> QED BY <2>1, <2>3, <3>1, <3>2, <3>3 DEF Log!Learn
  <2>4. (\E n \in Nodes : Restart(n)) => UNCHANGED db
    BY RestartStep
  <2>5. CASE AVote
    <3>1. db' = db
      BY <2>5 DEF AVote, Vote
    <3> QED BY <2>2, <3>1
  <2> QED BY <2>2, <2>3, <2>4, <2>5, NextStep DEF ARestart, SlotStep, Log!Next
<1>5. AVote \/ UNCHANGED votes
  BY NextStep, RestartStep DEF ARestart, SlotStep
<1> QED BY <1>3, <1>4, <1>5 DEF AVote, Log!Next

(***************************************************************************)
(* With the same overlap the databases implement a replicated log: what    *)
(* handleChainMessage saves was chosen once for its slot, and is neither   *)
(* lost nor changed by any message or restart.                             *)
(***************************************************************************)
THEOREM ChainImplementsLog == ASSUME QuorumsOverlap PROVE Spec => ImplementsLog
<1>1. Init => Log!Init
  <2> SUFFICES ASSUME Init PROVE Log!Init
    OBVIOUS
  <2>1. \A s \in 1..MaxSlot : Decided(s) = {}
    BY DEF Init, Decided
  <2> QED BY <2>1 DEF Init, Log!Init, Chosen
<1>2. ChainInv /\ ChainInv' /\ OneDecided /\ OneDecided' /\ [Next]_vars => [Log!Next]_(Log!vars)
  BY LogStep
<1> QED BY <1>1, <1>2, ChainInvariance, SlotsAgree, PTL DEF Spec, ImplementsLog, Log!Spec

-------------------------------------------------------------------------------
(***************************************************************************)
(* Chunks that a slot was decided on.  A quorum had the chunk when it      *)
(* voted.  A node of it keeps the chunk, and later the block, unless it    *)
(* starts again before it has finalized the slot.                          *)
(***************************************************************************)

\* But for the nodes that have started again, a quorum has the chunk v of slot s.
Held(s, v) == \E P \in Quorums : \A k \in P \ forgot[s] : v \in Shared(k, s)

ChunkInv == \A s \in 1..MaxSlot : \A v \in Decided(s) : Held(s, v)

\* Chain.Handle loses no chunk of the slot's value.
LEMMA HandleShares ==
    ASSUME ChainInv, ChainInv', OneDecided, NEW n \in Nodes, NEW h, NEW known \in SUBSET Values,
           chunks[n] \subseteq known, Handle(n, h, known), NEW k \in Nodes, NEW s \in 1..MaxSlot,
           NEW v \in Decided(s), v \in Shared(k, s)
    PROVE  v \in Shared(k, s)'
<1>1. history \in [Nodes -> Seq(Values)] /\ chunks \in [Nodes -> SUBSET Values] /\ MaxSlot \in Nat
  BY ChainAssumption DEF ChainInv, TypeOK
<1>2. PICK w \in Externals(n, h) : IF w \in known THEN Finalize(n, w) ELSE Keep(n, w, h, known)
  BY DEF Handle
<1>3. CASE w \notin known
  <2>1. history' = history /\ chunks' = [chunks EXCEPT ![n] = known]
    BY <1>2, <1>3 DEF Keep
  <2>2. chunks[k] \subseteq chunks'[k]
    BY <1>1, <2>1
  <2> QED BY <2>1, <2>2 DEF Shared, Slot
<1>4. CASE w \in known
  <2>1. history' = [history EXCEPT ![n] = Append(@, w)] /\ chunks' = [chunks EXCEPT ![n] = {}]
    BY <1>2, <1>4 DEF Finalize, Begin
  <2>2. CASE k # n
    BY <1>1, <2>1, <2>2 DEF Shared, Slot
  <2>3. CASE k = n
    <3>1. PICK hist \in Seq(Values) : hist = history[n]
      BY <1>1
    <3>2. /\ history'[n] = Append(hist, w) /\ Len(Append(hist, w)) = Len(hist) + 1
          /\ Slot(n) = Len(hist) + 1 /\ Slot(n)' = Len(hist) + 2 /\ Len(hist) \in Nat
      BY <1>1, <1>4, <2>1, <3>1 DEF Slot
    <3>3. s <= Len(hist) + 1
      BY <2>3, <3>1, <3>2 DEF Shared
    <3>4. CASE s = Len(hist) + 1
      <4>1. Append(hist, w)[s] = w /\ s \in 1..Len(history'[n])
        <5>1. Append(hist, w)[Len(hist) + 1] = w
          BY <1>4, <3>1
        <5> QED BY <3>2, <3>4, <5>1
      <4>2. DecidedOn(s, w)'
        <5>1. \A i \in 1..Len(history'[n]) : DecidedOn(i, history[n][i])'
          BY DEF ChainInv, FollowsDecided
        <5> QED BY <3>2, <4>1, <5>1
      <4>3. w \in Decided(s)
        BY <4>2 DEF DecidedOn, Decided, Handle
      <4>4. w = v
        BY <4>3 DEF OneDecided
      <4> QED BY <2>3, <3>2, <3>4, <4>1, <4>4 DEF Shared
    <3>5. CASE s <= Len(hist)
      <4>1. v = hist[s]
        BY <2>3, <3>1, <3>2, <3>5 DEF Shared
      <4>2. Append(hist, w)[s] = hist[s] /\ Slot(n)' > s
        BY <1>4, <3>1, <3>2, <3>5
      <4> QED BY <2>3, <3>2, <4>1, <4>2 DEF Shared
    <3> QED BY <3>1, <3>3, <3>4, <3>5
  <2> QED BY <2>2, <2>3
<1> QED BY <1>3, <1>4

\* A step that decides nothing and restarts nobody keeps what is shared.
LEMMA ChunksKept ==
    ASSUME ChunkInv, UNCHANGED <<votes, forgot>>,
           \A s \in 1..MaxSlot : \A v \in Decided(s) : \A k \in Nodes :
             v \in Shared(k, s) => v \in Shared(k, s)'
    PROVE  ChunkInv'
<1> SUFFICES ASSUME NEW s \in 1..MaxSlot, NEW v \in Decided(s)'
             PROVE  \E P \in Quorums : \A k \in P \ forgot'[s] : v \in Shared(k, s)'
  BY DEF ChunkInv, Held
<1>1. v \in Decided(s)
  BY DEF Decided
<1>2. PICK P \in Quorums : \A k \in P \ forgot[s] : v \in Shared(k, s)
  BY <1>1 DEF ChunkInv, Held
<1>3. P \subseteq Nodes
  BY DEF Quorums
<1> QED BY <1>1, <1>2, <1>3

\* A step of Chain.Handle keeps them.
LEMMA HandleKeepsChunks ==
    ASSUME ChainInv, ChainInv', OneDecided, ChunkInv, NEW n \in Nodes, NEW h,
           NEW known \in SUBSET Values, chunks[n] \subseteq known, Handle(n, h, known)
    PROVE  ChunkInv'
<1>1. UNCHANGED <<votes, forgot>>
  BY DEF Handle
<1>2. ASSUME NEW s \in 1..MaxSlot, NEW v \in Decided(s), NEW k \in Nodes, v \in Shared(k, s)
      PROVE  v \in Shared(k, s)'
  BY <1>2, HandleShares
<1> QED BY <1>1, <1>2, ChunksKept

\* So does one that only adds chunks.
LEMMA MoreChunks ==
    ASSUME ChunkInv, UNCHANGED <<history, votes, forgot>>,
           \A k \in Nodes : chunks[k] \subseteq chunks'[k]
    PROVE  ChunkInv'
<1>1. \A k \in Nodes, s \in 1..MaxSlot : Shared(k, s) \subseteq Shared(k, s)'
  BY DEF Shared, Slot
<1> QED BY <1>1, ChunksKept

\* The end of a vote adds a value whose chunk a quorum has.
LEMMA VoteHolds ==
    ASSUME ChainInv, ChunkInv, NEW s \in 1..MaxSlot, NEW v \in Values, NEW Q \in Quorums,
           Vote(s, v, Q)
    PROVE  ChunkInv'
<1>1. UNCHANGED <<history, chunks, forgot>>
  BY DEF Vote
<1>2. \A k, t : Shared(k, t)' = Shared(k, t)
  BY <1>1 DEF Shared, Slot
<1>3. \A t \in 1..MaxSlot : Decided(t)' = IF t = s THEN Decided(t) \cup {v} ELSE Decided(t)
  BY VoteDecides DEF ChainInv
<1>4. PICK P \in Quorums : P \subseteq Nominators(s, v)
  BY DEF Vote
<1>5. \A k \in P \ forgot[s] : v \in Shared(k, s)
  BY <1>4 DEF Nominators, ValidateValue, Shared
<1>6. ASSUME NEW t \in 1..MaxSlot, NEW w \in Decided(t)'
      PROVE  \E R \in Quorums : \A k \in R \ forgot'[t] : w \in Shared(k, t)'
  <2>1. CASE t = s /\ w = v
    BY <1>1, <1>2, <1>4, <1>5, <2>1
  <2>2. CASE ~(t = s /\ w = v)
    <3>1. w \in Decided(t)
      BY <1>3, <1>6, <2>2
    <3> QED BY <1>1, <1>2, <3>1 DEF ChunkInv, Held
  <2> QED BY <2>1, <2>2
<1> QED BY <1>6 DEF ChunkInv, Held

\* A node that starts again is one more that may have lost a chunk of its slot.
LEMMA RestartLoses ==
    ASSUME ChainInv, ChunkInv, NEW n \in Nodes, Restart(n)
    PROVE  ChunkInv'
<1>1. /\ UNCHANGED <<history, votes>> /\ Slot(n) \in 1..MaxSlot
      /\ forgot' = [forgot EXCEPT ![Slot(n)] = @ \cup {n}]
  BY RestartStep
<1>2. forgot \in [1..MaxSlot -> SUBSET Nodes] /\ chunks \in [Nodes -> SUBSET Values]
  BY DEF ChainInv, TypeOK
<1>3. \A k \in Nodes \ {n} : chunks'[k] = chunks[k]
  BY <1>2 DEF Restart
<1>4. \A s \in 1..MaxSlot : \A k \in Nodes \ forgot'[s] :
        k \notin forgot[s] /\ Shared(k, s)' = Shared(k, s)
  <2> SUFFICES ASSUME NEW s \in 1..MaxSlot, NEW k \in Nodes, k \notin forgot'[s]
               PROVE  k \notin forgot[s] /\ Shared(k, s)' = Shared(k, s)
    OBVIOUS
  <2>1. k \notin forgot[s] /\ (k = n => s # Slot(n))
    BY <1>1, <1>2
  <2>2. CASE k = n
    BY <1>1, <2>1, <2>2 DEF Shared, Slot
  <2>3. CASE k # n
    BY <1>1, <1>3, <2>3 DEF Shared, Slot
  <2> QED BY <2>1, <2>2, <2>3
<1>5. ASSUME NEW s \in 1..MaxSlot, NEW v \in Decided(s)'
      PROVE  \E P \in Quorums : \A k \in P \ forgot'[s] : v \in Shared(k, s)'
  <2>1. v \in Decided(s)
    BY <1>1, <1>5 DEF Decided
  <2>2. PICK P \in Quorums : \A k \in P \ forgot[s] : v \in Shared(k, s)
    BY <2>1 DEF ChunkInv, Held
  <2>3. P \subseteq Nodes
    BY DEF Quorums
  <2> QED BY <1>4, <2>2, <2>3
<1> QED BY <1>5 DEF ChunkInv, Held

\* Every step keeps the chunks of the decided values.
LEMMA ChunkStep == ChainInv /\ ChainInv' /\ OneDecided /\ ChunkInv /\ [Next]_vars => ChunkInv'
<1> SUFFICES ASSUME ChainInv, ChainInv', OneDecided, ChunkInv, [Next]_vars PROVE ChunkInv'
  OBVIOUS
<1>1. TypeOK
  BY DEF ChainInv
<1>2. CASE UNCHANGED vars
  BY <1>2, MoreChunks DEF vars
<1>3. ASSUME NEW n \in Nodes, NEW v \in Values, Suggest(n, v) PROVE ChunkInv'
  BY <1>1, <1>3, MoreChunks DEF Suggest, TypeOK
<1>4. ASSUME NEW n \in Nodes, NEW k \in Nodes, ReceiveChunks(n, k) PROVE ChunkInv'
  BY <1>1, <1>4, MoreChunks DEF ReceiveChunks, TypeOK
<1>5. ASSUME NEW n \in Nodes, NEW k \in Nodes, ReceiveBallot(n, k) \/ ReceiveExternalize(n, k)
      PROVE  ChunkInv'
  BY <1>1, <1>5, HandleKeepsChunks DEF ReceiveBallot, ReceiveExternalize, TypeOK
<1>6. ASSUME NEW n \in Nodes, NEW k \in Nodes, ReceiveHistory(n, k) PROVE ChunkInv'
  <2>1. Slot(n) \in 1..Len(history[k]) /\ history[k] \in Seq(Values)
    BY <1>1, <1>6 DEF ReceiveHistory, Slot, TypeOK
  <2>2. history[k][Slot(n)] \in Values
    BY <2>1, ElementOfSeq
  <2>3. chunks[n] \cup {history[k][Slot(n)]} \in SUBSET Values
    BY <1>1, <2>2 DEF TypeOK
  <2> QED BY <1>6, <2>3, HandleKeepsChunks DEF ReceiveHistory
<1>7. ASSUME NEW n \in Nodes, Restart(n) PROVE ChunkInv'
  BY <1>7, RestartLoses
<1>8. ASSUME NEW s \in 1..MaxSlot, NEW v \in Values, NEW Q \in Quorums, Vote(s, v, Q)
      PROVE  ChunkInv'
  BY <1>8, VoteHolds
<1> QED BY <1>2, <1>3, <1>4, <1>5, <1>6, <1>7, <1>8 DEF Next

(***************************************************************************)
(* The chunk that a slot was decided on is never lost, with the same       *)
(* overlap: of those who had it when they voted, one keeps it in           *)
(* OperationQueue.chunks until it saves the block, and then answers for it *)
(* with a HistoryMessage.                                                  *)
(***************************************************************************)
THEOREM ChunksNotLost == ASSUME QuorumsOverlap PROVE Spec => []ChunkAvailable
<1>1. Init => ChunkInv
  BY DEF Init, ChunkInv, Decided
<1>2. ChainInv /\ VoteInv /\ ChunkInv => ChunkAvailable
  <2> SUFFICES ASSUME ChainInv, VoteInv, ChunkInv, NEW s \in 1..MaxSlot, NEW v \in Decided(s)
               PROVE  \E k \in Nodes : v \in Shared(k, s)
    BY DEF ChunkAvailable
  <2>1. PICK P \in Quorums : \A k \in P \ forgot[s] : v \in Shared(k, s)
    BY DEF ChunkInv, Held
  <2>2. ~(P \cap P \subseteq forgot[s]) /\ P \subseteq Nodes
    <3>1. forgot[s] \in SUBSET Nodes
      BY DEF ChainInv, TypeOK
    <3>2. ~(P \cap P \subseteq forgot[s])
      BY <3>1, NotAllForgot
    <3> QED BY <3>2 DEF Quorums
  <2> QED BY <2>1, <2>2
<1> QED BY <1>1, <1>2, ChunkStep, ChainInvariance, VoteInvariance, SlotsAgree, PTL DEF Spec

\* Any two sets of T nodes share at least 2T - N of the N nodes.
LEMMA UniformOverlap ==
    ASSUME NEW T \in Nat, Slice = ConfigSlice(T), 2 * T > Cardinality(Nodes) + MaxRestarts
    PROVE  QuorumsOverlap
<1> SUFFICES ASSUME NEW P \in Quorums, NEW Q \in Quorums PROVE Cardinality(P \cap Q) > MaxRestarts
  BY DEF QuorumsOverlap
<1>1. ASSUME NEW S \in Quorums PROVE S \subseteq Nodes /\ IsFiniteSet(S) /\ Cardinality(S) >= T
  <2>1. S \subseteq Nodes /\ SelfSufficient(S)
    BY DEF Quorums
  <2>2. PICK k \in S : SatisfiedWith(Slice[k], S)
    BY <2>1 DEF Quorums, SelfSufficient
  <2>3. Slice[k].Members = Nodes /\ Slice[k].Threshold = T
    BY <2>1 DEF ConfigSlice
  <2>4. Nodes \cap S = S
    BY <2>1
  <2>5. IsFiniteSet(S)
    BY <2>1, SliceAssumption, FS_Subset
  <2> QED BY <2>1, <2>2, <2>3, <2>4, <2>5 DEF SatisfiedWith, atLeast
<1>2. /\ IsFiniteSet(P) /\ IsFiniteSet(Q) /\ Cardinality(P) >= T /\ Cardinality(Q) >= T
      /\ P \cup Q \subseteq Nodes
  BY <1>1
<1>3. Cardinality(P \cup Q) = Cardinality(P) + Cardinality(Q) - Cardinality(P \cap Q)
  BY <1>2, FS_Union
<1>4. Cardinality(P \cup Q) <= Cardinality(Nodes)
  BY <1>2, SliceAssumption, FS_Subset
<1>5. P \cap Q \subseteq P
  OBVIOUS
<1>6. /\ Cardinality(P) \in Nat /\ Cardinality(Q) \in Nat /\ Cardinality(Nodes) \in Nat
      /\ Cardinality(P \cap Q) \in Nat /\ Cardinality(P \cup Q) \in Nat
  <2>1. IsFiniteSet(P \cap Q) /\ IsFiniteSet(P \cup Q)
    BY <1>2, <1>5, SliceAssumption, FS_Subset
  <2> QED BY <1>2, <2>1, SliceAssumption, FS_CardinalityType
<1> QED BY <1>2, <1>3, <1>4, <1>6, ChainAssumption

(***************************************************************************)
(* With the threshold that NewLocalhostNetwork computes, the databases     *)
(* stay one log and no decided chunk is lost, if fewer than a third of the *)
(* nodes start again within a slot.                                        *)
(***************************************************************************)
COROLLARY ConfiguredChain ==
    ASSUME Slice = ConfigSlice(LocalhostThreshold(Cardinality(Nodes))),
           3 * MaxRestarts < Cardinality(Nodes)
    PROVE  Spec => ImplementsLog /\ []ChunkAvailable
<1>1. PICK N \in Nat : N = Cardinality(Nodes)
  BY SliceAssumption, FS_CardinalityType
<1>2. PICK T : T = LocalhostThreshold(N)
  OBVIOUS
<1>3. N > 0 /\ T \in Nat /\ 3 * T >= 2 * (N - 1) + 3
  <2>1. N > 0
    BY <1>1, ChainAssumption
  <2>2. PICK q \in Int, r \in 0..2 : 2 * (N - 1) + 3 - 1 = 3 * q + r /\ q = (2 * (N - 1) + 3 - 1) \div 3
    BY <2>1
  <2>3. T = q + 1
    BY <1>2, <2>2 DEF LocalhostThreshold, Ceil
  <2> QED BY <2>1, <2>2, <2>3
<1>4. 2 * T > N + MaxRestarts
  BY <1>1, <1>3, ChainAssumption
<1>5. QuorumsOverlap
  BY <1>1, <1>2, <1>3, <1>4, UniformOverlap
<1> QED BY <1>5, ChainImplementsLog, ChunksNotLost

-------------------------------------------------------------------------------
(***************************************************************************)
(* MeetsQuorum finds a quorum exactly when there is one, and quorums meet  *)
(* blocking sets, for any nodes and any slices.                            *)
(***************************************************************************)

\* A slice has finitely many members, and any part of them can be counted.
LEMMA MembersCount ==
    ASSUME NEW qs \in QuorumSlice, NEW S
    PROVE  /\ IsFiniteSet(qs.Members) /\ Cardinality(qs.Members) \in Nat
           /\ IsFiniteSet(qs.Members \cap S)
           /\ Cardinality(qs.Members \cap S) \in Nat
           /\ Cardinality(qs.Members \cap S) <= Cardinality(qs.Members)
           /\ qs.Threshold \in Nat
<1>1. qs.Members \subseteq Nodes /\ qs.Threshold \in Nat
  BY DEF QuorumSlice
<1>2. IsFiniteSet(qs.Members)
  BY <1>1, SliceAssumption, FS_Subset
<1>3. qs.Members \cap S \subseteq qs.Members
  OBVIOUS
<1> QED
  BY <1>1, <1>2, <1>3, FS_Subset, FS_CardinalityType

\* More nodes satisfy a slice at least as well.
LEMMA SatisfiedMonotone ==
    ASSUME NEW qs \in QuorumSlice, NEW S, NEW T, S \subseteq T,
           SatisfiedWith(qs, S)
    PROVE  SatisfiedWith(qs, T)
<1>1. qs.Members \cap S \subseteq qs.Members \cap T
  OBVIOUS
<1>2. Cardinality(qs.Members \cap S) <= Cardinality(qs.Members \cap T)
  BY <1>1, MembersCount, FS_Subset
<1> QED
  BY <1>2, MembersCount DEF SatisfiedWith, atLeast

\* The members that block a slice and those that satisfy it are too many to be
\* disjoint.
LEMMA BlockingMeetsSatisfying ==
    ASSUME NEW qs \in QuorumSlice, NEW B, NEW Q,
           BlockedBy(qs, B), SatisfiedWith(qs, Q)
    PROVE  B \cap Q # {}
<1> DEFINE MB == qs.Members \cap B
           MQ == qs.Members \cap Q
<1>1. /\ IsFiniteSet(MB) /\ Cardinality(MB) \in Nat
      /\ IsFiniteSet(MQ) /\ Cardinality(MQ) \in Nat
      /\ IsFiniteSet(qs.Members) /\ Cardinality(qs.Members) \in Nat
      /\ qs.Threshold \in Nat
  BY MembersCount
<1>2. Cardinality(MB) + Cardinality(MQ) > Cardinality(qs.Members)
  BY <1>1 DEF BlockedBy, SatisfiedWith, atLeast
<1>3. SUFFICES ASSUME B \cap Q = {} PROVE FALSE
  OBVIOUS
<1>4. MB \cap MQ = {} /\ MB \cup MQ \subseteq qs.Members
  BY <1>3
<1> HIDE DEF MB, MQ
<1>5. Cardinality(MB \cup MQ) = Cardinality(MB) + Cardinality(MQ)
  <2>1. Cardinality(MB \cup MQ)
          = Cardinality(MB) + Cardinality(MQ) - Cardinality(MB \cap MQ)
    BY <1>1, FS_Union
  <2>2. Cardinality(MB \cap MQ) = 0
    BY <1>4, FS_EmptySet
  <2> QED
    BY <2>1, <2>2, <1>1
<1>6. Cardinality(MB \cup MQ) <= Cardinality(qs.Members)
  BY <1>1, <1>4, FS_Subset
<1> QED
  BY <1>1, <1>2, <1>5, <1>6

\* No pass filters out a member of a quorum.
LEMMA FilteredKeepsQuorums ==
    ASSUME SearchTypeOK, NEW Q \in SUBSET nodes, SelfSufficient(Q)
    PROVE  Q \subseteq filtered
<1> SUFFICES ASSUME NEW n \in Q PROVE n \in filtered
  OBVIOUS
<1>1. n \in Nodes /\ Slice[n] \in QuorumSlice /\ SatisfiedWith(Slice[n], Q)
  BY SliceAssumption DEF SearchTypeOK, SelfSufficient
<1>2. SatisfiedWith(Slice[n], nodes)
  BY <1>1, SatisfiedMonotone
<1> QED
  BY <1>2 DEF filtered

\* The invariant is inductive.
THEOREM SearchInvariance == SearchSpec => []SearchInv
<1>1. SearchInit => SearchInv
  BY DEF SearchInit, SearchInv, SearchTypeOK
<1>2. SearchInv /\ [SearchNext]_searchVars => SearchInv'
  <2> SUFFICES ASSUME SearchInv, [SearchNext]_searchVars PROVE SearchInv'
    OBVIOUS
  <2>1. CASE NotMet
    BY <2>1 DEF NotMet, SearchInv, SearchTypeOK, SelfSufficient, filtered
  <2>2. CASE Met
    <3>1. SelfSufficient(nodes)
      BY <2>2 DEF Met, SelfSufficient, filtered
    <3> QED
      BY <2>2, <3>1 DEF Met, SearchInv, SearchTypeOK, SelfSufficient, filtered
  <2>3. CASE Recurse
    <3>1. SearchTypeOK'
      BY <2>3 DEF Recurse, SearchInv, SearchTypeOK, filtered
    <3>2. ASSUME NEW Q \in SUBSET start, us \in Q, SelfSufficient(Q)
          PROVE  Q \subseteq filtered
      <4>1. Q \in SUBSET nodes /\ SearchTypeOK
        BY <3>2 DEF SearchInv
      <4> QED
        BY <4>1, <3>2, FilteredKeepsQuorums
    <3>3. (\A Q \in SUBSET start :
             us \in Q /\ SelfSufficient(Q) => Q \subseteq nodes)'
      BY <2>3, <3>2 DEF Recurse, SelfSufficient
    <3> QED
      BY <2>3, <3>1, <3>3 DEF Recurse, SearchInv
  <2>4. CASE UNCHANGED searchVars
    BY <2>4 DEF searchVars, SearchInv, SearchTypeOK, SelfSufficient, filtered
  <2> QED
    BY <2>1, <2>2, <2>3, <2>4 DEF SearchNext
<1> QED
  BY <1>1, <1>2, PTL DEF SearchSpec

\* MeetsQuorum is right: it returns true exactly when the nodes it is given
\* hold a quorum that includes us.
THEOREM SearchFindsQuorum == SearchSpec => []FindsQuorum
<1>1. SearchInv => FindsQuorum
  <2> SUFFICES ASSUME SearchInv PROVE FindsQuorum
    OBVIOUS
  <2>1. CASE result = "met"
    <3>1. nodes \in SUBSET start /\ us \in nodes /\ SelfSufficient(nodes)
      BY <2>1 DEF SearchInv, SearchTypeOK
    <3>2. nodes \ {us} \in SUBSET (start \ {us}) /\ (nodes \ {us}) \cup {us} = nodes
      BY <3>1
    <3>3. MeetsQuorum(us, start)
      BY <3>1, <3>2 DEF MeetsQuorum
    <3> QED
      BY <2>1, <3>3 DEF FindsQuorum
  <2>2. CASE result = "unmet"
    <3>1. ASSUME NEW Q \in SUBSET start, us \in Q, SelfSufficient(Q)
          PROVE  FALSE
      <4>1. Q \in SUBSET nodes /\ SearchTypeOK /\ us \notin filtered
        BY <2>2, <3>1 DEF SearchInv
      <4> QED
        BY <4>1, <3>1, FilteredKeepsQuorums
    <3>2. ~MeetsQuorum(us, start)
      <4> SUFFICES ASSUME us \in start, NEW others \in SUBSET (start \ {us}),
                          SelfSufficient(others \cup {us})
                   PROVE  FALSE
        BY DEF MeetsQuorum
      <4>1. others \cup {us} \in SUBSET start /\ us \in others \cup {us}
        OBVIOUS
      <4> QED
        BY <4>1, <3>1
    <3> QED
      BY <2>2, <3>2 DEF FindsQuorum
  <2>3. CASE result = "searching"
    BY <2>3 DEF FindsQuorum
  <2> QED
    BY <2>1, <2>2, <2>3 DEF SearchInv, SearchTypeOK
<1> QED
  BY <1>1, SearchInvariance, PTL

\* A quorum that MeetsQuorum finds meets every blocking set of the node.
THEOREM SearchMeetsBlockingSets == SearchSpec => []QuorumMeetsBlockingSets
<1>1. SearchInv => QuorumMeetsBlockingSets
  <2> SUFFICES ASSUME SearchInv, result = "met",
                      NEW B \in SUBSET Nodes, BlockedBy(Slice[us], B)
               PROVE  B \cap nodes # {}
    BY DEF QuorumMeetsBlockingSets
  <2>1. Slice[us] \in QuorumSlice /\ SatisfiedWith(Slice[us], nodes)
    BY SliceAssumption DEF SearchInv, SearchTypeOK, SelfSufficient
  <2> QED
    BY <2>1, BlockingMeetsSatisfying
<1> QED
  BY <1>1, SearchInvariance, PTL

===============================================================================
