---------------------------- MODULE ReplicatedLog ----------------------------
(***************************************************************************)
(* What a network of nodes promises to those who read their databases: one *)
(* value is chosen for each slot, once, and every replica is a log of the  *)
(* chosen values that only grows.  Module Chain implements it.             *)
(***************************************************************************)
EXTENDS Integers, Sequences

CONSTANTS
    Replicas,
    Values,
    Nil,
    MaxSlot     \* the number of slots, as in Chain

VARIABLES
    chosen,     \* the value of each slot, Nil while it has none
    log         \* the values that each replica has learned

vars == <<chosen, log>>

Init ==
    /\ chosen = [s \in 1..MaxSlot |-> Nil]
    /\ log = [r \in Replicas |-> <<>>]

Choose(s, v) ==
    /\ chosen[s] = Nil
    /\ chosen' = [chosen EXCEPT ![s] = v]
    /\ UNCHANGED log

\* r learns the value of its next slot.
Learn(r) ==
    LET slot == Len(log[r]) + 1
    IN /\ slot <= MaxSlot
       /\ chosen[slot] # Nil
       /\ log' = [log EXCEPT ![r] = Append(@, chosen[slot])]
       /\ UNCHANGED chosen

Next ==
    \/ \E s \in 1..MaxSlot, v \in Values : Choose(s, v)
    \/ \E r \in Replicas : Learn(r)

Spec == Init /\ [][Next]_vars

===============================================================================
