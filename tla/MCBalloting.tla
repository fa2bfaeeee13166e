------------------------------ MODULE MCBalloting ------------------------------
(***************************************************************************)
(* Instances of Balloting in which every node has the same slice, as a     *)
(* network configuration gives them (Config.QuorumSlice).                  *)
(***************************************************************************)
EXTENDS Balloting, NetworkConfig, TLC

CONSTANT Threshold

UniformSlice == ConfigSlice(Threshold)

Symmetry == Permutations(Nodes) \cup Permutations(Values)

===============================================================================
