----------------------------- MODULE NetworkConfig -----------------------------
(***************************************************************************)
(* The quorum slice a network configuration gives its servers              *)
(* (network/config.go), and the thresholds the repository computes.        *)
(*                                                                         *)
(* A configuration maps the public key of each server to its address; the  *)
(* servers are Nodes here.  The threshold is a field of the configuration  *)
(* file: NewLocalhostNetwork computes it from the number of servers, and   *)
(* MakeTestQuorumSlice (consensus/quorum.go) has a formula of its own.     *)
(***************************************************************************)
EXTENDS QuorumSlices

\* Config.QuorumSlice: the same slice for every server.
ConfigSlice(threshold) == [n \in Nodes |-> [Members |-> Nodes, Threshold |-> threshold]]

(***************************************************************************)
(* int(math.Ceil(2.0/3.0*float64(num-1))) + 1.  The float nearest to 2/3   *)
(* is below it.  So a product that should be a whole number is never       *)
(* rounded to more than that number, and Ceil gives the exact ceiling.     *)
(***************************************************************************)
Ceil(a, b) == (a + b - 1) \div b

LocalhostThreshold(num) == Ceil(2 * (num - 1), 3) + 1

TestThreshold(size) == (2 * size) \div 3 + 1

===============================================================================
