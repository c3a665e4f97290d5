---------------------------- MODULE MCHostSession ----------------------------
(* Instances of HostSession for TLC: identities are model values, and every   *)
(* action treats players, connections and punches alike, so they are         *)
(* symmetric.  The symmetry and the bound on the sessions and punches taken  *)
(* together are used by the safety run only.                                 *)
EXTENDS HostSession, TLC

Symmetry == Permutations(Conn) \cup Permutations(Punch) \cup Permutations(Peer)

CONSTANT MaxCalls
UsedPunches == {i \in Punch : timer[i] # "none"}
BoundedCalls == gen + Cardinality(UsedPunches) <= MaxCalls
==============================================================================
