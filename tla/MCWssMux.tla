------------------------------ MODULE MCWssMux ------------------------------
(* Instances of WssMux for TLC: connections are treated alike by every       *)
(* action, so they are symmetric.                                            *)
EXTENDS WssMux, TLC

Symmetry == Permutations(Conn)
==============================================================================
